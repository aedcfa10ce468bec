---------------------------- MODULE DaemonRuntime ----------------------------
(***************************************************************************)
(* The inside of one daemon: its configuration, the protocol loops it      *)
(* runs, and the goroutines that change both.                              *)
(*                                                                         *)
(* cfgMu covers d.cfg alone.  Whoever has committed a new configuration -  *)
(* a receive loop, an admin handler, the join - goes on to applyRuntime,   *)
(* which rewires the daemon without a lock: it reads and writes d.loopPA   *)
(* and d.loopGo, creates loops, closes their stop channels, and hands the  *)
(* thresholds to the suspicion manager and the store.  One action is one   *)
(* such access, and any number of applyRuntime may be under way, up to     *)
(* the number of appliers.                                                 *)
(*                                                                         *)
(* The rest of the world is what reaches the daemon: configurations on     *)
(* datagrams, admin requests, the introducer's answer to the join.         *)
(***************************************************************************)
EXTENDS ClusterConfig

CONSTANTS
  IsIntroducer,  \* started with -is-introducer
  Applier,       \* goroutines that may be inside applyRuntime at a time
  JoinVersions,  \* versions the introducer may answer with
  Nil,
  \* bounds of the model
  MaxVersion, MaxLoops

ASSUME RuntimeAssumption ==
  /\ IsIntroducer \in BOOLEAN
  /\ "main" \notin Applier
  /\ JoinVersions \subseteq Nat
  /\ MaxVersion \in Nat /\ MaxLoops \in Nat

VARIABLES
  cfg,       \* d.cfg
  given,     \* the cfg argument of Run
  main,      \* where Run is
  slot,      \* d.loopPA and d.loopGo: the loop each points to
  loop,      \* loop objects, in the order of their creation
  task,      \* task[t]: what goroutine t has yet to do
  manager,   \* configuration whose thresholds and gate the manager has
  store,     \* configuration the store has
  panicked,  \* a goroutine has panicked, and the process with it
  adopted    \* history: configurations that have been in force

vars == <<cfg, given, main, slot, loop, task, manager, store, panicked, adopted>>

LoopId == 1 .. MaxLoops

Thread == {"main"} \cup Applier

\* wired: OnConfig is set.  receivers and senders count goroutines, as Run may be
\* called twice on one loop; late counts the datagrams its receivers have handled
\* since stop was closed.
Loop == [mode : Modes, open : BOOLEAN, wired : BOOLEAN, dto : ConfigDTO, tuned : Config,
         receivers : Nat, senders : Nat, late : Nat]

\* at: the next access of applyRuntime or startProtocol; restart: the mode has changed;
\* whole: applyRuntime, not Run's own startProtocol; from: the loop whose receiver it is.
Work == [at : {"decide", "tune", "stop", "forget", "create", "equip", "run",
               "manager", "store", "refresh"},
         next : Config, restart : BOOLEAN, whole : BOOLEAN, from : LoopId \cup {Nil}]

ASSUME NilAssumption == Nil \notin Loop \cup Work \cup LoopId

TypeOK ==
  /\ cfg \in Config /\ given \in Config /\ manager \in Config /\ store \in Config
  /\ main \in {"joining", "applying", "starting", "serving"}
  /\ slot \in [Modes -> LoopId \cup {Nil}]
  /\ loop \in [LoopId -> Loop \cup {Nil}]
  /\ task \in [Thread -> Work \cup {Nil}]
  /\ panicked \in BOOLEAN
  /\ adopted \subseteq Config

-----------------------------------------------------------------------------
Other(m) == IF m = ModePingAck THEN ModeGossip ELSE ModePingAck

\* applyRuntime(prev, next), called by from.
ApplyRuntime(prev, next, from) ==
  [at |-> "decide", next |-> next, restart |-> prev.set.mode # next.set.mode,
   whole |-> TRUE, from |-> from]

\* startProtocol(cfg), called by Run.
StartProtocol(c) ==
  [at |-> "stop", next |-> c, restart |-> FALSE, whole |-> FALSE, from |-> Nil]

\* Thread t has the access p before it.
At(t, p) == ~panicked /\ task[t] # Nil /\ task[t].at = p

Proceed(t, p) == task' = [task EXCEPT ![t].at = p]

\* t dereferences a nil pointer or closes a closed channel.
Panic == panicked' = TRUE /\ UNCHANGED <<slot, loop, task, manager, store>>

\* What no step of a task touches.
RunUnchanged == UNCHANGED <<cfg, given, main, adopted>>

\* The slot of the mode t is switching to, and the one of the mode it is leaving.
Mine(t) == slot[task[t].next.set.mode]
Theirs(t) == slot[Other(task[t].next.set.mode)]

Fresh == {l \in LoopId : loop[l] = Nil /\ \A k \in 1 .. l - 1 : loop[k] # Nil}

NewLoop(c) ==
  [mode |-> c.set.mode, open |-> TRUE, wired |-> FALSE, dto |-> EmptyDTO, tuned |-> c,
   receivers |-> 0, senders |-> 0, late |-> 0]

-----------------------------------------------------------------------------
Init ==
  /\ \E s \in Settings : given = LoadFromFlags(s)
  /\ cfg = given /\ manager = given /\ store = given
  /\ main = IF IsIntroducer THEN "starting" ELSE "joining"
  /\ slot = [m \in Modes |-> Nil]
  /\ loop = [l \in LoopId |-> Nil]
  /\ task = [t \in Thread |-> Nil]
  /\ panicked = FALSE
  /\ adopted = {cfg}

Commit(c) == cfg' = c /\ adopted' = adopted \cup {c}

-----------------------------------------------------------------------------
(* Who commits a configuration.                                            *)

\* joinCluster: the introducer's answer is applied, and pushed into the daemon
\* before Run goes on.
JoinApply(dto) ==
  /\ ~panicked
  /\ main = "joining"
  /\ LET new == ApplyRemote(cfg, dto)
     IN  \/ /\ new = cfg
            /\ main' = "starting"
            /\ UNCHANGED <<cfg, adopted, task>>
         \/ /\ new # cfg
            /\ Commit(new)
            /\ main' = "applying"
            /\ task' = [task EXCEPT !["main"] = ApplyRuntime(cfg, new, Nil)]
  /\ UNCHANGED <<given, slot, loop, manager, store, panicked>>

\* Run starts the protocol of the configuration it was given.
RunStarts ==
  /\ ~panicked
  /\ main = "starting"
  /\ task["main"] = Nil
  /\ task' = [task EXCEPT !["main"] = StartProtocol(given)]
  /\ UNCHANGED <<cfg, given, main, slot, loop, manager, store, panicked, adopted>>

\* /set and /switch: one critical section, then applyRuntime in the handler.
AdminCommit(t, dto) ==
  /\ ~panicked
  /\ main = "serving"
  /\ t \in Applier
  /\ task[t] = Nil
  /\ LET new == BumpAndApplyLocal(cfg, dto)
     IN  /\ new # cfg
         /\ new.version <= MaxVersion
         /\ Commit(new)
         /\ task' = [task EXCEPT ![t] = ApplyRuntime(cfg, new, Nil)]
  /\ UNCHANGED <<given, main, slot, loop, manager, store, panicked>>

\* Mutant: a goroutine that has ended reads on.
ReadsAnyway(l) == ~panicked /\ loop[l] # Nil

\* A receiver of loop l reads a datagram: stop is only looked at before Read.
Reads(l) ==
  /\ ~panicked
  /\ loop[l] # Nil
  /\ loop[l].receivers > 0

Late(l) == IF loop[l].open THEN loop[l].late ELSE loop[l].late + 1

\* onConfigFromWire with a newer configuration: the receiver itself goes through
\* applyRuntime, with stop of its own loop among the things it may close.
HearNews(t, l, dto) ==
  /\ Reads(l)
  /\ loop[l].wired
  /\ t \in Applier
  /\ task[t] = Nil
  /\ LET new == ApplyRemote(cfg, dto)
     IN  /\ new # cfg
         /\ Commit(new)
         /\ task' = [task EXCEPT ![t] = ApplyRuntime(cfg, new, l)]
  /\ loop' = [loop EXCEPT ![l].receivers = @ - 1, ![l].late = Late(l)]
  /\ UNCHANGED <<given, main, slot, manager, store, panicked>>

\* Mutant: the receiver does not look at stop before it reads again.
KeepsReading(l) ==
  /\ Reads(l)
  /\ ~loop[l].open
  /\ loop' = [loop EXCEPT ![l].late = Late(l)]
  /\ UNCHANGED <<cfg, given, main, slot, task, manager, store, panicked, adopted>>

\* A datagram without news is handled by a loop that has been stopped: this
\* is how its receiver gets out of Read.  A loop that has not been stopped reads on.
HearNothing(l) ==
  /\ Reads(l)
  /\ ~loop[l].open
  /\ loop' = [loop EXCEPT ![l].receivers = @ - 1, ![l].late = Late(l)]
  /\ UNCHANGED <<cfg, given, main, slot, task, manager, store, panicked, adopted>>

\* Mutant: the sender waits for its ticker alone.
SenderIgnoresStop(l) ==
  /\ loop[l] # Nil
  /\ UNCHANGED vars

\* pingLoop and gossipLoop return when they find stop closed.
SenderStops(l) ==
  /\ ~panicked
  /\ loop[l] # Nil
  /\ ~loop[l].open
  /\ loop[l].senders > 0
  /\ loop' = [loop EXCEPT ![l].senders = 0]
  /\ UNCHANGED <<cfg, given, main, slot, task, manager, store, panicked, adopted>>

-----------------------------------------------------------------------------
(* applyRuntime and startProtocol, one access to shared state at a time.   *)

Decide(t) ==
  /\ At(t, "decide")
  /\ Proceed(t, IF task[t].restart \/ Mine(t) = Nil THEN "stop" ELSE "tune")
  /\ UNCHANGED <<slot, loop, manager, store, panicked>>
  /\ RunUnchanged

\* Reconfigure of the loop that runs.
Tune(t) ==
  /\ At(t, "tune")
  /\ \/ Mine(t) = Nil /\ Panic
     \/ /\ Mine(t) # Nil
        /\ loop' = [loop EXCEPT ![Mine(t)].tuned = task[t].next]
        /\ Proceed(t, "manager")
        /\ UNCHANGED <<slot, manager, store, panicked>>
  /\ RunUnchanged

\* Mutants: the loop of the other mode is not stopped; it is closed without the test
\* for nil.
StopForgotten(t) ==
  /\ At(t, "stop")
  /\ Proceed(t, "create")
  /\ UNCHANGED <<slot, loop, manager, store, panicked>>
  /\ RunUnchanged

StopUnchecked(t) ==
  /\ At(t, "stop")
  /\ \/ (Theirs(t) = Nil \/ ~loop[Theirs(t)].open) /\ Panic
     \/ /\ Theirs(t) # Nil
        /\ loop[Theirs(t)].open
        /\ loop' = [loop EXCEPT ![Theirs(t)].open = FALSE]
        /\ Proceed(t, "forget")
        /\ UNCHANGED <<slot, manager, store, panicked>>
  /\ RunUnchanged

\* stopGossip or stopPingAck: Close ...
Stop(t) ==
  /\ At(t, "stop")
  /\ \/ /\ Theirs(t) = Nil
        /\ Proceed(t, "create")
        /\ UNCHANGED <<slot, loop, manager, store, panicked>>
     \/ Theirs(t) # Nil /\ ~loop[Theirs(t)].open /\ Panic
     \/ /\ Theirs(t) # Nil
        /\ loop[Theirs(t)].open
        /\ loop' = [loop EXCEPT ![Theirs(t)].open = FALSE]
        /\ Proceed(t, "forget")
        /\ UNCHANGED <<slot, manager, store, panicked>>
  /\ RunUnchanged

\* ... and the pointer is cleared.
Forget(t) ==
  /\ At(t, "forget")
  /\ slot' = [slot EXCEPT ![Other(task[t].next.set.mode)] = Nil]
  /\ Proceed(t, "create")
  /\ UNCHANGED <<loop, manager, store, panicked>>
  /\ RunUnchanged

\* New, assigned to the slot of the new mode; a loop the slot still held is lost.
Create(t) ==
  /\ At(t, "create")
  /\ \E l \in Fresh :
       /\ loop' = [loop EXCEPT ![l] = NewLoop(task[t].next)]
       /\ slot' = [slot EXCEPT ![task[t].next.set.mode] = l]
  /\ Proceed(t, "equip")
  /\ UNCHANGED <<manager, store, panicked>>
  /\ RunUnchanged

\* SetConfigDTO and OnConfig of the loop the slot holds by now.
Equip(t) ==
  /\ At(t, "equip")
  /\ \/ Mine(t) = Nil /\ Panic
     \/ /\ Mine(t) # Nil
        /\ loop' = [loop EXCEPT ![Mine(t)].dto = ToDTO(task[t].next),
                                 ![Mine(t)].wired = TRUE]
        /\ Proceed(t, "run")
        /\ UNCHANGED <<slot, manager, store, panicked>>
  /\ RunUnchanged

\* Run of the loop the slot holds by now: its goroutines start.
RunLoop(t) ==
  /\ At(t, "run")
  /\ \/ Mine(t) = Nil /\ Panic /\ UNCHANGED main
     \/ /\ Mine(t) # Nil
        /\ loop' = [loop EXCEPT ![Mine(t)].receivers = @ + 1, ![Mine(t)].senders = @ + 1]
        /\ \/ task[t].whole /\ Proceed(t, "manager") /\ UNCHANGED main
           \/ /\ ~task[t].whole
              /\ task' = [task EXCEPT ![t] = Nil]
              /\ main' = "serving"
        /\ UNCHANGED <<slot, manager, store, panicked>>
  /\ UNCHANGED <<cfg, given, adopted>>

ReconfigureManager(t) ==
  /\ At(t, "manager")
  /\ manager' = task[t].next
  /\ Proceed(t, "store")
  /\ UNCHANGED <<slot, loop, store, panicked>>
  /\ RunUnchanged

ReconfigureStore(t) ==
  /\ At(t, "store")
  /\ store' = task[t].next
  /\ Proceed(t, "refresh")
  /\ UNCHANGED <<slot, loop, manager, panicked>>
  /\ RunUnchanged

\* The cached DTOs of both loops are refreshed and applyRuntime returns: to
\* joinCluster, to the handler, or to a receiver that now looks at its stop channel.
\* One step, so that a slot cleared between the test and the call is left out.
Refresh(t) ==
  /\ At(t, "refresh")
  /\ LET dto == ToDTO(task[t].next)
         back(l) == IF task[t].from = l /\ loop[l].open THEN 1 ELSE 0
     IN  loop' = [l \in LoopId |->
                    IF loop[l] = Nil THEN Nil
                    ELSE [loop[l] EXCEPT !.dto = IF \E m \in Modes : slot[m] = l THEN dto ELSE @,
                                         !.receivers = @ + back(l)]]
  /\ task' = [task EXCEPT ![t] = Nil]
  /\ main' = IF t = "main" THEN "starting" ELSE main
  /\ UNCHANGED <<cfg, given, slot, manager, store, panicked, adopted>>

TaskStep(t) ==
  \/ Decide(t) \/ Tune(t) \/ Stop(t) \/ Forget(t) \/ Create(t) \/ Equip(t) \/ RunLoop(t)
  \/ ReconfigureManager(t) \/ ReconfigureStore(t) \/ Refresh(t)

\* Bound: versions up to MaxVersion.
HeardDTO == [version : 1 .. MaxVersion, set : Parsed]

Next ==
  \/ \E t \in Thread : TaskStep(t)
  \/ \E dto \in {d \in HeardDTO : d.version \in JoinVersions} : JoinApply(dto)
  \/ RunStarts
  \/ \E t \in Applier, dto \in HeardDTO : AdminCommit(t, dto)
  \/ \E t \in Applier, l \in LoopId, dto \in HeardDTO : HearNews(t, l, dto)
  \/ \E l \in LoopId : HearNothing(l) \/ SenderStops(l)

Spec == Init /\ [][Next]_vars

\* The goroutines are scheduled, and datagrams keep arriving: peers send every
\* period, and the readers of the one socket are served in turn.
Fairness ==
  /\ \A t \in Thread : WF_vars(TaskStep(t))
  /\ WF_vars(RunStarts)
  /\ \A l \in LoopId : WF_vars(HearNothing(l)) /\ WF_vars(SenderStops(l))
-----------------------------------------------------------------------------
(* Properties.                                                             *)

\* No applyRuntime is under way and Run has returned.
Quiet == ~panicked /\ main = "serving" /\ \A t \in Thread : task[t] = Nil

Running(l) == loop[l] # Nil /\ loop[l].open

\* DTOs the goroutines of this process send along.
Announced == {loop[l].dto : l \in {k \in LoopId : loop[k] # Nil /\ loop[k].senders > 0}}

Register == INSTANCE ConfigRegister WITH inForce <- cfg, announced <- Announced

\* However many applyRuntime race, the process keeps the promise of ConfigRegister:
\* a strictly newer version replaces the configuration in force, and nothing is
\* announced that was never adopted.
ImplementsRegister == Register!Spec

\* daemon.go:108: Run starts the protocol "according to current config".
StartsCurrentProtocol ==
  [][main # "serving" /\ main' = "serving" => slot'[cfg'.set.mode] # Nil]_vars

\* daemon.go:154: applyRuntime "restarts loops if the mode changed", after which one
\* loop runs, that of the mode in force.
OneLoopRuns ==
  Quiet => \A l \in LoopId : Running(l) => l = slot[cfg.set.mode]

=============================================================================
