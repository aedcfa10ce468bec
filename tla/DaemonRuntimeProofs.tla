-------------------------- MODULE DaemonRuntimeProofs --------------------------
(***************************************************************************)
(* DaemonRuntime implements ConfigRegister, for any number of goroutines   *)
(* in applyRuntime, loops and versions: a race may leave the wrong loop    *)
(* running and an old configuration announced, but never one that was not  *)
(* in force, and the version in force only grows.                          *)
(***************************************************************************)
EXTENDS DaemonRuntime, ClusterConfigProofs, TLAPS

\* Where configurations come from: what a goroutine carries through applyRuntime was
\* committed, or is the argument of Run, and loops are given what goroutines carry.
\* The slots point to loops.
Sources ==
  /\ cfg \in adopted
  /\ given \in adopted
  /\ \A t \in Thread : task[t] # Nil => task[t].next \in adopted
  /\ \A l \in LoopId : loop[l] # Nil => loop[l].dto \in adopted \cup {EmptyDTO}
  /\ \A m \in Modes : slot[m] # Nil => loop[slot[m]] # Nil

RInv == TypeOK /\ Sources

-----------------------------------------------------------------------------
(* Writes to the goroutines' tasks and to the loops.                       *)

Accesses == {"decide", "tune", "stop", "forget", "create", "equip", "run",
             "manager", "store", "refresh"}

\* task with the task of t replaced by w keeps its type and sources.
TaskKept ==
  /\ task' \in [Thread -> Work \cup {Nil}]
  /\ \A t \in Thread : task'[t] # Nil => task'[t].next \in adopted'

LoopKept ==
  /\ loop' \in [LoopId -> Loop \cup {Nil}]
  /\ \A l \in LoopId : loop'[l] # Nil => loop'[l].dto \in adopted' \cup {EmptyDTO}
  /\ \A l \in LoopId : loop[l] # Nil => loop'[l] # Nil

LEMMA TaskUntouched ==
  ASSUME RInv, UNCHANGED task, adopted \subseteq adopted'
  PROVE  TaskKept
BY DEF RInv, TypeOK, Sources, TaskKept

LEMMA LoopUntouched ==
  ASSUME RInv, UNCHANGED loop, adopted \subseteq adopted'
  PROVE  LoopKept
BY DEF RInv, TypeOK, Sources, LoopKept

LEMMA TaskWritten ==
  ASSUME RInv, adopted \subseteq adopted', NEW t \in Thread, NEW w \in Work \cup {Nil},
         w # Nil => w.next \in adopted', task' = [task EXCEPT ![t] = w]
  PROVE  TaskKept
BY DEF RInv, TypeOK, Sources, TaskKept

LEMMA LoopWritten ==
  ASSUME RInv, adopted \subseteq adopted', NEW l \in LoopId, NEW r \in Loop,
         r.dto \in adopted' \cup {EmptyDTO}, loop' = [loop EXCEPT ![l] = r]
  PROVE  LoopKept
BY NilAssumption DEF RInv, TypeOK, Sources, LoopKept

LEMMA ProceedKept ==
  ASSUME RInv, adopted \subseteq adopted', NEW t \in Thread, task[t] # Nil,
         NEW p \in Accesses, Proceed(t, p)
  PROVE  TaskKept
<1> DEFINE w == [task[t] EXCEPT !.at = p]
<1>1. task[t] \in Work /\ task[t].next \in adopted
  BY DEF RInv, TypeOK, Sources
<1>2. w \in Work /\ w.next = task[t].next
  BY <1>1 DEF Work, Accesses
<1>3. task' = [task EXCEPT ![t] = w]
  BY DEF Proceed
<1> HIDE DEF w
<1> QED BY <1>1, <1>2, <1>3, TaskWritten

\* The invariant of a step from its parts.
LEMMA Assembled ==
  ASSUME RInv, TaskKept, LoopKept, adopted \subseteq adopted',
         UNCHANGED given, cfg' \in Config, cfg' \in adopted', adopted' \subseteq Config,
         main' \in {"joining", "applying", "starting", "serving"},
         slot' \in [Modes -> LoopId \cup {Nil}],
         \A m \in Modes : slot'[m] \in {slot[m], Nil} \/ loop'[slot'[m]] # Nil,
         manager' \in Config, store' \in Config, panicked' \in BOOLEAN
  PROVE  RInv'
BY DEF RInv, TypeOK, Sources, TaskKept, LoopKept

-----------------------------------------------------------------------------
(* One lemma per action: the invariant is kept.                            *)

LEMMA InitInvariant == Init => RInv
<1> SUFFICES ASSUME Init PROVE RInv
  OBVIOUS
<1>1. PICK s \in Settings : given = LoadFromFlags(s)
  BY DEF Init
<1>2. given \in Config
  BY <1>1 DEF LoadFromFlags, Config
<1> QED BY <1>2 DEF Init, RInv, TypeOK, Sources

\* A goroutine that has work has a configuration of some mode, and finds loops in the slots.
LEMMA WorkAtHand ==
  ASSUME RInv, NEW t \in Thread, task[t] # Nil
  PROVE  /\ task[t] \in Work
         /\ task[t].next \in Config \cap adopted
         /\ task[t].next.set.mode \in Modes /\ Other(task[t].next.set.mode) \in Modes
         /\ Mine(t) # Nil => Mine(t) \in LoopId /\ loop[Mine(t)] \in Loop
         /\ Theirs(t) # Nil => Theirs(t) \in LoopId /\ loop[Theirs(t)] \in Loop
<1>1. task[t] \in Work /\ task[t].next \in Config \cap adopted
  BY DEF RInv, TypeOK, Sources, Work
<1>2. task[t].next.set.mode \in Modes
  BY <1>1 DEF Config, Settings
<1>3. Other(task[t].next.set.mode) \in Modes
  BY <1>2 DEF Other, Modes
<1> QED BY <1>1, <1>2, <1>3 DEF Mine, Theirs, RInv, TypeOK, Sources

LEMMA CommitKept ==
  ASSUME RInv, NEW c \in Config, Commit(c)
  PROVE  /\ adopted \subseteq adopted' /\ adopted' \subseteq Config
         /\ cfg' \in Config /\ cfg' \in adopted' /\ cfg' = c
BY DEF Commit, RInv, TypeOK

LEMMA ApplyRuntimeIsWork ==
  ASSUME NEW prev \in Config, NEW next \in Config, NEW from \in LoopId \cup {Nil}
  PROVE  ApplyRuntime(prev, next, from) \in Work /\ ApplyRuntime(prev, next, from).next = next
BY DEF ApplyRuntime, Work

\* A commit that goes on to applyRuntime.
LEMMA CommitTask ==
  ASSUME RInv, NEW c \in Config, Commit(c), NEW t \in Thread, NEW from \in LoopId \cup {Nil},
         task' = [task EXCEPT ![t] = ApplyRuntime(cfg, c, from)]
  PROVE  TaskKept
<1> DEFINE w == ApplyRuntime(cfg, c, from)
<1>1. w \in Work /\ w.next = c
  BY ApplyRuntimeIsWork DEF RInv, TypeOK
<1>2. adopted \subseteq adopted' /\ c \in adopted'
  BY CommitKept
<1> HIDE DEF w
<1>3. task' = [task EXCEPT ![t] = w]
  BY DEF w
<1> QED BY <1>1, <1>2, <1>3, TaskWritten

LEMMA JoinApplyInvariant ==
  ASSUME RInv, NEW dto \in ConfigDTO, JoinApply(dto)
  PROVE  RInv'
<1> DEFINE new == ApplyRemote(cfg, dto)
<1>1. cfg \in Config
  BY DEF RInv, TypeOK
<1>2. CASE new = cfg
  BY <1>2 DEF JoinApply, RInv, TypeOK, Sources
<1>3. CASE new # cfg
  <2>1. new \in Config
    BY <1>1, <1>3, RemoteNewer
  <2>2. /\ Commit(new)
        /\ task' = [task EXCEPT !["main"] = ApplyRuntime(cfg, new, Nil)]
        /\ main' = "applying"
        /\ UNCHANGED <<given, slot, loop, manager, store, panicked>>
    BY <1>3 DEF JoinApply
  <2> HIDE DEF new
  <2>3. TaskKept
    BY <2>1, <2>2, CommitTask DEF Thread
  <2>4. LoopKept
    BY <2>1, <2>2, CommitKept, LoopUntouched
  <2> QED BY <2>1, <2>2, <2>3, <2>4, CommitKept, Assembled DEF RInv, TypeOK
<1> QED BY <1>2, <1>3

LEMMA RunStartsInvariant ==
  ASSUME RInv, RunStarts
  PROVE  RInv'
<1>1. StartProtocol(given) \in Work /\ StartProtocol(given).next \in adopted
  BY DEF StartProtocol, Work, RInv, TypeOK, Sources
<1>2. TaskKept /\ LoopKept
  BY <1>1, TaskWritten, LoopUntouched DEF RunStarts, Thread
<1> QED BY <1>2, Assembled DEF RunStarts, RInv, TypeOK, Sources

LEMMA AdminCommitInvariant ==
  ASSUME RInv, NEW t \in Applier, NEW dto \in ConfigDTO, AdminCommit(t, dto)
  PROVE  RInv'
<1> DEFINE new == BumpAndApplyLocal(cfg, dto)
<1>1. cfg \in Config
  BY DEF RInv, TypeOK
<1>2. /\ new # cfg
      /\ Commit(new)
      /\ task' = [task EXCEPT ![t] = ApplyRuntime(cfg, new, Nil)]
      /\ UNCHANGED <<given, main, slot, loop, manager, store, panicked>>
  BY DEF AdminCommit
<1>3. new \in Config
  BY <1>1, <1>2, LocalNewer
<1> HIDE DEF new
<1>4. TaskKept
  BY <1>2, <1>3, CommitTask DEF Thread
<1>5. LoopKept
  BY <1>2, <1>3, CommitKept, LoopUntouched
<1> QED BY <1>2, <1>3, <1>4, <1>5, CommitKept, Assembled DEF RInv, TypeOK

\* A loop whose receivers are counted anew keeps the rest.
LEMMA ReceiversCounted ==
  ASSUME NEW r \in Loop, NEW a \in Nat, NEW b \in Nat
  PROVE  LET q == [[r EXCEPT !.receivers = a] EXCEPT !.late = b]
         IN  q \in Loop /\ q.dto = r.dto /\ q.senders = r.senders
BY DEF Loop

LEMMA LateIsNat ==
  ASSUME RInv, NEW l \in LoopId, Reads(l)
  PROVE  /\ loop[l] \in Loop /\ Late(l) \in Nat /\ loop[l].receivers - 1 \in Nat
         /\ loop[l].dto \in adopted \cup {EmptyDTO}
<1>1. loop[l] \in Loop /\ loop[l].dto \in adopted \cup {EmptyDTO}
  BY DEF RInv, TypeOK, Sources, Reads
<1>2. loop[l].late \in Nat /\ loop[l].receivers \in Nat /\ loop[l].receivers > 0
  BY <1>1 DEF Loop, Reads
<1> QED BY <1>1, <1>2 DEF Late

\* What a receiver that has read a datagram leaves of its loop.
LEMMA ReadingKept ==
  ASSUME RInv, NEW l \in LoopId, Reads(l), adopted \subseteq adopted',
         loop' = [loop EXCEPT ![l].receivers = @ - 1, ![l].late = Late(l)]
  PROVE  /\ LoopKept
         /\ loop'[l] # Nil /\ loop'[l].dto = loop[l].dto /\ loop'[l].senders = loop[l].senders
         /\ \A k \in LoopId \ {l} : loop'[k] = loop[k]
<1> DEFINE q == [[loop[l] EXCEPT !.receivers = loop[l].receivers - 1] EXCEPT !.late = Late(l)]
<1>1. /\ loop[l] \in Loop /\ Late(l) \in Nat /\ loop[l].receivers - 1 \in Nat
      /\ loop[l].dto \in adopted \cup {EmptyDTO}
  BY LateIsNat
<1>2. q \in Loop /\ q.dto = loop[l].dto /\ q.senders = loop[l].senders
  BY <1>1, ReceiversCounted
<1>3. loop \in [LoopId -> Loop \cup {Nil}]
  BY DEF RInv, TypeOK
<1>4. loop' = [loop EXCEPT ![l] = q]
  BY <1>3
<1> HIDE DEF q
<1>5. loop'[l] = q /\ \A k \in LoopId \ {l} : loop'[k] = loop[k]
  BY <1>3, <1>4
<1>6. LoopKept
  BY <1>1, <1>2, <1>4, LoopWritten
<1> QED BY <1>2, <1>5, <1>6, NilAssumption

LEMMA HearNewsInvariant ==
  ASSUME RInv, NEW t \in Applier, NEW l \in LoopId, NEW dto \in ConfigDTO, HearNews(t, l, dto)
  PROVE  RInv'
<1> DEFINE new == ApplyRemote(cfg, dto)
<1>1. cfg \in Config
  BY DEF RInv, TypeOK
<1>2. /\ new # cfg
      /\ Commit(new)
      /\ task' = [task EXCEPT ![t] = ApplyRuntime(cfg, new, l)]
      /\ Reads(l)
      /\ loop' = [loop EXCEPT ![l].receivers = @ - 1, ![l].late = Late(l)]
      /\ UNCHANGED <<given, main, slot, manager, store, panicked>>
  BY DEF HearNews
<1>3. new \in Config
  BY <1>1, <1>2, RemoteNewer
<1> HIDE DEF new
<1>4. TaskKept
  BY <1>2, <1>3, CommitTask DEF Thread
<1>5. LoopKept
  BY <1>2, <1>3, CommitKept, ReadingKept
<1> QED BY <1>2, <1>3, <1>4, <1>5, CommitKept, Assembled DEF RInv, TypeOK

LEMMA HearNothingInvariant ==
  ASSUME RInv, NEW l \in LoopId, HearNothing(l)
  PROVE  RInv'
<1>1. LoopKept /\ TaskKept
  BY ReadingKept, TaskUntouched DEF HearNothing
<1> QED BY <1>1, Assembled DEF HearNothing, RInv, TypeOK, Sources

LEMMA SenderStopsInvariant ==
  ASSUME RInv, NEW l \in LoopId, SenderStops(l)
  PROVE  RInv'
<1> DEFINE q == [loop[l] EXCEPT !.senders = 0]
<1>1. loop[l] \in Loop /\ loop[l].dto \in adopted \cup {EmptyDTO}
  BY DEF RInv, TypeOK, Sources, SenderStops
<1>2. q \in Loop /\ q.dto = loop[l].dto
  BY <1>1 DEF Loop
<1>3. loop' = [loop EXCEPT ![l] = q]
  BY DEF SenderStops
<1> HIDE DEF q
<1>4. LoopKept
  BY <1>1, <1>2, <1>3, LoopWritten DEF SenderStops
<1>5. TaskKept
  BY TaskUntouched DEF SenderStops
<1> QED BY <1>4, <1>5, Assembled DEF SenderStops, RInv, TypeOK, Sources

-----------------------------------------------------------------------------
(* The accesses of applyRuntime.                                           *)

\* A goroutine that panics changes nothing the invariant speaks of.
LEMMA PanicInvariant ==
  ASSUME RInv, Panic, RunUnchanged
  PROVE  RInv'
BY DEF Panic, RunUnchanged, RInv, TypeOK, Sources

\* A loop whose configuration is replaced by c.
LEMMA LoopReconfigured ==
  ASSUME NEW r \in Loop, NEW c \in Config
  PROVE  /\ [r EXCEPT !.tuned = c] \in Loop
         /\ [r EXCEPT !.tuned = c].dto = r.dto
         /\ [r EXCEPT !.open = FALSE] \in Loop
         /\ [r EXCEPT !.open = FALSE].dto = r.dto
         /\ [[r EXCEPT !.dto = ToDTO(c)] EXCEPT !.wired = TRUE] \in Loop
         /\ [[r EXCEPT !.dto = ToDTO(c)] EXCEPT !.wired = TRUE].dto = c
<1>1. ToDTO(c) = c /\ c \in ConfigDTO
  BY ConfigIsDTO
<1>2. [r EXCEPT !.tuned = c] \in Loop /\ [r EXCEPT !.tuned = c].dto = r.dto
  BY DEF Loop
<1>3. [r EXCEPT !.open = FALSE] \in Loop /\ [r EXCEPT !.open = FALSE].dto = r.dto
  BY DEF Loop
<1>4. /\ [[r EXCEPT !.dto = ToDTO(c)] EXCEPT !.wired = TRUE] \in Loop
      /\ [[r EXCEPT !.dto = ToDTO(c)] EXCEPT !.wired = TRUE].dto = c
  BY <1>1 DEF Loop
<1> QED BY <1>2, <1>3, <1>4

\* A loop that has n more receivers and k more senders.
LEMMA LoopStaffed ==
  ASSUME NEW r \in Loop, NEW n \in Nat, NEW k \in Nat
  PROVE  LET q == [[r EXCEPT !.receivers = r.receivers + n] EXCEPT !.senders = r.senders + k]
         IN  q \in Loop /\ q.dto = r.dto
<1>1. r.receivers + n \in Nat /\ r.senders + k \in Nat
  BY DEF Loop
<1> QED BY <1>1 DEF Loop

LEMMA DecideInvariant ==
  ASSUME RInv, NEW t \in Thread, Decide(t)
  PROVE  RInv'
<1> DEFINE p == IF task[t].restart \/ Mine(t) = Nil THEN "stop" ELSE "tune"
<1>1. p \in Accesses
  BY DEF Accesses
<1>2. task[t] # Nil /\ Proceed(t, p) /\ RunUnchanged /\ UNCHANGED <<slot, loop, manager, store, panicked>>
  BY DEF Decide, At
<1> HIDE DEF p
<1>3. TaskKept /\ LoopKept
  BY <1>1, <1>2, ProceedKept, LoopUntouched DEF RunUnchanged
<1> QED BY <1>2, <1>3, Assembled DEF RunUnchanged, RInv, TypeOK, Sources

LEMMA TuneInvariant ==
  ASSUME RInv, NEW t \in Thread, Tune(t)
  PROVE  RInv'
<1>1. CASE Mine(t) = Nil
  BY <1>1, PanicInvariant DEF Tune
<1>2. CASE Mine(t) # Nil
  <2> DEFINE l == Mine(t)
             q == [loop[l] EXCEPT !.tuned = task[t].next]
  <2>1. /\ task[t] # Nil /\ Proceed(t, "manager") /\ RunUnchanged
        /\ loop' = [loop EXCEPT ![l] = q]
        /\ UNCHANGED <<slot, manager, store, panicked>>
    BY <1>2 DEF Tune, At
  <2>2. l \in LoopId /\ loop[l] \in Loop /\ task[t].next \in Config
    BY <1>2, <2>1, WorkAtHand
  <2>3. loop[l].dto \in adopted \cup {EmptyDTO}
    BY <2>2, NilAssumption DEF RInv, Sources
  <2>4. q \in Loop /\ q.dto = loop[l].dto
    BY <2>2, LoopReconfigured
  <2> HIDE DEF q, l
  <2>5. LoopKept
    BY <2>1, <2>2, <2>3, <2>4, LoopWritten DEF RunUnchanged
  <2>6. TaskKept
    BY <2>1, ProceedKept DEF RunUnchanged, Accesses
  <2> QED BY <2>1, <2>5, <2>6, Assembled DEF RunUnchanged, RInv, TypeOK, Sources
<1> QED BY <1>1, <1>2

LEMMA StopInvariant ==
  ASSUME RInv, NEW t \in Thread, Stop(t)
  PROVE  RInv'
<1>1. CASE Theirs(t) = Nil
  <2>1. /\ task[t] # Nil /\ Proceed(t, "create") /\ RunUnchanged
        /\ UNCHANGED <<slot, loop, manager, store, panicked>>
    BY <1>1 DEF Stop, At
  <2>2. TaskKept /\ LoopKept
    BY <2>1, ProceedKept, LoopUntouched DEF RunUnchanged, Accesses
  <2> QED BY <2>1, <2>2, Assembled DEF RunUnchanged, RInv, TypeOK, Sources
<1>2. CASE Theirs(t) # Nil /\ ~loop[Theirs(t)].open
  BY <1>2, PanicInvariant DEF Stop
<1>3. CASE Theirs(t) # Nil /\ loop[Theirs(t)].open
  <2> DEFINE l == Theirs(t)
             q == [loop[l] EXCEPT !.open = FALSE]
  <2>1. /\ task[t] # Nil /\ Proceed(t, "forget") /\ RunUnchanged
        /\ loop' = [loop EXCEPT ![l] = q]
        /\ UNCHANGED <<slot, manager, store, panicked>>
    BY <1>3 DEF Stop, At
  <2>2. l \in LoopId /\ loop[l] \in Loop /\ task[t].next \in Config
    BY <1>3, <2>1, WorkAtHand
  <2>3. loop[l].dto \in adopted \cup {EmptyDTO}
    BY <2>2, NilAssumption DEF RInv, Sources
  <2>4. q \in Loop /\ q.dto = loop[l].dto
    BY <2>2, LoopReconfigured
  <2> HIDE DEF q, l
  <2>5. LoopKept
    BY <2>1, <2>2, <2>3, <2>4, LoopWritten DEF RunUnchanged
  <2>6. TaskKept
    BY <2>1, ProceedKept DEF RunUnchanged, Accesses
  <2> QED BY <2>1, <2>5, <2>6, Assembled DEF RunUnchanged, RInv, TypeOK, Sources
<1> QED BY <1>1, <1>2, <1>3

LEMMA ForgetInvariant ==
  ASSUME RInv, NEW t \in Thread, Forget(t)
  PROVE  RInv'
<1>1. /\ task[t] # Nil /\ Proceed(t, "create") /\ RunUnchanged
      /\ UNCHANGED <<loop, manager, store, panicked>>
  BY DEF Forget, At
<1>2. TaskKept /\ LoopKept
  BY <1>1, ProceedKept, LoopUntouched DEF RunUnchanged, Accesses
<1>3. /\ slot' \in [Modes -> LoopId \cup {Nil}]
      /\ \A m \in Modes : slot'[m] \in {slot[m], Nil}
  BY DEF Forget, RInv, TypeOK
<1> QED BY <1>1, <1>2, <1>3, Assembled DEF RunUnchanged, RInv, TypeOK, Sources

LEMMA CreateInvariant ==
  ASSUME RInv, NEW t \in Thread, Create(t)
  PROVE  RInv'
<1> DEFINE c == task[t].next
           q == NewLoop(c)
<1>1. PICK l \in Fresh : /\ loop' = [loop EXCEPT ![l] = q]
                        /\ slot' = [slot EXCEPT ![c.set.mode] = l]
  BY DEF Create
<1>2. /\ task[t] # Nil /\ Proceed(t, "equip") /\ RunUnchanged
      /\ UNCHANGED <<manager, store, panicked>>
  BY DEF Create, At
<1>3. c \in Config /\ c.set.mode \in Modes /\ l \in LoopId
  BY <1>2, WorkAtHand DEF Fresh
<1>4. q \in Loop /\ q.dto = EmptyDTO
  BY <1>3, EmptyType DEF NewLoop, Loop
<1> HIDE DEF q, c
<1>5. LoopKept
  BY <1>1, <1>2, <1>3, <1>4, LoopWritten DEF RunUnchanged
<1>6. TaskKept
  BY <1>2, ProceedKept DEF RunUnchanged, Accesses
<1>7. /\ slot' \in [Modes -> LoopId \cup {Nil}]
      /\ \A m \in Modes : slot'[m] = slot[m] \/ slot'[m] = l
      /\ loop'[l] # Nil
  BY <1>1, <1>3, <1>4, NilAssumption DEF RInv, TypeOK
<1> QED BY <1>2, <1>5, <1>6, <1>7, Assembled DEF RunUnchanged, RInv, TypeOK, Sources

LEMMA EquipInvariant ==
  ASSUME RInv, NEW t \in Thread, Equip(t)
  PROVE  RInv'
<1>1. CASE Mine(t) = Nil
  BY <1>1, PanicInvariant DEF Equip
<1>2. CASE Mine(t) # Nil
  <2> DEFINE l == Mine(t)
             c == task[t].next
             q == [[loop[l] EXCEPT !.dto = ToDTO(c)] EXCEPT !.wired = TRUE]
  <2>1. /\ task[t] # Nil /\ Proceed(t, "run") /\ RunUnchanged
        /\ loop' = [loop EXCEPT ![l].dto = ToDTO(c), ![l].wired = TRUE]
        /\ UNCHANGED <<slot, manager, store, panicked>>
    BY <1>2 DEF Equip, At
  <2>2. l \in LoopId /\ loop[l] \in Loop /\ c \in Config /\ c \in adopted
    BY <1>2, <2>1, WorkAtHand
  <2>3. loop \in [LoopId -> Loop \cup {Nil}]
    BY DEF RInv, TypeOK
  <2>4. q \in Loop /\ q.dto = c
    BY <2>2, LoopReconfigured
  <2>5. loop' = [loop EXCEPT ![l] = q]
    BY <2>1, <2>2, <2>3
  <2> HIDE DEF q, l, c
  <2>6. LoopKept
    BY <2>1, <2>2, <2>4, <2>5, LoopWritten DEF RunUnchanged
  <2>7. TaskKept
    BY <2>1, ProceedKept DEF RunUnchanged, Accesses
  <2> QED BY <2>1, <2>6, <2>7, Assembled DEF RunUnchanged, RInv, TypeOK, Sources
<1> QED BY <1>1, <1>2

LEMMA RunLoopInvariant ==
  ASSUME RInv, NEW t \in Thread, RunLoop(t)
  PROVE  RInv'
<1>1. CASE Mine(t) = Nil
  BY <1>1, PanicInvariant DEF RunLoop, RunUnchanged
<1>2. CASE Mine(t) # Nil
  <2> DEFINE l == Mine(t)
             q == [[loop[l] EXCEPT !.receivers = loop[l].receivers + 1]
                              EXCEPT !.senders = loop[l].senders + 1]
  <2>1. /\ task[t] # Nil
        /\ loop' = [loop EXCEPT ![l].receivers = @ + 1, ![l].senders = @ + 1]
        /\ \/ Proceed(t, "manager") /\ UNCHANGED main
           \/ task' = [task EXCEPT ![t] = Nil] /\ main' = "serving"
        /\ UNCHANGED <<cfg, given, adopted, slot, manager, store, panicked>>
    BY <1>2 DEF RunLoop, At
  <2>2. l \in LoopId /\ loop[l] \in Loop
    BY <1>2, <2>1, WorkAtHand
  <2>3. loop[l].dto \in adopted \cup {EmptyDTO}
    BY <2>2, NilAssumption DEF RInv, Sources
  <2>4. loop \in [LoopId -> Loop \cup {Nil}]
    BY DEF RInv, TypeOK
  <2>5. q \in Loop /\ q.dto = loop[l].dto
    BY <2>2, LoopStaffed
  <2>6. loop' = [loop EXCEPT ![l] = q]
    BY <2>1, <2>2, <2>4
  <2> HIDE DEF q, l
  <2>7. LoopKept
    BY <2>1, <2>2, <2>3, <2>5, <2>6, LoopWritten
  <2>8. TaskKept
    BY <2>1, ProceedKept, TaskWritten DEF Accesses
  <2>9. main' \in {"joining", "applying", "starting", "serving"}
    BY <2>1 DEF RInv, TypeOK
  <2> QED BY <2>1, <2>7, <2>8, <2>9, Assembled DEF RInv, TypeOK, Sources
<1> QED BY <1>1, <1>2

LEMMA ReconfigureManagerInvariant ==
  ASSUME RInv, NEW t \in Thread, ReconfigureManager(t)
  PROVE  RInv'
<1>1. /\ task[t] # Nil /\ Proceed(t, "store") /\ RunUnchanged /\ manager' = task[t].next
      /\ UNCHANGED <<slot, loop, store, panicked>>
  BY DEF ReconfigureManager, At
<1>2. TaskKept /\ LoopKept
  BY <1>1, ProceedKept, LoopUntouched DEF RunUnchanged, Accesses
<1> QED BY <1>1, <1>2, WorkAtHand, Assembled DEF RunUnchanged, RInv, TypeOK, Sources

LEMMA ReconfigureStoreInvariant ==
  ASSUME RInv, NEW t \in Thread, ReconfigureStore(t)
  PROVE  RInv'
<1>1. /\ task[t] # Nil /\ Proceed(t, "refresh") /\ RunUnchanged /\ store' = task[t].next
      /\ UNCHANGED <<slot, loop, manager, panicked>>
  BY DEF ReconfigureStore, At
<1>2. TaskKept /\ LoopKept
  BY <1>1, ProceedKept, LoopUntouched DEF RunUnchanged, Accesses
<1> QED BY <1>1, <1>2, WorkAtHand, Assembled DEF RunUnchanged, RInv, TypeOK, Sources

LEMMA RefreshInvariant ==
  ASSUME RInv, NEW t \in Thread, Refresh(t)
  PROVE  RInv'
<1> DEFINE dto == ToDTO(task[t].next)
           back(l) == IF task[t].from = l /\ loop[l].open THEN 1 ELSE 0
           held(l) == \E m \in Modes : slot[m] = l
           q(l) == [[loop[l] EXCEPT !.dto = IF held(l) THEN dto ELSE loop[l].dto]
                              EXCEPT !.receivers = loop[l].receivers + back(l)]
<1>1. /\ task[t] # Nil
      /\ loop' = [l \in LoopId |->
                    IF loop[l] = Nil THEN Nil
                    ELSE [loop[l] EXCEPT !.dto = IF held(l) THEN dto ELSE @,
                                         !.receivers = @ + back(l)]]
      /\ task' = [task EXCEPT ![t] = Nil]
      /\ main' = IF t = "main" THEN "starting" ELSE main
      /\ UNCHANGED <<cfg, given, slot, manager, store, panicked, adopted>>
  BY DEF Refresh, At
<1>2. dto \in ConfigDTO /\ dto \in adopted
  BY <1>1, WorkAtHand, ConfigIsDTO
<1>3. ASSUME NEW l \in LoopId, loop[l] # Nil
      PROVE  /\ loop'[l] = q(l)
             /\ q(l) \in Loop
             /\ q(l).dto \in adopted \cup {EmptyDTO}
  <2>1. loop[l] \in Loop /\ loop[l].dto \in adopted \cup {EmptyDTO}
    BY <1>3 DEF RInv, TypeOK, Sources
  <2>2. loop[l].dto \in ConfigDTO /\ loop[l].receivers \in Nat
    BY <2>1 DEF Loop
  <2>3. loop'[l] = q(l)
    BY <1>1, <1>3
  <2> DEFINE d == IF held(l) THEN dto ELSE loop[l].dto
             n == loop[l].receivers + back(l)
  <2>4. d \in ConfigDTO /\ d \in adopted \cup {EmptyDTO} /\ n \in Nat
    BY <1>2, <2>1, <2>2
  <2>5. q(l) = [[loop[l] EXCEPT !.dto = d] EXCEPT !.receivers = n]
    OBVIOUS
  <2> HIDE DEF d, n, q
  <2>6. q(l) \in Loop /\ q(l).dto = d
    BY <2>1, <2>4, <2>5 DEF Loop
  <2> QED BY <2>3, <2>4, <2>6
<1>4. /\ \A l \in LoopId : loop[l] = Nil => loop'[l] = Nil
      /\ loop' = [l \in LoopId |-> loop'[l]]
  BY <1>1
<1> HIDE DEF q, dto, back, held
<1>5. LoopKept
  <2>1. \A l \in LoopId : loop'[l] \in Loop \cup {Nil}
    BY <1>3, <1>4
  <2>2. loop' \in [LoopId -> Loop \cup {Nil}]
    BY <1>4, <2>1
  <2>3. \A l \in LoopId : loop'[l] # Nil => loop'[l].dto \in adopted' \cup {EmptyDTO}
    BY <1>1, <1>3, <1>4
  <2>4. \A l \in LoopId : loop[l] # Nil => loop'[l] # Nil
    BY <1>3, NilAssumption
  <2> QED BY <2>2, <2>3, <2>4 DEF LoopKept
<1>6. TaskKept
  BY <1>1, TaskWritten
<1>7. main' \in {"joining", "applying", "starting", "serving"}
  BY <1>1 DEF RInv, TypeOK
<1> QED BY <1>1, <1>5, <1>6, <1>7, Assembled DEF RInv, TypeOK, Sources

-----------------------------------------------------------------------------
(* The step as a whole.                                                    *)

LEMMA HeardIsDTO == HeardDTO \subseteq ConfigDTO
BY DEF HeardDTO, ConfigDTO

LEMMA TaskStepInvariant ==
  ASSUME RInv, NEW t \in Thread, TaskStep(t)
  PROVE  RInv'
BY DecideInvariant, TuneInvariant, StopInvariant, ForgetInvariant, CreateInvariant,
   EquipInvariant, RunLoopInvariant, ReconfigureManagerInvariant,
   ReconfigureStoreInvariant, RefreshInvariant DEF TaskStep

LEMMA StepInvariant == RInv /\ [Next]_vars => RInv'
<1> SUFFICES ASSUME RInv, [Next]_vars PROVE RInv'
  OBVIOUS
<1>1. CASE UNCHANGED vars
  BY <1>1 DEF vars, RInv, TypeOK, Sources
<1>2. ASSUME NEW t \in Thread, TaskStep(t) PROVE RInv'
  BY <1>2, TaskStepInvariant
<1>3. ASSUME NEW dto \in HeardDTO, JoinApply(dto) PROVE RInv'
  BY <1>3, HeardIsDTO, JoinApplyInvariant
<1>4. CASE RunStarts
  BY <1>4, RunStartsInvariant
<1>5. ASSUME NEW t \in Applier, NEW dto \in HeardDTO, AdminCommit(t, dto) PROVE RInv'
  BY <1>5, HeardIsDTO, AdminCommitInvariant
<1>6. ASSUME NEW t \in Applier, NEW l \in LoopId, NEW dto \in HeardDTO, HearNews(t, l, dto)
      PROVE  RInv'
  BY <1>6, HeardIsDTO, HearNewsInvariant
<1>7. ASSUME NEW l \in LoopId, HearNothing(l) \/ SenderStops(l) PROVE RInv'
  BY <1>7, HearNothingInvariant, SenderStopsInvariant
<1> QED BY <1>1, <1>2, <1>3, <1>4, <1>5, <1>6, <1>7 DEF Next

\* Whatever the goroutines do to each other, the daemon's state is well typed: a
\* pointer in a slot is nil or a loop, a receiver that returns was counted.
THEOREM RuntimeTypeCorrect == Spec => []TypeOK
<1>1. RInv => TypeOK
  BY DEF RInv
<1> QED BY <1>1, InitInvariant, StepInvariant, PTL DEF Spec

-----------------------------------------------------------------------------
(* The daemon implements the register of one configuration.                *)

\* What is sent along has been in force.
LEMMA AnnouncedWasAdopted ==
  ASSUME RInv'
  PROVE  Announced' \subseteq adopted' \cup {EmptyDTO}
BY DEF Announced, RInv, Sources

\* A step that commits nothing is one of Announce.
LEMMA QuietIsAnnounce ==
  ASSUME RInv', UNCHANGED <<cfg, adopted>>
  PROVE  Register!Announce
BY AnnouncedWasAdopted DEF Register!Announce, Register!EmptyDTO, EmptyDTO

\* A step that commits a newer configuration and leaves the loops' DTOs is one of Adopt.
LEMMA CommitIsAdopt ==
  ASSUME RInv, NEW c \in Config, Commit(c), c.version > cfg.version, UNCHANGED Announced
  PROVE  Register!Adopt
BY DEF Commit, Register!Adopt, Register!Config, Config, Register!Settings, Settings,
   Register!Modes, Modes, Register!ModePingAck, ModePingAck, Register!ModeGossip, ModeGossip

LEMMA TaskStepIsAnnounce ==
  ASSUME RInv, NEW t \in Thread, TaskStep(t)
  PROVE  Register!Announce
<1>1. RInv'
  BY TaskStepInvariant
<1>2. UNCHANGED <<cfg, adopted>>
  BY DEF TaskStep, Decide, Tune, Stop, Forget, Create, Equip, RunLoop, ReconfigureManager,
         ReconfigureStore, Refresh, RunUnchanged
<1> QED BY <1>1, <1>2, QuietIsAnnounce

LEMMA JoinApplyIsRegister ==
  ASSUME RInv, NEW dto \in ConfigDTO, JoinApply(dto)
  PROVE  Register!Next
<1> DEFINE new == ApplyRemote(cfg, dto)
<1>1. cfg \in Config
  BY DEF RInv, TypeOK
<1>2. CASE new = cfg
  <2>1. UNCHANGED <<cfg, adopted>>
    BY <1>2 DEF JoinApply
  <2> QED BY <2>1, JoinApplyInvariant, QuietIsAnnounce DEF Register!Next
<1>3. CASE new # cfg
  <2>1. new \in Config /\ new.version > cfg.version
    BY <1>1, <1>3, RemoteNewer
  <2>2. Commit(new) /\ UNCHANGED loop
    BY <1>3 DEF JoinApply
  <2> HIDE DEF new
  <2>3. UNCHANGED Announced
    BY <2>2 DEF Announced
  <2> QED BY <2>1, <2>2, <2>3, CommitIsAdopt DEF Register!Next
<1> QED BY <1>2, <1>3

LEMMA AdminCommitIsAdopt ==
  ASSUME RInv, NEW t \in Applier, NEW dto \in ConfigDTO, AdminCommit(t, dto)
  PROVE  Register!Adopt
<1> DEFINE new == BumpAndApplyLocal(cfg, dto)
<1>1. new # cfg /\ Commit(new) /\ UNCHANGED loop
  BY DEF AdminCommit
<1>2. new \in Config /\ new.version > cfg.version
  BY <1>1, LocalNewer DEF RInv, TypeOK
<1> HIDE DEF new
<1>3. UNCHANGED Announced
  BY <1>1 DEF Announced
<1> QED BY <1>1, <1>2, <1>3, CommitIsAdopt

\* The receiver that hears of the change leaves what its loop announces as it is.
LEMMA HearNewsIsAdopt ==
  ASSUME RInv, NEW t \in Applier, NEW l \in LoopId, NEW dto \in ConfigDTO, HearNews(t, l, dto)
  PROVE  Register!Adopt
<1> DEFINE new == ApplyRemote(cfg, dto)
<1>1. /\ new # cfg /\ Commit(new) /\ Reads(l)
      /\ loop' = [loop EXCEPT ![l].receivers = @ - 1, ![l].late = Late(l)]
  BY DEF HearNews
<1>2. new \in Config /\ new.version > cfg.version
  BY <1>1, RemoteNewer DEF RInv, TypeOK
<1> HIDE DEF new
<1>3. /\ loop[l] # Nil /\ loop'[l] # Nil
      /\ loop'[l].dto = loop[l].dto /\ loop'[l].senders = loop[l].senders
      /\ \A k \in LoopId \ {l} : loop'[k] = loop[k]
  BY <1>1, <1>2, CommitKept, ReadingKept DEF Reads
<1>4. UNCHANGED Announced
  BY <1>3 DEF Announced
<1> QED BY <1>1, <1>2, <1>4, CommitIsAdopt

LEMMA StepIsRegister == RInv /\ [Next]_vars => [Register!Next]_(Register!register)
<1> SUFFICES ASSUME RInv, [Next]_vars PROVE [Register!Next]_(Register!register)
  OBVIOUS
<1>1. CASE UNCHANGED vars
  BY <1>1 DEF vars, Register!register, Announced
<1>2. ASSUME NEW t \in Thread, TaskStep(t) PROVE Register!Next
  BY <1>2, TaskStepIsAnnounce DEF Register!Next
<1>3. ASSUME NEW dto \in HeardDTO, JoinApply(dto) PROVE Register!Next
  BY <1>3, HeardIsDTO, JoinApplyIsRegister
<1>4. CASE RunStarts
  BY <1>4, RunStartsInvariant, QuietIsAnnounce DEF RunStarts, Register!Next
<1>5. ASSUME NEW t \in Applier, NEW dto \in HeardDTO, AdminCommit(t, dto) PROVE Register!Next
  BY <1>5, HeardIsDTO, AdminCommitIsAdopt DEF Register!Next
<1>6. ASSUME NEW t \in Applier, NEW l \in LoopId, NEW dto \in HeardDTO, HearNews(t, l, dto)
      PROVE  Register!Next
  BY <1>6, HeardIsDTO, HearNewsIsAdopt DEF Register!Next
<1>7. ASSUME NEW l \in LoopId, HearNothing(l) PROVE Register!Next
  BY <1>7, HearNothingInvariant, QuietIsAnnounce DEF HearNothing, Register!Next
<1>8. ASSUME NEW l \in LoopId, SenderStops(l) PROVE Register!Next
  BY <1>8, SenderStopsInvariant, QuietIsAnnounce DEF SenderStops, Register!Next
<1> QED BY <1>1, <1>2, <1>3, <1>4, <1>5, <1>6, <1>7, <1>8 DEF Next

LEMMA InitIsRegister == Init => Register!Init
<1> SUFFICES ASSUME Init PROVE Register!Init
  OBVIOUS
<1>1. cfg \in Config
  BY InitInvariant DEF RInv, TypeOK
<1>2. Announced = {}
  BY DEF Init, Announced
<1> QED BY <1>1, <1>2 DEF Init, Register!Init, Register!Config, Config, Register!Settings,
     Settings, Register!Modes, Modes, Register!ModePingAck, ModePingAck,
     Register!ModeGossip, ModeGossip

\* However many applyRuntime race on however many loops, the daemon implements
\* ConfigRegister: the configuration in force is only replaced by a newer one, and its
\* loops never send along one that was not in force in this process.
THEOREM RuntimeImplementsRegister == Spec => ImplementsRegister
<1>1. Init => Register!Init
  BY InitIsRegister
<1>2. RInv /\ [Next]_vars => [Register!Next]_(Register!register)
  BY StepIsRegister
<1> QED BY <1>1, <1>2, InitInvariant, StepInvariant, PTL
        DEF Spec, ImplementsRegister, Register!Spec

=============================================================================
