---------------------------- MODULE ConfigExchange ----------------------------
(***************************************************************************)
(* How a configuration spreads through a cluster: every ping, ack and      *)
(* gossip carries the DTO its sender has cached, the join response carries *)
(* the introducer's, and the admin handlers /set and /switch make new      *)
(* versions.                                                               *)
(*                                                                         *)
(* Of a process there is what DaemonRuntime shows from outside: a          *)
(* configuration that only gives way to newer ones, and what its loops     *)
(* announce, which follows at the end of applyRuntime.  Receive loops and  *)
(* handlers enter applyRuntime at any time, and the last to leave it is    *)
(* not always the one with the newest configuration.                       *)
(*                                                                         *)
(* handleJoin copies d.cfg without cfgMu.  A configuration is many words,  *)
(* so a commit during the copy leaves it with fields of both.              *)
(***************************************************************************)
EXTENDS ClusterConfig

CONSTANTS
  Node, Introducer,
  Flags,       \* Flags[n]: settings the process of n may be started with
  Admins,      \* nodes whose admin handlers are used
  File,        \* DTOs config.json may hold
  Crashers,    \* nodes whose process may die
  Absent,
  \* bounds of the model
  MaxVersion,  \* no change beyond this version
  CalmJoins    \* the introducer commits nothing while a join copies its configuration

ASSUME ExchangeAssumption ==
  /\ Introducer \in Node
  /\ Flags \in [Node -> SUBSET Settings]
  /\ Admins \subseteq Node /\ Crashers \subseteq Node
  /\ File \subseteq ConfigDTO
  /\ MaxVersion \in Nat /\ CalmJoins \in BOOLEAN
  /\ Absent \notin Config \cup ConfigDTO

VARIABLES
  phase,      \* phase[n]: no process, blocked in joinCluster, loops started
  given,      \* given[n]: the configuration of its flags, the argument of Run
  cfg,        \* cfg[n]: d.cfg
  pending,    \* pending[n]: committed configurations, applyRuntime not finished
  announced,  \* announced[n]: the DTOs the running loops of n send along
  switching,  \* switching[n]: what a running /switch has read
  conn,       \* conn[n]: the join of n at the introducer
  net         \* datagrams sent, as <<destination, DTO>>; they may arrive late and twice

vars == <<phase, given, cfg, pending, announced, switching, conn, net>>

Join == [stage : {"copying", "response"}, dto : Config]

TypeOK ==
  /\ phase \in [Node -> {"down", "joining", "running"}]
  /\ given \in [Node -> Config] /\ cfg \in [Node -> Config]
  /\ pending \in [Node -> SUBSET Config]
  /\ announced \in [Node -> SUBSET ConfigDTO]
  /\ switching \in [Node -> Config \cup {Absent}]
  /\ conn \in [Node -> Join \cup {Absent}]
  /\ net \subseteq Node \X ConfigDTO

-----------------------------------------------------------------------------
Up(n) == phase[n] # "down"

Copied(n) == \E p \in Node : n = Introducer /\ conn[p] # Absent /\ conn[p].stage = "copying"

\* n commits c and enters applyRuntime.
Commit(n, c) ==
  /\ c # cfg[n]
  /\ c.version <= MaxVersion
  /\ ~(CalmJoins /\ Copied(n))
  /\ cfg' = [cfg EXCEPT ![n] = c]
  /\ pending' = [pending EXCEPT ![n] = @ \cup {c}]

\* The loop in the slot gets c.  One that lost its slot without being stopped goes on
\* with the DTO it had: to its peers these are datagrams that arrive late and twice.
Refresh(n, c) == announced' = [announced EXCEPT ![n] = {ToDTO(c)}]

\* Copies of a configuration that was a when the copying began and is b at its end.
Torn(a, b) ==
  [version : {a.version, b.version},
   set : [mode : {a.set.mode, b.set.mode},
          tSuspect : {a.set.tSuspect, b.set.tSuspect},
          knobs : {a.set.knobs, b.set.knobs}]]

Init ==
  /\ phase = [n \in Node |-> "down"]
  /\ given \in {g \in [Node -> {LoadFromFlags(s) : s \in UNION {Flags[n] : n \in Node}}] :
                  \A n \in Node : g[n].set \in Flags[n]}
  /\ cfg = given
  /\ pending = [n \in Node |-> {}]
  /\ announced = [n \in Node |-> {}]
  /\ switching = [n \in Node |-> Absent]
  /\ conn = [n \in Node |-> Absent]
  /\ net = {}

-----------------------------------------------------------------------------
(* Start, join, crash.                                                     *)

\* Run up to the join; the introducer starts its loop at once.
Start(n) ==
  /\ phase[n] = "down"
  /\ \E s \in Flags[n] :
       /\ given' = [given EXCEPT ![n] = LoadFromFlags(s)]
       /\ cfg' = [cfg EXCEPT ![n] = LoadFromFlags(s)]
       /\ announced' = [announced EXCEPT ![n] =
                          IF n = Introducer THEN {ToDTO(LoadFromFlags(s))} ELSE {}]
  /\ phase' = [phase EXCEPT ![n] = IF n = Introducer THEN "running" ELSE "joining"]
  /\ UNCHANGED <<pending, switching, conn, net>>

\* The process ends, and the joins it took part in.
Crash(n) ==
  /\ n \in Crashers
  /\ Up(n)
  /\ phase' = [phase EXCEPT ![n] = "down"]
  /\ pending' = [pending EXCEPT ![n] = {}]
  /\ announced' = [announced EXCEPT ![n] = {}]
  /\ switching' = [switching EXCEPT ![n] = Absent]
  /\ conn' = IF n = Introducer THEN [p \in Node |-> Absent] ELSE [conn EXCEPT ![n] = Absent]
  /\ UNCHANGED <<given, cfg, net>>

\* handleJoin starts copying d.cfg ...
JoinCopy(n) ==
  /\ phase[n] = "joining"
  /\ phase[Introducer] = "running"
  /\ conn[n] = Absent
  /\ conn' = [conn EXCEPT ![n] = [stage |-> "copying", dto |-> cfg[Introducer]]]
  /\ UNCHANGED <<phase, given, cfg, pending, announced, switching, net>>

\* ... and sends what it got.
JoinRespond(n) ==
  /\ conn[n] # Absent
  /\ conn[n].stage = "copying"
  /\ \E c \in Torn(conn[n].dto, cfg[Introducer]) :
       conn' = [conn EXCEPT ![n] = [stage |-> "response", dto |-> ToDTO(c)]]
  /\ UNCHANGED <<phase, given, cfg, pending, announced, switching, net>>

\* joinCluster applies the answer, and its applyRuntime starts a loop; Run then starts the
\* loop of the configuration it was given, which stops the first only if the mode differs.
JoinApply(n) ==
  /\ conn[n] # Absent
  /\ conn[n].stage = "response"
  /\ cfg' = [cfg EXCEPT ![n] = ApplyRemote(@, conn[n].dto)]
  /\ phase' = [phase EXCEPT ![n] = "running"]
  /\ announced' = [announced EXCEPT ![n] =
                      {ToDTO(c) : c \in {d \in {given[n], cfg'[n]} :
                                            d.set.mode = given[n].set.mode}}]
  /\ conn' = [conn EXCEPT ![n] = Absent]
  /\ UNCHANGED <<given, pending, switching, net>>

\* The connection breaks; joinCluster dials again.
JoinBreak(n) ==
  /\ conn[n] # Absent
  /\ conn' = [conn EXCEPT ![n] = Absent]
  /\ UNCHANGED <<phase, given, cfg, pending, announced, switching, net>>

-----------------------------------------------------------------------------
(* The loops.                                                              *)

\* A loop of n sends what it announces to p.
Send(n, p, dto) ==
  /\ phase[n] = "running" /\ p # n
  /\ dto \in announced[n]
  /\ net' = net \cup {<<p, dto>>}
  /\ UNCHANGED <<phase, given, cfg, pending, announced, switching, conn>>

\* onConfigFromWire, in the receive loop.
Receive(n, dto) ==
  /\ phase[n] = "running"
  /\ <<n, dto>> \in net
  /\ Commit(n, ApplyRemote(cfg[n], dto))
  /\ UNCHANGED <<phase, given, announced, switching, conn, net>>

\* A datagram is lost.
Lose(n, dto) ==
  /\ <<n, dto>> \in net
  /\ net' = net \ {<<n, dto>>}
  /\ UNCHANGED <<phase, given, cfg, pending, announced, switching, conn>>

\* applyRuntime starts the loop of another mode, or one that somebody else has stopped.
StartLoop(n) ==
  /\ \E c \in pending[n] : Refresh(n, c)
  /\ UNCHANGED <<phase, given, cfg, pending, switching, conn, net>>

\* Mutant: the cached DTO of the running loop is not refreshed.
FinishesUnrefreshed(n) ==
  /\ \E c \in pending[n] : pending' = [pending EXCEPT ![n] = @ \ {c}]
  /\ UNCHANGED <<phase, given, cfg, announced, switching, conn, net>>

\* An applyRuntime is over: the loop in the slot announces its configuration.
Finish(n) ==
  /\ \E c \in pending[n] :
       /\ Refresh(n, c)
       /\ pending' = [pending EXCEPT ![n] = @ \ {c}]
  /\ UNCHANGED <<phase, given, cfg, switching, conn, net>>

-----------------------------------------------------------------------------
(* Admin handlers, registered after the join.                              *)

\* /set: the file replaces every knob.
Set(n) ==
  /\ n \in Admins
  /\ phase[n] = "running"
  /\ \E dto \in File : Commit(n, BumpAndApplyLocal(cfg[n], dto))
  /\ UNCHANGED <<phase, given, announced, switching, conn, net>>

\* /switch builds a DTO from the configuration in force ...
SwitchRead(n) ==
  /\ n \in Admins
  /\ phase[n] = "running"
  /\ switching[n] = Absent
  /\ switching' = [switching EXCEPT ![n] = ToDTO(cfg[n])]
  /\ UNCHANGED <<phase, given, cfg, pending, announced, conn, net>>

\* ... and applies it with another mode or TSuspect, to whatever is in force by then.
SwitchApply(n) ==
  /\ switching[n] # Absent
  /\ \E m \in Modes, s \in Suspicions :
       Commit(n, BumpAndApplyLocal(cfg[n],
                   [version |-> switching[n].version,
                    set |-> [mode |-> m, tSuspect |-> s, knobs |-> switching[n].set.knobs]]))
  /\ switching' = [switching EXCEPT ![n] = Absent]
  /\ UNCHANGED <<phase, given, announced, conn, net>>

-----------------------------------------------------------------------------
DTOs == UNION {announced[n] : n \in Node} \cup {m[2] : m \in net}

ProcessStep(n) ==
  \/ Start(n) \/ Crash(n)
  \/ JoinCopy(n) \/ JoinRespond(n) \/ JoinApply(n) \/ JoinBreak(n)
  \/ \E p \in Node, dto \in DTOs : Send(n, p, dto)
  \/ \E dto \in DTOs : Receive(n, dto)
  \/ \E dto \in DTOs : Lose(n, dto)
  \/ StartLoop(n) \/ Finish(n) \/ Set(n) \/ SwitchRead(n) \/ SwitchApply(n)

Next == \E n \in Node : ProcessStep(n)

Spec == Init /\ [][Next]_vars

Hear(n) == \E dto \in DTOs : Receive(n, dto)

SendNewest(n, p) ==
  /\ phase[p] = "running"
  /\ \E dto \in announced[n] :
       /\ \A d \in announced[n] : d.version <= dto.version
       /\ Send(n, p, dto)

\* Every loop keeps sending, the one with the newest DTO too, to every peer that runs -
\* the loops tick, and the random choice leaves nobody out for ever - and of what keeps
\* being sent to a process something gets through.
Fairness ==
  \A n \in Node :
    /\ \A p \in Node : WF_vars(SendNewest(n, p))
    /\ SF_vars(Hear(n))
    /\ WF_vars(Finish(n))

FairSpec == Spec /\ Fairness
-----------------------------------------------------------------------------
(* Properties.                                                             *)

\* As long as one operator makes the changes, a version names one configuration:
\* two processes at the same version never differ, though they crash, rejoin and
\* hear of versions late, twice and out of order.
OneConfigPerVersion ==
  \A n, p \in Node :
    Up(n) /\ Up(p) /\ cfg[n].version = cfg[p].version => cfg[n] = cfg[p]

\* No process commits a change while it still applies another.
OneAtATime == \A n \in Node : \A c, d \in pending[n] : c = d

\* config.go:24: the knobs are "Cluster-wide (propagated)".  Once processes neither start
\* nor end, and changes cease, those that run have the same configuration, whoever is
\* down - as long as a process applies changes one at a time: else the older one may be
\* what it announces in the end.
Converges ==
  /\ []OneAtATime
  /\ <>[][UNCHANGED phase]_vars
  /\ <>[](\A n \in Node : phase[n] # "joining")
  => <>[](\A n, p \in Node : phase[n] = "running" /\ phase[p] = "running" => cfg[n] = cfg[p])

=============================================================================
