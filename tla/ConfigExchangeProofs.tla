------------------------- MODULE ConfigExchangeProofs -------------------------
(***************************************************************************)
(* The exchange of configurations, for any number of processes, settings   *)
(* and versions, whatever is lost, duplicated or late: its types, and that *)
(* with one operator a version names one configuration.                    *)
(***************************************************************************)
EXTENDS ConfigExchange, ClusterConfigProofs, TLAPS

-----------------------------------------------------------------------------
(* Types.                                                                  *)

\* A torn copy has valid fields: each was validated in one configuration or the other.
LEMMA TornType ==
  ASSUME NEW a \in Config, NEW b \in Config
  PROVE  Torn(a, b) \subseteq Config
BY DEF Torn, Config, Settings

\* A copy during which nothing was committed is whole.
LEMMA TornWhole ==
  ASSUME NEW a \in Config, NEW c \in Torn(a, a)
  PROVE  c = a
BY DEF Torn, Config, Settings

LEMMA HeardType ==
  ASSUME TypeOK, NEW n \in Node, NEW dto, Receive(n, dto)
  PROVE  dto \in ConfigDTO
BY DEF TypeOK, Receive

\* A commit of a valid configuration keeps the types of what it writes.
LEMMA CommitType ==
  ASSUME TypeOK, NEW n \in Node, NEW c \in Config, Commit(n, c)
  PROVE  cfg' \in [Node -> Config] /\ pending' \in [Node -> SUBSET Config]
BY DEF TypeOK, Commit

LEMMA RefreshType ==
  ASSUME TypeOK, NEW n \in Node, NEW c \in Config, Refresh(n, c)
  PROVE  announced' \in [Node -> SUBSET ConfigDTO]
<1>1. ToDTO(c) \in ConfigDTO
  BY ConfigIsDTO
<1> QED BY <1>1 DEF TypeOK, Refresh

\* The DTO a /switch applies is well formed.
LEMMA SwitchedType ==
  ASSUME NEW c \in Config, NEW m \in Modes, NEW s \in Suspicions
  PROVE  [version |-> c.version, set |-> [mode |-> m, tSuspect |-> s, knobs |-> c.set.knobs]]
           \in ConfigDTO
BY DEF Config, ConfigDTO, Settings, Parsed

LEMMA InitType == Init => TypeOK
<1> SUFFICES ASSUME Init PROVE TypeOK
  OBVIOUS
<1>1. UNION {Flags[n] : n \in Node} \subseteq Settings
  BY ExchangeAssumption
<1>2. given \in [Node -> {LoadFromFlags(s) : s \in UNION {Flags[n] : n \in Node}}]
  BY DEF Init
<1>3. given \in [Node -> Config]
  BY <1>1, <1>2, FlagsType
<1> QED BY <1>3 DEF Init, TypeOK

LEMMA StartType ==
  ASSUME TypeOK, NEW n \in Node, Start(n)
  PROVE  TypeOK'
<1>1. PICK s \in Flags[n] :
        /\ given' = [given EXCEPT ![n] = LoadFromFlags(s)]
        /\ cfg' = [cfg EXCEPT ![n] = LoadFromFlags(s)]
        /\ announced' = [announced EXCEPT ![n] =
                           IF n = Introducer THEN {ToDTO(LoadFromFlags(s))} ELSE {}]
  BY DEF Start
<1>2. LoadFromFlags(s) \in Config
  BY ExchangeAssumption, FlagsType
<1>3. ToDTO(LoadFromFlags(s)) \in ConfigDTO
  BY <1>2, ConfigIsDTO
<1>4. phase' \in [Node -> {"down", "joining", "running"}]
  BY DEF Start, TypeOK
<1> QED BY <1>1, <1>2, <1>3, <1>4 DEF Start, TypeOK

LEMMA CrashType ==
  ASSUME TypeOK, NEW n \in Node, Crash(n)
  PROVE  TypeOK'
BY DEF Crash, TypeOK

\* The connection of n as JoinCopy and JoinRespond leave it.
LEMMA ConnType ==
  ASSUME TypeOK, NEW n \in Node, NEW c \in Config, NEW st \in {"copying", "response"},
         conn' = [conn EXCEPT ![n] = [stage |-> st, dto |-> c]]
  PROVE  conn' \in [Node -> Join \cup {Absent}]
<1>1. [stage |-> st, dto |-> c] \in Join
  BY DEF Join
<1> QED BY <1>1 DEF TypeOK

\* A join that is going on carries a configuration.
LEMMA ConnIsJoin ==
  ASSUME TypeOK, NEW n \in Node, conn[n] # Absent
  PROVE  conn[n].stage \in {"copying", "response"} /\ conn[n].dto \in Config
BY DEF TypeOK, Join

LEMMA JoinCopyType ==
  ASSUME TypeOK, NEW n \in Node, JoinCopy(n)
  PROVE  TypeOK'
<1>1. cfg[Introducer] \in Config
  BY ExchangeAssumption DEF TypeOK
<1>2. conn' = [conn EXCEPT ![n] = [stage |-> "copying", dto |-> cfg[Introducer]]]
  BY DEF JoinCopy
<1>3. conn' \in [Node -> Join \cup {Absent}]
  BY <1>1, <1>2, ConnType
<1> QED BY <1>3 DEF JoinCopy, TypeOK

LEMMA JoinRespondType ==
  ASSUME TypeOK, NEW n \in Node, JoinRespond(n)
  PROVE  TypeOK'
<1>1. cfg[Introducer] \in Config /\ conn[n].dto \in Config
  BY ExchangeAssumption, ConnIsJoin DEF TypeOK, JoinRespond
<1>2. PICK c \in Torn(conn[n].dto, cfg[Introducer]) :
        conn' = [conn EXCEPT ![n] = [stage |-> "response", dto |-> ToDTO(c)]]
  BY DEF JoinRespond
<1>3. ToDTO(c) \in Config
  BY <1>1, <1>2, TornType, ConfigIsDTO
<1>4. conn' \in [Node -> Join \cup {Absent}]
  BY <1>2, <1>3, ConnType
<1> QED BY <1>4 DEF JoinRespond, TypeOK

LEMMA JoinApplyType ==
  ASSUME TypeOK, NEW n \in Node, JoinApply(n)
  PROVE  TypeOK'
<1>1. cfg[n] \in Config /\ given[n] \in Config /\ conn[n].dto \in ConfigDTO
  BY ConnIsJoin, ConfigIsDTO DEF TypeOK, JoinApply
<1>2. ApplyRemote(cfg[n], conn[n].dto) \in Config
  BY <1>1, RemoteType
<1>3. cfg' \in [Node -> Config] /\ cfg'[n] = ApplyRemote(cfg[n], conn[n].dto)
  BY <1>2 DEF JoinApply, TypeOK
<1>4. announced' \in [Node -> SUBSET ConfigDTO]
  BY <1>1, <1>2, <1>3, ConfigIsDTO DEF JoinApply, TypeOK
<1> QED BY <1>3, <1>4 DEF JoinApply, TypeOK

LEMMA ReceiveType ==
  ASSUME TypeOK, NEW n \in Node, NEW dto, Receive(n, dto)
  PROVE  TypeOK'
<1>1. ApplyRemote(cfg[n], dto) \in Config
  BY HeardType, RemoteType DEF TypeOK
<1>2. cfg' \in [Node -> Config] /\ pending' \in [Node -> SUBSET Config]
  BY <1>1, CommitType DEF Receive
<1> QED BY <1>2 DEF Receive, TypeOK

LEMMA SetType ==
  ASSUME TypeOK, NEW n \in Node, Set(n)
  PROVE  TypeOK'
<1>1. PICK dto \in File : Commit(n, BumpAndApplyLocal(cfg[n], dto))
  BY DEF Set
<1>2. BumpAndApplyLocal(cfg[n], dto) \in Config
  BY ExchangeAssumption, LocalType DEF TypeOK
<1>3. cfg' \in [Node -> Config] /\ pending' \in [Node -> SUBSET Config]
  BY <1>1, <1>2, CommitType
<1> QED BY <1>3 DEF Set, TypeOK

LEMMA SwitchReadType ==
  ASSUME TypeOK, NEW n \in Node, SwitchRead(n)
  PROVE  TypeOK'
<1>1. ToDTO(cfg[n]) \in Config
  BY ConfigIsDTO DEF TypeOK
<1> QED BY <1>1 DEF SwitchRead, TypeOK

LEMMA SwitchApplyType ==
  ASSUME TypeOK, NEW n \in Node, SwitchApply(n)
  PROVE  TypeOK'
<1>1. switching[n] \in Config /\ cfg[n] \in Config
  BY DEF SwitchApply, TypeOK
<1>2. PICK m \in Modes, s \in Suspicions :
        Commit(n, BumpAndApplyLocal(cfg[n],
                    [version |-> switching[n].version,
                     set |-> [mode |-> m, tSuspect |-> s, knobs |-> switching[n].set.knobs]]))
  BY DEF SwitchApply
<1> DEFINE c == BumpAndApplyLocal(cfg[n],
                  [version |-> switching[n].version,
                   set |-> [mode |-> m, tSuspect |-> s, knobs |-> switching[n].set.knobs]])
<1>3. c \in Config
  BY <1>1, SwitchedType, LocalType
<1>4. Commit(n, c)
  BY <1>2
<1> HIDE DEF c
<1>5. cfg' \in [Node -> Config] /\ pending' \in [Node -> SUBSET Config]
  BY <1>3, <1>4, CommitType
<1> QED BY <1>5 DEF SwitchApply, TypeOK

\* The steps that only take something away, or send and announce what there is.
LEMMA PassOnType ==
  ASSUME TypeOK, NEW n \in Node,
         \/ JoinBreak(n) \/ StartLoop(n) \/ Finish(n)
         \/ \E p \in Node, dto \in DTOs : Send(n, p, dto)
         \/ \E dto \in DTOs : Lose(n, dto)
  PROVE  TypeOK'
<1>1. CASE JoinBreak(n)
  BY <1>1 DEF JoinBreak, TypeOK
<1>2. CASE StartLoop(n) \/ Finish(n)
  <2>1. PICK c \in pending[n] : Refresh(n, c)
    BY <1>2 DEF StartLoop, Finish
  <2>2. announced' \in [Node -> SUBSET ConfigDTO]
    BY <2>1, RefreshType DEF TypeOK
  <2> QED BY <1>2, <2>2 DEF StartLoop, Finish, TypeOK
<1>3. ASSUME NEW p \in Node, NEW dto \in DTOs, Send(n, p, dto) PROVE TypeOK'
  BY <1>3 DEF Send, TypeOK
<1>4. ASSUME NEW dto \in DTOs, Lose(n, dto) PROVE TypeOK'
  BY <1>4 DEF Lose, TypeOK
<1> QED BY <1>1, <1>2, <1>3, <1>4

LEMMA StepType == TypeOK /\ [Next]_vars => TypeOK'
<1> SUFFICES ASSUME TypeOK, [Next]_vars PROVE TypeOK'
  OBVIOUS
<1>1. CASE UNCHANGED vars
  BY <1>1 DEF vars, TypeOK
<1>2. ASSUME NEW n \in Node, ProcessStep(n) PROVE TypeOK'
  BY <1>2, StartType, CrashType, JoinCopyType, JoinRespondType, JoinApplyType, PassOnType,
     ReceiveType, SetType, SwitchReadType, SwitchApplyType DEF ProcessStep
<1> QED BY <1>1, <1>2 DEF Next

\* Every configuration in force passed validation, whatever flags, file, operator and
\* network supplied, and also one that was copied while another was being committed.
THEOREM ExchangeTypeCorrect == Spec => []TypeOK
BY InitType, StepType, PTL DEF Spec

-----------------------------------------------------------------------------
(* One operator.                                                           *)

\* At most one process is told to change the configuration and it does not crash, all
\* are started with the same flags, and joins copy whole configurations.
OneOperator(adm, s) ==
  /\ adm \in Node \ Crashers
  /\ s \in Settings
  /\ Admins \subseteq {adm}
  /\ Flags = [n \in Node |-> {s}]
  /\ CalmJoins

\* What a process has, announces, applies or answers, what is on its way, and what a
\* process that starts brings in.
IsKnown(d, s) ==
  \/ d = LoadFromFlags(s)
  \/ \E n \in Node : \/ d = cfg[n]
                     \/ d \in announced[n]
                     \/ d \in pending[n]
                     \/ conn[n] # Absent /\ d = conn[n].dto
  \/ \E m \in net : d = m[2]

Known(s) == {d \in ConfigDTO : IsKnown(d, s)}

\* A version names one configuration wherever it occurs, and the operator's process has
\* seen them all: the version it makes next is new to everybody.
Agreed(adm, s) ==
  /\ \A c, d \in Known(s) : c.version = d.version => c = d
  /\ \A c \in Known(s) : c.version <= cfg[adm].version

\* The operator's process counts from version 1, only it switches, and the copy a join is
\* making is a copy of the configuration in force.
Orderly(adm, s) ==
  /\ phase[adm] = "down" => cfg[adm] = LoadFromFlags(s)
  /\ \A n \in Node : given[n] = LoadFromFlags(s)
  /\ \A n \in Node : switching[n] # Absent => n = adm /\ Up(n)
  /\ conn[Introducer] = Absent
  /\ \A n \in Node : conn[n] # Absent /\ conn[n].stage = "copying"
                       => conn[n].dto = cfg[Introducer] /\ phase[Introducer] = "running"

EInv(adm, s) == TypeOK /\ Agreed(adm, s) /\ Orderly(adm, s)

\* What is known of a process is known.
LEMMA KnownOf ==
  ASSUME NEW adm, NEW s, OneOperator(adm, s), EInv(adm, s), NEW n \in Node
  PROVE  /\ cfg[n] \in Known(s)
         /\ announced[n] \subseteq Known(s)
         /\ pending[n] \subseteq Known(s)
         /\ conn[n] # Absent => conn[n].dto \in Known(s)
         /\ LoadFromFlags(s) \in Known(s)
         /\ \A m \in net : m[2] \in Known(s)
<1>1. cfg[n] \in ConfigDTO /\ announced[n] \subseteq ConfigDTO /\ pending[n] \subseteq ConfigDTO
  BY ConfigIsDTO DEF TypeOK, EInv
<1>2. conn[n] # Absent => conn[n].dto \in ConfigDTO
  BY ConnIsJoin, ConfigIsDTO DEF EInv
<1>3. LoadFromFlags(s) \in ConfigDTO
  BY FlagsType, ConfigIsDTO DEF OneOperator
<1>4. \A m \in net : m[2] \in ConfigDTO
  BY DEF TypeOK, EInv
<1> QED BY <1>1, <1>2, <1>3, <1>4 DEF Known, IsKnown

\* Known grows by what one of its parts grows by.
LEMMA KnownGrows ==
  ASSUME NEW s, NEW new, LoadFromFlags(s) \in new,
         \A n \in Node : /\ cfg'[n] \in new
                         /\ announced'[n] \subseteq new
                         /\ pending'[n] \subseteq new
                         /\ conn'[n] # Absent => conn'[n].dto \in new,
         \A m \in net' : m[2] \in new
  PROVE  Known(s)' \subseteq new
<1> SUFFICES ASSUME NEW d \in Known(s)' PROVE d \in new
  OBVIOUS
<1>1. \/ d = LoadFromFlags(s)
      \/ \E n \in Node : \/ d = cfg'[n]
                         \/ d \in announced'[n]
                         \/ d \in pending'[n]
                         \/ conn'[n] # Absent /\ d = conn'[n].dto
      \/ \E m \in net' : d = m[2]
  BY DEF Known, IsKnown
<1>2. ASSUME NEW n \in Node,
             \/ d = cfg'[n]
             \/ d \in announced'[n]
             \/ d \in pending'[n]
             \/ conn'[n] # Absent /\ d = conn'[n].dto
      PROVE  d \in new
  BY <1>2
<1>3. ASSUME NEW m \in net', d = m[2] PROVE d \in new
  BY <1>3
<1> QED BY <1>1, <1>2, <1>3

\* Steps that bring nothing new.
LEMMA NothingNew ==
  ASSUME NEW adm, NEW s, OneOperator(adm, s), EInv(adm, s), TypeOK',
         Known(s)' \subseteq Known(s), cfg'[adm].version >= cfg[adm].version
  PROVE  Agreed(adm, s)'
<1>1. \A c \in Known(s) : c.version \in Nat
  BY DEF Known, ConfigDTO
<1>2. cfg[adm].version \in Nat /\ cfg'[adm].version \in Nat
  BY DEF OneOperator, EInv, TypeOK, Config
<1>3. \A c, d \in Known(s)' : c.version = d.version => c = d
  BY DEF EInv, Agreed
<1>4. \A c \in Known(s)' : c.version <= cfg'[adm].version
  BY <1>1, <1>2 DEF EInv, Agreed
<1> QED BY <1>3, <1>4 DEF Agreed

\* The operator's process makes a version.
LEMMA OneNew ==
  ASSUME NEW adm, NEW s, OneOperator(adm, s), EInv(adm, s), TypeOK',
         NEW c \in Config, c.version > cfg[adm].version, cfg'[adm] = c,
         Known(s)' \subseteq Known(s) \cup {c}
  PROVE  Agreed(adm, s)'
<1>1. \A d \in Known(s) : d.version \in Nat
  BY DEF Known, ConfigDTO
<1>2. cfg[adm].version \in Nat /\ c.version \in Nat
  BY DEF OneOperator, EInv, TypeOK, Config
<1>3. \A d \in Known(s) : d.version < c.version
  BY <1>1, <1>2 DEF EInv, Agreed
<1>4. \A d, e \in Known(s)' : d.version = e.version => d = e
  BY <1>1, <1>2, <1>3 DEF EInv, Agreed
<1>5. \A d \in Known(s)' : d.version <= cfg'[adm].version
  BY <1>1, <1>2, <1>3
<1> QED BY <1>4, <1>5 DEF Agreed

\* What a commit makes of a process: known is only one configuration more.  While a join
\* copies, the introducer commits nothing.
LEMMA CommitKnown ==
  ASSUME NEW adm, NEW s, OneOperator(adm, s), EInv(adm, s), NEW n \in Node, NEW c \in Config,
         Commit(n, c), UNCHANGED <<announced, conn, net>>
  PROVE  /\ Known(s)' \subseteq Known(s) \cup {c}
         /\ cfg' = [cfg EXCEPT ![n] = c]
         /\ \A p \in Node : conn[p] # Absent /\ conn[p].stage = "copying"
                                => cfg'[Introducer] = cfg[Introducer]
<1>1. \A p \in Node : cfg'[p] = IF p = n THEN c ELSE cfg[p]
  BY DEF EInv, TypeOK, Commit
<1>2. \A p \in Node : pending'[p] \subseteq pending[p] \cup {c}
  BY DEF EInv, TypeOK, Commit
<1>3. Known(s)' \subseteq Known(s) \cup {c}
  <2> DEFINE new == Known(s) \cup {c}
  <2>1. \A p \in Node : /\ cfg'[p] \in new
                        /\ announced'[p] \subseteq new
                        /\ pending'[p] \subseteq new
                        /\ conn'[p] # Absent => conn'[p].dto \in new
    BY <1>1, <1>2, KnownOf
  <2>2. LoadFromFlags(s) \in new /\ \A m \in net' : m[2] \in new
    BY KnownOf
  <2> QED BY <2>1, <2>2, KnownGrows
<1>4. ASSUME NEW p \in Node, conn[p] # Absent, conn[p].stage = "copying"
      PROVE  cfg'[Introducer] = cfg[Introducer]
  BY <1>1, <1>4, ExchangeAssumption DEF Commit, Copied, OneOperator
<1> QED BY <1>3, <1>4 DEF Commit

-----------------------------------------------------------------------------
(* One lemma per action.                                                   *)

LEMMA InitAgreed ==
  ASSUME NEW adm, NEW s, OneOperator(adm, s), Init
  PROVE  EInv(adm, s)
<1>1. \A n \in Node : given[n] = LoadFromFlags(s)
  <2>1. UNION {Flags[n] : n \in Node} = {s}
    BY ExchangeAssumption DEF OneOperator
  <2>2. given \in [Node -> {LoadFromFlags(r) : r \in {s}}]
    BY <2>1 DEF Init
  <2> QED BY <2>2
<1>2. Known(s) \subseteq {LoadFromFlags(s)}
  BY <1>1 DEF Init, Known, IsKnown
<1>3. cfg[adm].version = 1
  BY <1>1, FlagsType DEF Init, OneOperator
<1>4. Agreed(adm, s)
  BY <1>2, <1>3, FlagsType DEF Agreed, OneOperator
<1>5. Orderly(adm, s)
  BY <1>1, ExchangeAssumption DEF Init, Orderly, OneOperator
<1> QED BY <1>4, <1>5, InitType DEF EInv

\* The operator's process starts once, at version 1, when nobody is ahead of it; the
\* introducer does not start while it answers.
LEMMA StartAgreed ==
  ASSUME NEW adm, NEW s, OneOperator(adm, s), EInv(adm, s), TypeOK', NEW n \in Node, Start(n)
  PROVE  Agreed(adm, s)' /\ Orderly(adm, s)'
<1>1. /\ given' = [given EXCEPT ![n] = LoadFromFlags(s)]
      /\ cfg' = [cfg EXCEPT ![n] = LoadFromFlags(s)]
      /\ announced' = [announced EXCEPT ![n] =
                          IF n = Introducer THEN {ToDTO(LoadFromFlags(s))} ELSE {}]
  BY DEF Start, OneOperator
<1>2. /\ \A p \in Node : cfg'[p] = IF p = n THEN LoadFromFlags(s) ELSE cfg[p]
      /\ \A p \in Node : given'[p] = IF p = n THEN LoadFromFlags(s) ELSE given[p]
      /\ \A p \in Node : announced'[p] \subseteq announced[p] \cup {LoadFromFlags(s)}
  BY <1>1 DEF EInv, TypeOK, ToDTO
<1>3. Known(s)' \subseteq Known(s)
  BY <1>2, KnownOf, KnownGrows DEF Start
<1>4. cfg'[adm] = cfg[adm] /\ cfg[adm].version \in Nat
  BY <1>2 DEF EInv, TypeOK, Config, Orderly, OneOperator, Start
<1>5. Agreed(adm, s)'
  BY <1>3, <1>4, NothingNew
<1>6. \A p \in Node : phase'[p] = "down" => phase[p] = "down"
  BY DEF EInv, TypeOK, Start
<1>7. phase'[adm] = "down" => cfg'[adm] = LoadFromFlags(s)
  BY <1>4, <1>6 DEF EInv, Orderly, OneOperator
<1>8. phase[Introducer] = "running" =>
        phase'[Introducer] = "running" /\ cfg'[Introducer] = cfg[Introducer]
  BY <1>2, ExchangeAssumption DEF EInv, TypeOK, Start
<1> QED BY <1>2, <1>5, <1>6, <1>7, <1>8 DEF EInv, Orderly, Start, Up

LEMMA CrashAgreed ==
  ASSUME NEW adm, NEW s, OneOperator(adm, s), EInv(adm, s), TypeOK', NEW n \in Node, Crash(n)
  PROVE  Agreed(adm, s)' /\ Orderly(adm, s)'
<1>1. /\ \A p \in Node : pending'[p] \subseteq pending[p] /\ announced'[p] \subseteq announced[p]
      /\ \A p \in Node : switching'[p] \in {switching[p], Absent}
      /\ \A p \in Node : phase'[p] = IF p = n THEN "down" ELSE phase[p]
  BY DEF EInv, TypeOK, Crash
<1>2. \A p \in Node : conn'[p] # Absent => conn'[p] = conn[p] /\ n # Introducer
  BY DEF EInv, TypeOK, Crash
<1>3. Known(s)' \subseteq Known(s)
  BY <1>1, <1>2, KnownOf, KnownGrows DEF Crash
<1>4. Agreed(adm, s)'
  <2>1. cfg'[adm] = cfg[adm] /\ cfg[adm].version \in Nat
    BY DEF EInv, TypeOK, Config, OneOperator, Crash
  <2> QED BY <1>3, <2>1, NothingNew
<1>5. n # adm
  BY DEF Crash, OneOperator
<1>6. conn'[Introducer] = Absent
  BY ExchangeAssumption DEF EInv, Orderly, TypeOK, Crash
<1> QED BY <1>1, <1>2, <1>4, <1>5, <1>6, ExchangeAssumption
        DEF EInv, Orderly, OneOperator, Crash, Up

LEMMA JoinCopyAgreed ==
  ASSUME NEW adm, NEW s, OneOperator(adm, s), EInv(adm, s), TypeOK', NEW n \in Node,
         JoinCopy(n)
  PROVE  Agreed(adm, s)' /\ Orderly(adm, s)'
<1>1. \A p \in Node :
        conn'[p] = IF p = n THEN [stage |-> "copying", dto |-> cfg[Introducer]] ELSE conn[p]
  BY DEF EInv, TypeOK, JoinCopy
<1>2. Known(s)' \subseteq Known(s)
  BY <1>1, ExchangeAssumption, KnownOf, KnownGrows DEF JoinCopy
<1>3. Agreed(adm, s)'
  <2>1. cfg'[adm] = cfg[adm] /\ cfg[adm].version \in Nat
    BY DEF EInv, TypeOK, Config, OneOperator, JoinCopy
  <2> QED BY <1>2, <2>1, NothingNew
<1>4. n # Introducer
  BY DEF JoinCopy
<1> QED BY <1>1, <1>3, <1>4 DEF EInv, Orderly, JoinCopy, Up

\* The copy is whole: the introducer committed nothing since it began.
LEMMA JoinRespondAgreed ==
  ASSUME NEW adm, NEW s, OneOperator(adm, s), EInv(adm, s), TypeOK', NEW n \in Node,
         JoinRespond(n)
  PROVE  Agreed(adm, s)' /\ Orderly(adm, s)'
<1>1. PICK c \in Torn(conn[n].dto, cfg[Introducer]) :
        conn' = [conn EXCEPT ![n] = [stage |-> "response", dto |-> ToDTO(c)]]
  BY DEF JoinRespond
<1>2. conn[n].dto = cfg[Introducer] /\ cfg[Introducer] \in Config
  BY ExchangeAssumption DEF EInv, Orderly, TypeOK, JoinRespond
<1>3. c = cfg[Introducer]
  BY <1>1, <1>2, TornWhole
<1>4. \A p \in Node :
        conn'[p] = IF p = n THEN [stage |-> "response", dto |-> cfg[Introducer]] ELSE conn[p]
  BY <1>1, <1>3 DEF EInv, TypeOK, ToDTO
<1>5. Known(s)' \subseteq Known(s)
  BY <1>4, ExchangeAssumption, KnownOf, KnownGrows DEF JoinRespond
<1>6. Agreed(adm, s)'
  <2>1. cfg'[adm] = cfg[adm] /\ cfg[adm].version \in Nat
    BY DEF EInv, TypeOK, Config, OneOperator, JoinRespond
  <2> QED BY <1>5, <2>1, NothingNew
<1>7. n # Introducer
  BY DEF EInv, Orderly, JoinRespond
<1> QED BY <1>4, <1>6, <1>7 DEF EInv, Orderly, JoinRespond, Up

LEMMA JoinApplyAgreed ==
  ASSUME NEW adm, NEW s, OneOperator(adm, s), EInv(adm, s), TypeOK', NEW n \in Node,
         JoinApply(n)
  PROVE  Agreed(adm, s)' /\ Orderly(adm, s)'
<1>1. cfg[n] \in Config /\ conn[n].dto \in ConfigDTO
  BY ConnIsJoin, ConfigIsDTO DEF EInv, TypeOK, JoinApply
<1> DEFINE c == ApplyRemote(cfg[n], conn[n].dto)
<1>2. c \in {cfg[n], conn[n].dto} /\ c.version >= cfg[n].version
  BY <1>1, RemoteChoice
<1>3. \A p \in Node : cfg'[p] = IF p = n THEN c ELSE cfg[p]
  BY DEF EInv, TypeOK, JoinApply
<1> HIDE DEF c
<1>4. \A p \in Node : announced'[p] \subseteq announced[p] \cup {LoadFromFlags(s), c}
  <2>1. announced' = [announced EXCEPT ![n] = {ToDTO(d) : d \in {e \in {given[n], cfg'[n]} :
                                                e.set.mode = given[n].set.mode}}]
    BY DEF JoinApply
  <2>2. given[n] = LoadFromFlags(s) /\ cfg'[n] = c
    BY <1>3 DEF EInv, Orderly
  <2>3. {ToDTO(d) : d \in {e \in {given[n], cfg'[n]} : e.set.mode = given[n].set.mode}}
          \subseteq {given[n], cfg'[n]}
    BY DEF ToDTO
  <2>4. \A p \in Node : announced'[p] \subseteq announced[p] \cup {given[n], cfg'[n]}
    BY <2>1, <2>3 DEF EInv, TypeOK
  <2> QED BY <2>2, <2>4
<1>5. \A p \in Node : conn'[p] = IF p = n THEN Absent ELSE conn[p]
  BY DEF EInv, TypeOK, JoinApply
<1>6. conn[n] # Absent
  BY DEF JoinApply
<1>7. Known(s)' \subseteq Known(s)
  <2>1. c \in Known(s)
    BY <1>2, <1>6, KnownOf
  <2>2. \A p \in Node : /\ cfg'[p] \in Known(s)
                        /\ announced'[p] \subseteq Known(s)
                        /\ pending'[p] \subseteq Known(s)
                        /\ conn'[p] # Absent => conn'[p].dto \in Known(s)
    BY <1>3, <1>4, <1>5, <2>1, KnownOf DEF JoinApply
  <2> QED BY <2>2, KnownOf, KnownGrows DEF JoinApply
<1>8. Agreed(adm, s)'
  <2>1. cfg'[adm].version >= cfg[adm].version
    BY <1>2, <1>3 DEF EInv, TypeOK, Config, OneOperator
  <2> QED BY <1>7, <2>1, NothingNew
<1>9. cfg'[Introducer] = cfg[Introducer]
  BY <1>3, <1>6, ExchangeAssumption DEF EInv, Orderly
<1>10. \A p \in Node : phase'[p] = IF p = n THEN "running" ELSE phase[p]
  BY DEF EInv, TypeOK, JoinApply
<1> QED BY <1>3, <1>5, <1>8, <1>9, <1>10, ExchangeAssumption
        DEF EInv, Orderly, OneOperator, JoinApply, Up

\* What is received was known; the operator's process only goes up by it.
LEMMA ReceiveAgreed ==
  ASSUME NEW adm, NEW s, OneOperator(adm, s), EInv(adm, s), TypeOK', NEW n \in Node,
         NEW dto, Receive(n, dto)
  PROVE  Agreed(adm, s)' /\ Orderly(adm, s)'
<1> DEFINE c == ApplyRemote(cfg[n], dto)
<1>1. cfg[n] \in Config /\ dto \in ConfigDTO
  BY HeardType DEF EInv, TypeOK
<1>2. c \in Config /\ c \in {cfg[n], dto} /\ c.version >= cfg[n].version
  BY <1>1, RemoteChoice, RemoteType
<1>3. Commit(n, c) /\ UNCHANGED <<phase, given, announced, switching, conn, net>>
  BY DEF Receive
<1> HIDE DEF c
<1>4. /\ Known(s)' \subseteq Known(s) \cup {c}
      /\ cfg' = [cfg EXCEPT ![n] = c]
      /\ \A p \in Node : conn[p] # Absent /\ conn[p].stage = "copying"
                             => cfg'[Introducer] = cfg[Introducer]
  BY <1>2, <1>3, CommitKnown
<1>5. cfg[n] \in Known(s) /\ dto \in Known(s)
  BY KnownOf DEF Receive
<1>6. Known(s)' \subseteq Known(s)
  BY <1>2, <1>4, <1>5
<1>7. \A p \in Node : cfg'[p] = IF p = n THEN c ELSE cfg[p]
  BY <1>4 DEF EInv, TypeOK
<1>8. Agreed(adm, s)'
  <2>1. adm \in Node /\ cfg[adm].version \in Nat
    BY DEF EInv, TypeOK, Config, OneOperator
  <2>2. cfg'[adm].version >= cfg[adm].version
    BY <1>2, <1>7, <2>1
  <2> QED BY <1>6, <2>2, NothingNew
<1>9. phase'[adm] = "down" => cfg'[adm] = LoadFromFlags(s)
  BY <1>3, <1>7 DEF EInv, Orderly, OneOperator, Receive
<1> QED BY <1>3, <1>4, <1>8, <1>9 DEF EInv, Orderly, Up

\* Only the operator's process makes versions, and each is above all it has seen.
LEMMA ChangeAgreed ==
  ASSUME NEW adm, NEW s, OneOperator(adm, s), EInv(adm, s), TypeOK', NEW n \in Node, n = adm,
         NEW dto \in ConfigDTO, Commit(n, BumpAndApplyLocal(cfg[n], dto)),
         Up(n), UNCHANGED <<phase, given, announced, conn, net>>,
         \A p \in Node : switching'[p] # Absent => p = adm
  PROVE  Agreed(adm, s)' /\ Orderly(adm, s)'
<1> DEFINE c == BumpAndApplyLocal(cfg[n], dto)
<1>1. cfg[n] \in Config
  BY DEF EInv, TypeOK
<1>2. Commit(n, c) /\ c # cfg[n]
  BY DEF Commit
<1>3. c \in Config /\ c.version > cfg[n].version
  BY <1>1, <1>2, LocalNewer
<1> HIDE DEF c
<1>4. /\ Known(s)' \subseteq Known(s) \cup {c}
      /\ cfg' = [cfg EXCEPT ![n] = c]
      /\ \A p \in Node : conn[p] # Absent /\ conn[p].stage = "copying"
                             => cfg'[Introducer] = cfg[Introducer]
  BY <1>2, <1>3, CommitKnown
<1>5. cfg'[adm] = c
  BY <1>4 DEF EInv, TypeOK
<1>6. Agreed(adm, s)'
  BY <1>3, <1>4, <1>5, OneNew
<1> QED BY <1>4, <1>6 DEF EInv, Orderly, Up

LEMMA SetAgreed ==
  ASSUME NEW adm, NEW s, OneOperator(adm, s), EInv(adm, s), TypeOK', NEW n \in Node, Set(n)
  PROVE  Agreed(adm, s)' /\ Orderly(adm, s)'
<1>1. PICK dto \in File : Commit(n, BumpAndApplyLocal(cfg[n], dto))
  BY DEF Set
<1>2. dto \in ConfigDTO /\ n = adm
  BY ExchangeAssumption DEF OneOperator, Set
<1>3. \A p \in Node : switching'[p] # Absent => p = adm
  BY DEF Set, EInv, Orderly
<1> QED BY <1>1, <1>2, <1>3, ChangeAgreed DEF Set, Up

LEMMA SwitchReadAgreed ==
  ASSUME NEW adm, NEW s, OneOperator(adm, s), EInv(adm, s), TypeOK', NEW n \in Node,
         SwitchRead(n)
  PROVE  Agreed(adm, s)' /\ Orderly(adm, s)'
<1>1. Known(s)' = Known(s)
  BY DEF Known, IsKnown, SwitchRead
<1>2. cfg'[adm] = cfg[adm] /\ cfg[adm].version \in Nat
  BY DEF EInv, TypeOK, Config, OneOperator, SwitchRead
<1>3. Agreed(adm, s)'
  BY <1>1, <1>2, NothingNew
<1>4. \A p \in Node : switching'[p] # Absent => p = adm /\ Up(p)
  BY DEF EInv, TypeOK, Orderly, OneOperator, SwitchRead, Up
<1> QED BY <1>3, <1>4 DEF EInv, Orderly, SwitchRead, Up

LEMMA SwitchApplyAgreed ==
  ASSUME NEW adm, NEW s, OneOperator(adm, s), EInv(adm, s), TypeOK', NEW n \in Node,
         SwitchApply(n)
  PROVE  Agreed(adm, s)' /\ Orderly(adm, s)'
<1>1. switching[n] \in Config /\ n = adm /\ Up(n)
  BY DEF EInv, TypeOK, Orderly, SwitchApply
<1>2. PICK m \in Modes, t \in Suspicions :
        Commit(n, BumpAndApplyLocal(cfg[n],
                    [version |-> switching[n].version,
                     set |-> [mode |-> m, tSuspect |-> t, knobs |-> switching[n].set.knobs]]))
  BY DEF SwitchApply
<1> DEFINE dto == [version |-> switching[n].version,
                   set |-> [mode |-> m, tSuspect |-> t, knobs |-> switching[n].set.knobs]]
<1>3. dto \in ConfigDTO
  BY <1>1, SwitchedType
<1>4. Commit(n, BumpAndApplyLocal(cfg[n], dto))
  BY <1>2
<1> HIDE DEF dto
<1>5. \A p \in Node : switching'[p] # Absent => p = adm
  BY DEF EInv, TypeOK, Orderly, SwitchApply
<1> QED BY <1>1, <1>3, <1>4, <1>5, ChangeAgreed DEF SwitchApply

\* The steps that change no configuration and make none.
LEMMA PassOnAgreed ==
  ASSUME NEW adm, NEW s, OneOperator(adm, s), EInv(adm, s), TypeOK', NEW n \in Node,
         \/ JoinBreak(n) \/ StartLoop(n) \/ Finish(n)
         \/ \E p \in Node, dto \in DTOs : Send(n, p, dto)
         \/ \E dto \in DTOs : Lose(n, dto)
  PROVE  Agreed(adm, s)' /\ Orderly(adm, s)'
<1>1. UNCHANGED <<phase, given, cfg, switching>>
  BY DEF JoinBreak, StartLoop, Finish, Send, Lose
<1>2. \A p \in Node : conn'[p] \in {conn[p], Absent}
  BY DEF JoinBreak, StartLoop, Finish, Send, Lose, EInv, TypeOK
<1>3. \A p \in Node : pending'[p] \subseteq pending[p]
  BY DEF JoinBreak, StartLoop, Finish, Send, Lose, EInv, TypeOK
<1>4. \A p \in Node : announced'[p] \subseteq announced[p] \cup pending[p]
  <2>1. CASE StartLoop(n) \/ Finish(n)
    <3>1. PICK c \in pending[n] : Refresh(n, c)
      BY <2>1 DEF StartLoop, Finish
    <3> QED BY <3>1 DEF Refresh, ToDTO, EInv, TypeOK
  <2>2. CASE UNCHANGED announced
    BY <2>2
  <2> QED BY <2>1, <2>2 DEF JoinBreak, Send, Lose
<1>5. \A m \in net' : m[2] \in Known(s)
  <2>1. CASE JoinBreak(n) \/ StartLoop(n) \/ Finish(n)
    BY <2>1, KnownOf DEF JoinBreak, StartLoop, Finish
  <2>2. ASSUME NEW p \in Node, NEW dto, Send(n, p, dto)
        PROVE  \A m \in net' : m[2] \in Known(s)
    <3>1. announced[n] \subseteq Known(s) /\ \A m \in net : m[2] \in Known(s)
      BY KnownOf
    <3> QED BY <2>2, <3>1 DEF Send
  <2>3. ASSUME NEW dto, Lose(n, dto)
        PROVE  \A m \in net' : m[2] \in Known(s)
    BY <2>3, KnownOf DEF Lose
  <2> QED BY <2>1, <2>2, <2>3
<1>6. Known(s)' \subseteq Known(s)
  BY <1>1, <1>2, <1>3, <1>4, <1>5, KnownOf, KnownGrows
<1>7. Agreed(adm, s)'
  <2>1. cfg'[adm] = cfg[adm] /\ cfg[adm].version \in Nat
    BY <1>1 DEF EInv, TypeOK, Config, OneOperator
  <2> QED BY <1>6, <2>1, NothingNew
<1> QED BY <1>1, <1>2, <1>7, ExchangeAssumption DEF EInv, Orderly, Up

LEMMA StepAgreed ==
  ASSUME NEW adm, NEW s, OneOperator(adm, s), EInv(adm, s), [Next]_vars
  PROVE  EInv(adm, s)'
<1>1. TypeOK'
  BY StepType DEF EInv
<1>2. CASE UNCHANGED vars
  <2>1. Known(s)' = Known(s)
    BY <1>2 DEF vars, Known, IsKnown
  <2> QED BY <1>1, <1>2, <2>1 DEF vars, EInv, Agreed, Orderly, Up
<1>3. ASSUME NEW n \in Node, ProcessStep(n) PROVE Agreed(adm, s)' /\ Orderly(adm, s)'
  BY <1>1, <1>3, StartAgreed, CrashAgreed, JoinCopyAgreed, JoinRespondAgreed, JoinApplyAgreed,
     ReceiveAgreed, SetAgreed, SwitchReadAgreed, SwitchApplyAgreed, PassOnAgreed
     DEF ProcessStep
<1> QED BY <1>1, <1>2, <1>3 DEF Next, EInv

\* With one operator whose process stays up, equal flags and whole copies at joins, two
\* processes at the same version have the same configuration: however many they are,
\* and however often the others crash and come back with configurations, messages and
\* answers of earlier lives under way.
THEOREM OneOperatorAgrees ==
  ASSUME NEW adm, NEW s, OneOperator(adm, s)
  PROVE  Spec => []OneConfigPerVersion
<1>1. Init => EInv(adm, s)
  BY InitAgreed
<1>2. EInv(adm, s) /\ [Next]_vars => EInv(adm, s)'
  BY StepAgreed
<1>3. EInv(adm, s) => OneConfigPerVersion
  <2> SUFFICES ASSUME EInv(adm, s) PROVE OneConfigPerVersion
    OBVIOUS
  <2>1. \A n \in Node : cfg[n] \in Known(s)
    BY ConfigIsDTO DEF EInv, TypeOK, Known, IsKnown
  <2> QED BY <2>1 DEF EInv, Agreed, OneConfigPerVersion
<1> QED BY <1>1, <1>2, <1>3, PTL DEF Spec

=============================================================================
