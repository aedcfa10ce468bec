---------------------------- MODULE ClusterConfig ----------------------------
(***************************************************************************)
(* The data of pkg/config: the cluster-wide part of the configuration, the *)
(* DTO that carries it over the network and out of config.json, and the    *)
(* rules by which a DTO replaces the configuration in force.               *)
(*                                                                         *)
(* Of the ten knobs the mode and TSuspect are kept apart, because /switch  *)
(* rewrites exactly these; the other seven are one value of Knobs.  In a   *)
(* DTO any of the three may be missing or out of range.                    *)
(***************************************************************************)
EXTENDS Naturals

CONSTANTS
  Suspicions,  \* values of TSuspect, 0 disables suspicion
  Knobs,       \* values of periods, fanouts, TFail, TCleanup and drop rate together
  Invalid      \* a field of a DTO that makes ApplyDTO return an error

ModePingAck == "pingack"
ModeGossip == "gossip"
Modes == {ModePingAck, ModeGossip}

\* What ValidateClusterParams lets through.
Settings == [mode : Modes, tSuspect : Suspicions, knobs : Knobs]

ASSUME ConfigAssumption ==
  /\ Suspicions \subseteq Nat
  /\ Invalid \notin Modes /\ Invalid \notin Suspicions /\ Invalid \notin Knobs

Config == [version : Nat, set : Settings]

\* What a DTO may say.
Parsed == [mode : Modes \cup {Invalid}, tSuspect : Suspicions \cup {Invalid},
           knobs : Knobs \cup {Invalid}]

ConfigDTO == [version : Nat, set : Parsed]

\* The DTO a loop is created with.
EmptyDTO == [version |-> 0, set |-> [mode |-> Invalid, tSuspect |-> Invalid, knobs |-> Invalid]]

\* Every process starts at the version of Defaults, whatever its flags say.
LoadFromFlags(settings) == [version |-> 1, set |-> settings]

\* Durations print as strings that parse back to the same duration.
ToDTO(c) == c

\* Mutants: a DTO of the version in force is applied; the version is not looked at.
AppliesEqualVersion(c, dto) ==
  IF dto.version < c.version \/ dto.set \notin Settings THEN c ELSE dto

AppliesAnyVersion(c, dto) == IF dto.set \notin Settings THEN c ELSE dto

\* Mutant: what the file says goes in force although it does not pass validation.
AppliesUnvalidated(c, dto) == IF dto.version <= c.version THEN c ELSE dto

\* Mutant: knobs are copied into the configuration in force up to the first that is
\* invalid; the version comes last.
AppliesInPlace(c, dto) ==
  IF dto.version <= c.version THEN c
  ELSE IF dto.set \in Settings THEN dto
  ELSE IF dto.set.mode = Invalid THEN c
  ELSE [c EXCEPT !.set.mode = dto.set.mode,
                 !.set.tSuspect = IF dto.set.tSuspect = Invalid THEN @ ELSE dto.set.tSuspect]

\* The DTO is copied into a spare configuration knob by knob and committed as
\* a whole: an error leaves the configuration in force as it is.
ApplyDTO(c, dto) ==
  IF dto.version <= c.version \/ dto.set \notin Settings THEN c ELSE dto

ApplyRemote(c, dto) == ApplyDTO(c, dto)

BumpAndApplyLocal(c, dto) ==
  ApplyDTO(c, [version |-> IF dto.version <= c.version THEN c.version + 1 ELSE dto.version,
               set |-> dto.set])

=============================================================================
