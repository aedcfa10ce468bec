------------------------- MODULE ClusterConfigProofs -------------------------
(***************************************************************************)
(* What the rules of pkg/config make of a configuration, for the proofs    *)
(* about a daemon and about the cluster.                                   *)
(***************************************************************************)
EXTENDS ClusterConfig, TLAPS

\* The DTO of a new loop.
LEMMA EmptyType == EmptyDTO \in ConfigDTO
BY DEF EmptyDTO, ConfigDTO, Parsed

\* A DTO that is applied is valid and newer.
LEMMA ApplyNewer ==
  ASSUME NEW c \in Config, NEW dto \in ConfigDTO, ApplyDTO(c, dto) # c
  PROVE  /\ ApplyDTO(c, dto) \in Config
         /\ ApplyDTO(c, dto).version > c.version
BY DEF ApplyDTO, Config, ConfigDTO

LEMMA RemoteNewer ==
  ASSUME NEW c \in Config, NEW dto \in ConfigDTO, ApplyRemote(c, dto) # c
  PROVE  /\ ApplyRemote(c, dto) \in Config
         /\ ApplyRemote(c, dto).version > c.version
BY ApplyNewer DEF ApplyRemote

LEMMA LocalNewer ==
  ASSUME NEW c \in Config, NEW dto \in ConfigDTO, BumpAndApplyLocal(c, dto) # c
  PROVE  /\ BumpAndApplyLocal(c, dto) \in Config
         /\ BumpAndApplyLocal(c, dto).version > c.version
<1> DEFINE bumped == [version |-> IF dto.version <= c.version THEN c.version + 1 ELSE dto.version,
                      set |-> dto.set]
<1>1. bumped \in ConfigDTO
  BY DEF Config, ConfigDTO
<1>2. BumpAndApplyLocal(c, dto) = ApplyDTO(c, bumped)
  BY DEF BumpAndApplyLocal
<1> HIDE DEF bumped
<1> QED BY <1>1, <1>2, ApplyNewer

\* Every configuration can be sent.
LEMMA ConfigIsDTO == \A c \in Config : ToDTO(c) = c /\ c \in ConfigDTO
BY DEF ToDTO, Config, ConfigDTO, Settings, Parsed

\* A process starts with what its flags say, at version 1.
LEMMA FlagsType ==
  ASSUME NEW s \in Settings
  PROVE  LoadFromFlags(s) \in Config /\ LoadFromFlags(s).version = 1
BY DEF LoadFromFlags, Config

\* Whatever is applied, a valid configuration is in force.
LEMMA RemoteType ==
  ASSUME NEW c \in Config, NEW dto \in ConfigDTO
  PROVE  ApplyRemote(c, dto) \in Config
BY RemoteNewer

LEMMA LocalType ==
  ASSUME NEW c \in Config, NEW dto \in ConfigDTO
  PROVE  BumpAndApplyLocal(c, dto) \in Config
BY LocalNewer

\* From the wire nothing else comes in force than what was received.
LEMMA RemoteChoice ==
  ASSUME NEW c \in Config, NEW dto \in ConfigDTO
  PROVE  ApplyRemote(c, dto) \in {c, dto} /\ ApplyRemote(c, dto).version >= c.version
BY DEF ApplyRemote, ApplyDTO, Config, ConfigDTO

=============================================================================
