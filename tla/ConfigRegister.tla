---------------------------- MODULE ConfigRegister ----------------------------
(***************************************************************************)
(* What one process promises the rest of the cluster about its             *)
(* configuration, whatever its goroutines do to each other: the            *)
(* configuration in force is only ever replaced by one of a strictly newer *)
(* version, and what its loops piggyback has been in force in this very    *)
(* process, except for empty DTOs, which no receiver applies.              *)
(***************************************************************************)
EXTENDS ClusterConfig

VARIABLES
  inForce,    \* the configuration in force
  adopted,    \* every configuration that has been in force
  announced   \* the DTOs the loops of the process send along

register == <<inForce, adopted, announced>>

Init ==
  /\ inForce \in Config
  /\ adopted = {inForce}
  /\ announced = {}

Adopt ==
  /\ inForce' \in Config
  /\ inForce'.version > inForce.version
  /\ adopted' = adopted \cup {inForce'}
  /\ UNCHANGED announced

Announce ==
  /\ announced' \subseteq adopted \cup {EmptyDTO}
  /\ UNCHANGED <<inForce, adopted>>

Next == Adopt \/ Announce

Spec == Init /\ [][Next]_register

=============================================================================
