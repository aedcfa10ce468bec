-------------------------- MODULE MCGroupMembership --------------------------
(***************************************************************************)
(* Small clusters for TLC.  Values the configurations choose from.         *)
(***************************************************************************)
EXTENDS GroupMembership

\* Clocks in agreement.
NoSkew == [n \in Node |-> 0]

\* The introducer's wall clock is one unit ahead of the others'.
IntroducerAhead == [n \in Node |-> IF n = Introducer THEN 1 ELSE 0]

=============================================================================
