-------------------------- MODULE MCFailureDetection --------------------------
(***************************************************************************)
(* Small clusters for TLC.  Values the configurations choose from.         *)
(***************************************************************************)
EXTENDS FailureDetection

NoSkew == [n \in Node |-> 0]

\* All processes are founders.
FairSpec == TimedSpec /\ TimedFairness

=============================================================================
