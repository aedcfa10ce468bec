--------------------------- MODULE MCConfigExchange ---------------------------
(***************************************************************************)
(* Small clusters for TLC.  Values the configurations choose from.         *)
(***************************************************************************)
EXTENDS ConfigExchange

CONSTANTS k1, k2   \* two sets of knobs

Default == [mode |-> ModePingAck, tSuspect |-> 1, knobs |-> k1]

\* Every process is started without flags.
SameFlags == [n \in Node |-> {Default}]

\* config.json: other knobs, under an old version and under a version ahead of all
\* others; or a file that fails validation when some of its knobs have been read.
Files ==
  {[version |-> v, set |-> [mode |-> ModeGossip, tSuspect |-> 1, knobs |-> k2]] : v \in {1, 3}}
    \cup {[version |-> 1, set |-> [mode |-> ModeGossip, tSuspect |-> 1, knobs |-> Invalid]]}

\* Bound: behaviours of all nodes with two versions, and behaviours with a third version
\* in which Spare takes no part.  Only starts, commits of new versions and datagrams to
\* Spare are cut off, of which no fairness is assumed.
CONSTANT Spare

Bound ==
  (\E n \in Node : cfg[n].version > 2) =>
    /\ phase[Spare] = "down" /\ cfg[Spare].version = 1
    /\ \A m \in net : m[1] # Spare

BoundedNext == Next /\ Bound'

BoundedSpec == Init /\ [][BoundedNext]_vars /\ Fairness

=============================================================================
