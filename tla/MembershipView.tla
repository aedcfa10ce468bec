---------------------------- MODULE MembershipView ----------------------------
(***************************************************************************)
(* What the membership tables promise about boots, without messages,       *)
(* scans, states or times: a live process has itself in its view under its *)
(* current boot; of another endpoint it has some boot that has happened,   *)
(* which only gives way to a later one until the endpoint is forgotten.    *)
(***************************************************************************)
EXTENDS Naturals

CONSTANT Node

VARIABLES
  boot,   \* boot[n]: boots of n so far
  up,     \* endpoints with a process
  view    \* view[n][p]: the boot of p that n has, 0 for none

NoView == [p \in Node |-> 0]

Init ==
  /\ boot = [n \in Node |-> 0]
  /\ up = {}
  /\ view = [n \in Node |-> NoView]

Begin(n) ==
  /\ n \in Node \ up
  /\ boot' = [boot EXCEPT ![n] = @ + 1]
  /\ up' = up \cup {n}
  /\ view' = [view EXCEPT ![n] = [p \in Node |-> IF p = n THEN boot[n] + 1 ELSE 0]]

End(n) ==
  /\ n \in up
  /\ up' = up \ {n}
  /\ view' = [view EXCEPT ![n] = NoView]
  /\ UNCHANGED boot

\* n hears of endpoints, or of later boots of them; so it never moves from its own.
Learn(n) ==
  /\ n \in up
  /\ view' \in [Node -> [Node -> Nat]]
  /\ \A k, p \in Node :
       \/ view'[k][p] = view[k][p]
       \/ k = n /\ view'[k][p] \in view[k][p] + 1 .. boot[p]
  /\ UNCHANGED <<boot, up>>

Forget(n, p) ==
  /\ n \in up
  /\ p \in Node \ {n}
  /\ view' = [view EXCEPT ![n][p] = 0]
  /\ UNCHANGED <<boot, up>>

Next ==
  \E n \in Node :
    \/ Begin(n) \/ End(n) \/ Learn(n)
    \/ \E p \in Node : Forget(n, p)

Spec == Init /\ [][Next]_<<boot, up, view>>

=============================================================================
