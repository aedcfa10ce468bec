---------------------------- MODULE SerialRuntime ----------------------------
(***************************************************************************)
(* What DaemonRuntime is good for: configuration changes that do not       *)
(* overlap.  A history variable remembers whether any did.                 *)
(***************************************************************************)
EXTENDS DaemonRuntime

VARIABLE serial  \* history: every change so far began after the one before it was over

history == <<vars, serial>>

\* A configuration is committed while no applyRuntime is under way and Run is not between
\* the join and its loop, and Run starts the protocol that is in force.
Undisturbed ==
  /\ cfg' # cfg => main \in {"joining", "serving"} /\ \A t \in Thread : task[t] = Nil
  /\ RunStarts => given = cfg

SerialInit == Init /\ serial = TRUE

SerialNext == Next /\ serial' = (serial /\ Undisturbed)

FairSpec == SerialInit /\ [][SerialNext]_history /\ Fairness

-----------------------------------------------------------------------------
(* Properties.                                                             *)

\* Changes that do not overlap leave the daemon as configured: exactly the loop of the
\* mode in force runs, with the knobs in force and announcing them, and the manager and
\* the store, which both read TSuspect, have the same one.
RuntimeFollowsConfig ==
  serial /\ Quiet =>
    /\ slot[cfg.set.mode] # Nil
    /\ slot[Other(cfg.set.mode)] = Nil
    /\ \A l \in LoopId : Running(l) <=> l = slot[cfg.set.mode]
    /\ loop[slot[cfg.set.mode]].tuned = cfg
    /\ loop[slot[cfg.set.mode]].dto = cfg
    /\ manager = cfg
    /\ store = cfg

\* They never close a closed stop channel nor use a pointer that was cleared, also when
\* the receive loop that stops is the one that heard of the change and runs applyRuntime.
NeverPanics == serial => ~panicked

\* A receive loop blocked in Read while its stop channel is closed takes at most
\* one datagram from the loop that replaces it, a ping that then has no ack.
StoppedLoopTakesOneMore ==
  serial => \A l \in LoopId : loop[l] # Nil => loop[l].late <= 1

\* Once the join is over and changes cease, the goroutines of every stopped loop end, and
\* what still runs is the loop of the mode in force, announcing the configuration in
\* force.
Settles ==
  []serial /\ <>(main # "joining") =>
    <>[](/\ Quiet
         /\ \A l \in LoopId :
              loop[l] # Nil /\ loop[l].receivers + loop[l].senders > 0
                => l = slot[cfg.set.mode] /\ loop[l].dto = cfg)

=============================================================================
