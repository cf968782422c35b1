------------------------------- MODULE MCSocket -------------------------------
(* Two or three tickerd processes of one user, a few of them killed.       *)
EXTENDS Socket

(* "One instance owns the database and the socket; [...] Starting a second *)
(* one refuses rather than competing for the ledger" (README.md 190-192):  *)
(* here with processes that go through bind together.                      *)
OneInstance ==
    \A d, e \in Daemons : IsDaemon(d) /\ IsDaemon(e) /\ at[d] = at[e] => d = e

(* The same sentence, and "One daemon per user" (README.md 374): here with *)
(* processes that never go through bind together, in sessions of one user  *)
(* that name different socket paths.                                       *)
OnePerUser == serial => \A d, e \in Daemons : IsDaemon(d) /\ IsDaemon(e) => d = e

(* "Stop the daemon with Ctrl-C or pkill tickerd - either way it removes   *)
(* its socket file on the way out" (README.md 181-182).                    *)
StopRemovesSocket == \A d \in Daemons : ended[d] \in {"stopped", "interrupted"} => File(d) # d

(* "To replace the running one: pkill tickerd && tickerd &" (server.rs     *)
(* 73-76): pkill returns once the signal is sent, and a process started    *)
(* while the old one is on its way out becomes the daemon.                 *)
ReplacementServes ==
    \A d, e \in Daemons :
        pc[d] = "cleanup" /\ pc[e] = "exists" ~> Serving(e)

\* Every process is started once, none is killed and no call fails.
StartOnce(d) == ended[d] = "never ran" /\ Start(d)

OnceNext == \E d \in Daemons : StartOnce(d) \/ Run(d) \/ Install(d) \/ Signal(d)

OnceSpec == Init /\ [][OnceNext]_vars /\ \A d \in Daemons : WF_vars(Run(d))

\* A daemon was killed, and the rest are started once, at any moments.
Debris(d) ==
    /\ at \in [Daemons -> Places]
    /\ path = [p \in Places |-> IF p = at[d] THEN d ELSE None]
    /\ pc = [e \in Daemons |-> "off"]
    /\ ended = [e \in Daemons |-> IF e = d THEN "killed" ELSE "never ran"]
    /\ stops = 1
    /\ serial = FALSE

AfterCrashSpec ==
    /\ \E d \in Daemons : Debris(d)
    /\ [][\E d \in Daemons : StartOnce(d) \/ Run(d) \/ Install(d)]_vars
    /\ \A d \in Daemons : WF_vars(Run(d)) /\ WF_vars(StartOnce(d))

(* However the processes started after a crash interleave in bind, and     *)
(* though each may remove the other's socket, one of them ends up serving. *)
SomebodyServes == <>(\E d \in Daemons : Serving(d))
=============================================================================
