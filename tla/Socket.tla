-------------------------------- MODULE Socket --------------------------------
(***************************************************************************)
(* Who is the daemon: claiming the socket (bind of server.rs), the startup *)
(* sweep before main serves, and the signal task of serve that removes the *)
(* socket file.  Every system call of bind is a step, because several      *)
(* tickerd processes may be started and stopped at any time, in sessions   *)
(* that need not agree on the socket path (default_socket_path: a login    *)
(* session has XDG_RUNTIME_DIR, cron or a bare ssh command falls back on   *)
(* /tmp).                                                                  *)
(*                                                                         *)
(* Left out: the vetting of directories and file modes, a probe that is    *)
(* wrong (a stat that fails, or a connect though somebody listens, with a  *)
(* full backlog), and SIGINT apart from SIGTERM but where one is handled   *)
(* and the other is not.                                                   *)
(***************************************************************************)
EXTENDS Integers

CONSTANTS
    Daemons,   \* tickerd processes
    Places,    \* directories default_socket_path chooses between
    MaxStops,  \* bound: kills, signals and failing system calls explored
    None       \* no file at a socket path

ASSUME SocketAssumption ==
    /\ MaxStops \in Nat
    /\ None \notin Daemons

VARIABLES
    path,   \* per place: whose socket the file there is, or None
    at,     \* per process: the place its last run was started with
    pc,     \* per process
    ended,  \* per process: how its last run ended
    stops,  \* kills, signals and failing system calls so far
    serial  \* never changes: whether bind is run one process at a time

vars == <<path, at, pc, ended, stops, serial>>

Binding == {"exists", "connect", "remove", "bind", "chmod"}

\* The listener is open from bind until the process is gone.
Listening(d) == pc[d] \in {"chmod", "startup", "deaf", "serving", "cleanup", "exiting"}

\* It accepts clients: with the handler of SIGTERM there, or without it.
Serving(d) == pc[d] \in {"deaf", "serving"}

Goto(d, label) ==
    /\ pc' = [pc EXCEPT ![d] = label]
    /\ UNCHANGED <<at, serial>>

\* The file at this process's sock_path.
File(d) == path[at[d]]

Quit(d, how) ==
    /\ Goto(d, "off")
    /\ ended' = [ended EXCEPT ![d] = how]

Mishap == stops < MaxStops /\ stops' = stops + 1

-----------------------------------------------------------------------------
Init ==
    /\ path = [p \in Places |-> None]
    /\ at \in [Daemons -> Places]
    /\ pc = [d \in Daemons |-> "off"]
    /\ ended = [d \in Daemons |-> "never ran"]
    /\ stops = 0
    /\ serial \in BOOLEAN

Start(d) ==
    /\ pc[d] = "off"
    /\ \E p \in Places :
        /\ serial => \A e \in Daemons : pc[e] \in Binding => at[e] # p
        /\ at' = [at EXCEPT ![d] = p]
    /\ pc' = [pc EXCEPT ![d] = "exists"]
    /\ UNCHANGED <<path, ended, stops, serial>>

\* sock_path.exists()
Exists(d) ==
    /\ pc[d] = "exists"
    /\ Goto(d, IF File(d) = None THEN "bind" ELSE "connect")
    /\ UNCHANGED <<path, ended, stops>>

\* The file is the socket of a process that listens on it still.
Answers(d) ==
    \E e \in Daemons : File(d) = e /\ at[e] = at[d] /\ Listening(e)

\* UnixStream::connect(sock_path) succeeds: another tickerd is listening.
Refused(d) ==
    /\ pc[d] = "connect"
    /\ Answers(d)
    /\ Quit(d, "refused")
    /\ UNCHANGED <<path, stops>>

\* Slip for the mutants: the file is taken for debris without asking.
StaleUnprobed(d) ==
    /\ pc[d] = "connect"
    /\ Goto(d, "remove")
    /\ UNCHANGED <<path, ended, stops>>

Stale(d) ==
    /\ pc[d] = "connect"
    /\ ~Answers(d)
    /\ Goto(d, "remove")
    /\ UNCHANGED <<path, ended, stops>>

\* Slip for the mutants: debris is left where it is.
LeaveDebris(d) ==
    /\ pc[d] = "remove"
    /\ Goto(d, "bind")
    /\ UNCHANGED <<path, ended, stops>>

Remove(d) ==
    /\ pc[d] = "remove"
    /\ File(d) # None
    /\ path' = [path EXCEPT ![at[d]] = None]
    /\ Goto(d, "bind")
    /\ UNCHANGED <<ended, stops>>

\* remove_file(..).ok(): nothing is there any more, or the call fails and bind,
\* which goes on, will find the address in use.
RemoveFails(d) ==
    /\ pc[d] = "remove"
    /\ IF File(d) = None THEN UNCHANGED stops ELSE Mishap
    /\ Goto(d, "bind")
    /\ UNCHANGED <<path, ended>>

Bind(d) ==
    /\ pc[d] = "bind"
    /\ File(d) = None
    /\ path' = [path EXCEPT ![at[d]] = d]
    /\ Goto(d, "chmod")
    /\ UNCHANGED <<ended, stops>>

\* Address already in use (by the process's own old debris only if its removal
\* has failed), or whatever else keeps the socket from being made.
BindFails(d) ==
    /\ pc[d] = "bind"
    /\ IF File(d) # None THEN UNCHANGED stops ELSE Mishap
    /\ Quit(d, IF File(d) = d THEN "broken" ELSE "failed")
    /\ UNCHANGED path

Chmod(d) ==
    /\ pc[d] = "chmod"
    /\ File(d) # None
    /\ Goto(d, "startup")
    /\ UNCHANGED <<path, ended, stops>>

\* Nothing is there any more, or the call fails: the listener is dropped and
\* main ends, with the socket file wherever it is.
ChmodFails(d) ==
    /\ pc[d] = "chmod"
    /\ IF File(d) = None THEN Quit(d, "failed") /\ UNCHANGED stops
                         ELSE Quit(d, "broken") /\ Mishap
    /\ UNCHANGED path

\* refresh_stale returns; serve spawns the signal task and accepts.
Serve(d) ==
    /\ pc[d] = "startup"
    /\ Goto(d, "deaf")
    /\ UNCHANGED <<path, ended, stops>>

\* signal(SignalKind::terminate()) succeeds; where it does not, the process
\* stays deaf to SIGTERM and minds Ctrl-C only.
Install(d) ==
    /\ pc[d] = "deaf"
    /\ Goto(d, "serving")
    /\ UNCHANGED <<path, ended, stops>>

\* A signal that the task handles: SIGTERM, or Ctrl-C.
Signal(d) ==
    /\ Serving(d)
    /\ Mishap
    /\ Goto(d, "cleanup")
    /\ UNCHANGED <<path, ended>>

\* One that nothing handles (yet): the default action.
SignalEarly(d) ==
    /\ pc[d] \in Binding \cup {"startup", "deaf"}
    /\ Mishap
    /\ Quit(d, "interrupted")
    /\ UNCHANGED path

\* listener.accept().await? returns an error from main (also while the signal
\* task is on its way); or the removal in that task fails, which it ignores.
AcceptFails(d) ==
    /\ Serving(d) \/ pc[d] = "cleanup"
    /\ Mishap
    /\ Quit(d, "broken")
    /\ UNCHANGED path

\* Slip for the mutants: the signal task exits without the removal.
CleanupForgotten(d) ==
    /\ pc[d] = "cleanup"
    /\ Goto(d, "exiting")
    /\ UNCHANGED <<path, ended, stops>>

\* remove_file(sock_path), whosever socket is there.
Cleanup(d) ==
    /\ pc[d] = "cleanup"
    /\ path' = [path EXCEPT ![at[d]] = None]
    /\ Goto(d, "exiting")
    /\ UNCHANGED <<ended, stops>>

Exit(d) ==
    /\ pc[d] = "exiting"
    /\ Quit(d, "stopped")
    /\ UNCHANGED <<path, stops>>

\* SIGKILL, a panic in main, a power cut.
Kill(d) ==
    /\ pc[d] # "off"
    /\ Mishap
    /\ Quit(d, "killed")
    /\ UNCHANGED path

-----------------------------------------------------------------------------
BindStep(d) ==
    \/ Exists(d) \/ Refused(d) \/ Stale(d) \/ Remove(d) \/ RemoveFails(d)
    \/ Bind(d) \/ BindFails(d) \/ Chmod(d) \/ ChmodFails(d)

Run(d) == BindStep(d) \/ Serve(d) \/ Cleanup(d) \/ Exit(d)

\* What befalls a process from outside, or may.
Befalls(d) ==
    \/ Install(d) \/ Signal(d) \/ SignalEarly(d) \/ AcceptFails(d) \/ Kill(d)

Next == \E d \in Daemons : Start(d) \/ Run(d) \/ Befalls(d)

Spec == Init /\ [][Next]_vars

(* A process that can run does, and one that is not running is started     *)
(* again (by a person or a service manager).  Nobody owes it a handler.    *)
Fairness == \A d \in Daemons : WF_vars(Run(d)) /\ SF_vars(Start(d))

FairSpec == Spec /\ Fairness

-----------------------------------------------------------------------------
\* Each path names one process's socket or nothing; kills stay in bounds.
TypeOK ==
    /\ path \in [Places -> Daemons \cup {None}]
    /\ at \in [Daemons -> Places]
    /\ pc \in [Daemons -> Binding \cup {"off", "startup", "deaf", "serving", "cleanup",
                                     "exiting"}]
    /\ ended \in [Daemons -> {"never ran", "refused", "failed", "broken", "interrupted",
                              "stopped", "killed"}]
    /\ stops \in 0 .. MaxStops
    /\ serial \in BOOLEAN

\* Past bind, main believes it is the daemon: it sweeps and it serves.  One
\* that has removed its socket and is about to exit no longer counts.
IsDaemon(d) == pc[d] = "startup" \/ Serving(d)

(* At each place at most one process works as the daemon (main.rs 68-73,   *)
(* server.rs 29-33), whatever was killed or stopped before at whatever     *)
(* point, as long as processes do not go through bind there together.      *)
OneDaemon ==
    serial => \A d, e \in Daemons :
                  IsDaemon(d) /\ IsDaemon(e) /\ at[d] = at[e] => d = e

(* And clients reach it: the file at its socket path is its own.           *)
DaemonIsReachable == serial => \A d \in Daemons : IsDaemon(d) => File(d) = d

(* However processes are started together, a run that is refused, that     *)
(* does not get the socket, or that is stopped by a signal it handles      *)
(* leaves no socket file of its own (server.rs 107-126).  Whoever does was *)
(* killed or signalled before there was a handler, or has met a failing    *)
(* call: chmod, accept ("Accept clients until the process is stopped",     *)
(* server.rs 93), or the removal of the file itself.                       *)
TidyEndsLeaveNoDebris ==
    \A d \in Daemons :
        pc[d] = "off" /\ File(d) = d => ended[d] \in {"interrupted", "killed", "broken"}

(* A socket file left behind by a process that ended anywhere, in whatever *)
(* way, never keeps the next one out: starting again is enough, no manual  *)
(* cleanup (server.rs 55-58), and while processes are started some daemon  *)
(* serves.  (Not so for three that are restarted for ever and together:    *)
(* each may remove the socket that another has just bound.)                *)
KeepsServing == serial => []<>(\E d \in Daemons : Serving(d))
=============================================================================
