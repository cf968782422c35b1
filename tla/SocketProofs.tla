----------------------------- MODULE SocketProofs -----------------------------
(***************************************************************************)
(* Proofs about the claim on the socket: processes that go through bind    *)
(* one at a time for each socket path never make two daemons of that path, *)
(* wherever others end; and whoever leaves a socket file was killed, had   *)
(* no handler for its signal or has met a failing call.                    *)
(***************************************************************************)
EXTENDS Socket, TLAPS

\* The file at the socket path is this process's own.
Claims(d) == pc[d] \in {"chmod", "startup", "deaf", "serving", "cleanup"}

PathIsClaimed == \A d \in Daemons : Claims(d) => File(d) = d

OneBinds ==
    \A d, e \in Daemons :
        pc[d] \in Binding /\ pc[e] \in Binding /\ at[d] = at[e] => d = e

\* What the probe has found out stays true until the file is removed.
RemovesDebris ==
    \A d \in Daemons :
        pc[d] = "remove" => \A e \in Daemons : at[e] = at[d] => ~Claims(e)

IInv == TypeOK /\ PathIsClaimed /\ OneBinds /\ RemovesDebris

-----------------------------------------------------------------------------
LEMMA Bounds == MaxStops \in Nat /\ None \notin Daemons
BY SocketAssumption, Zenon

LEMMA TypeInductive == TypeOK /\ [Next]_vars => TypeOK'
<1> SUFFICES ASSUME TypeOK, [Next]_vars PROVE TypeOK'
  OBVIOUS
<1> USE Bounds DEF TypeOK, Goto, Quit, Binding
<1>0. ASSUME Mishap PROVE stops' \in 0 .. MaxStops
  <2>1. stops \in 0 .. MaxStops /\ stops < MaxStops /\ stops' = stops + 1
    BY <1>0 DEF Mishap
  <2> HIDE DEF TypeOK, Goto, Quit, Binding
  <2> QED BY <2>1
<1>1. ASSUME NEW d \in Daemons, Start(d) PROVE TypeOK'
  BY <1>1 DEF Start
<1>2. ASSUME NEW d \in Daemons, Exists(d) \/ Refused(d) \/ Stale(d) \/ Remove(d) PROVE TypeOK'
  BY <1>2 DEF Exists, Refused, Stale, Remove
<1>7. ASSUME NEW d \in Daemons, RemoveFails(d) PROVE TypeOK'
  BY <1>0, <1>7 DEF RemoveFails
<1>3. ASSUME NEW d \in Daemons, Bind(d) \/ BindFails(d) \/ Chmod(d) \/ ChmodFails(d) PROVE TypeOK'
  <2>1. CASE Bind(d)
    BY <2>1 DEF Bind
  <2>2. CASE BindFails(d)
    BY <1>0, <2>2 DEF BindFails
  <2>3. CASE Chmod(d)
    BY <2>3 DEF Chmod
  <2>4. CASE ChmodFails(d)
    BY <1>0, <2>4 DEF ChmodFails
  <2> QED BY <1>3, <2>1, <2>2, <2>3, <2>4
<1>4. ASSUME NEW d \in Daemons, Serve(d) \/ Cleanup(d) \/ Exit(d) PROVE TypeOK'
  BY <1>4 DEF Serve, Cleanup, Exit
<1>5. ASSUME NEW d \in Daemons, Befalls(d) PROVE TypeOK'
  <2>2. CASE Install(d)
    BY <2>2 DEF Install
  <2>3. CASE Signal(d)
    BY <1>0, <2>3 DEF Signal
  <2>4. CASE SignalEarly(d)
    BY <1>0, <2>4 DEF SignalEarly
  <2>5. CASE AcceptFails(d)
    BY <1>0, <2>5 DEF AcceptFails
  <2>6. CASE Kill(d)
    BY <1>0, <2>6 DEF Kill
  <2> QED BY <1>5, <2>2, <2>3, <2>4, <2>5, <2>6 DEF Befalls
<1>6. CASE UNCHANGED vars
  BY <1>6 DEF vars
<1> QED BY <1>1, <1>2, <1>3, <1>4, <1>5, <1>6, <1>7 DEF Next, Run, BindStep

LEMMA Initially == Init => IInv
<1> SUFFICES ASSUME Init PROVE IInv
  OBVIOUS
<1>0. stops \in 0 .. MaxStops
  <2>1. stops = 0
    BY DEF Init
  <2> QED BY <2>1, Bounds
<1>1. TypeOK
  BY <1>0 DEF Init, TypeOK
<1>2. \A d \in Daemons : pc[d] = "off"
  BY DEF Init
<1> QED BY <1>1, <1>2 DEF IInv, PathIsClaimed, OneBinds, RemovesDebris, Claims, Binding

\* The moves that leave the path alone: a process changes label, and what
\* the new label entitles it to, the old one did already.
LEMMA MoveKeeps ==
    ASSUME IInv, TypeOK', NEW d \in Daemons, NEW label, Goto(d, label), UNCHANGED path,
           label \in Binding => pc[d] \in Binding,
           label \in {"chmod", "startup", "deaf", "serving", "cleanup"} => Claims(d),
           label = "remove" => \A e \in Daemons : at[e] = at[d] => ~Claims(e)
    PROVE  IInv'
<1>1. /\ \A e \in Daemons : pc'[e] = IF e = d THEN label ELSE pc[e]
      /\ at' = at
  BY DEF IInv, TypeOK, Goto
<1>2. \A e \in Daemons : Claims(e)' => Claims(e)
  BY <1>1 DEF Claims
<1>3. PathIsClaimed'
  BY <1>1, <1>2 DEF IInv, PathIsClaimed, File
<1>4. OneBinds'
  BY <1>1 DEF IInv, OneBinds
<1>5. RemovesDebris'
  BY <1>1, <1>2 DEF IInv, RemovesDebris
<1> QED BY <1>3, <1>4, <1>5 DEF IInv

LEMMA QuitKeeps ==
    ASSUME IInv, TypeOK', NEW d \in Daemons, NEW how, Quit(d, how), UNCHANGED path
    PROVE  IInv'
BY MoveKeeps DEF Quit, Binding

\* A process starts where nobody goes through bind, and claims nothing yet.
LEMMA StartKeeps ==
    ASSUME serial, IInv, TypeOK', NEW d \in Daemons, Start(d)
    PROVE  IInv'
<1>1. PICK p \in Places :
        /\ \A e \in Daemons : pc[e] \in Binding => at[e] # p
        /\ at' = [at EXCEPT ![d] = p]
  BY DEF Start
<1>2. \A e \in Daemons : /\ pc'[e] = IF e = d THEN "exists" ELSE pc[e]
                         /\ at'[e] = IF e = d THEN p ELSE at[e]
  BY <1>1 DEF IInv, TypeOK, Start
<1>3. \A e \in Daemons : Claims(e)' => Claims(e) /\ e # d
  BY <1>2 DEF Claims
<1>4. PathIsClaimed'
  BY <1>2, <1>3 DEF IInv, PathIsClaimed, File, Start
<1>5. OneBinds'
  BY <1>1, <1>2 DEF IInv, OneBinds
<1>6. RemovesDebris'
  <2> SUFFICES ASSUME NEW x \in Daemons, pc'[x] = "remove",
                      NEW e \in Daemons, at'[e] = at'[x], Claims(e)'
               PROVE  FALSE
    BY DEF RemovesDebris
  <2>1. x # d /\ e # d
    BY <1>2, <1>3
  <2> QED BY <1>2, <1>3, <2>1 DEF IInv, RemovesDebris
<1> QED BY <1>4, <1>5, <1>6 DEF IInv

LEMMA BindSteps ==
    ASSUME serial, IInv, TypeOK', NEW d \in Daemons, BindStep(d)
    PROVE  IInv'
<1>2. CASE Exists(d)
  BY <1>2, MoveKeeps DEF Exists, Binding
<1>3. CASE Stale(d)
  <2>1. \A e \in Daemons : at[e] = at[d] => ~Claims(e)
    BY <1>3 DEF IInv, PathIsClaimed, Claims, Stale, Answers, Listening, File
  <2> QED BY <1>3, <2>1, MoveKeeps DEF Stale, Binding
<1>4. CASE Remove(d)
  <2>1. /\ \A e \in Daemons : pc'[e] = IF e = d THEN "bind" ELSE pc[e]
        /\ at' = at
    BY <1>4 DEF IInv, TypeOK, Remove, Goto
  <2>2. \A e \in Daemons : Claims(e)' => Claims(e) /\ at[e] # at[d]
    BY <1>4, <2>1 DEF IInv, RemovesDebris, Claims, Remove
  <2>3. \A p \in Places : p # at[d] => path'[p] = path[p]
    BY <1>4 DEF IInv, TypeOK, Remove
  <2>4. PathIsClaimed'
    BY <2>1, <2>2, <2>3 DEF IInv, TypeOK, PathIsClaimed, File
  <2>5. OneBinds'
    BY <1>4, <2>1 DEF IInv, OneBinds, Remove, Binding
  <2>6. RemovesDebris'
    BY <2>1, <2>2 DEF IInv, RemovesDebris
  <2> QED BY <2>4, <2>5, <2>6 DEF IInv
<1>5. CASE Bind(d)
  <2>1. /\ \A e \in Daemons : pc'[e] = IF e = d THEN "chmod" ELSE pc[e]
        /\ at' = at
    BY <1>5 DEF IInv, TypeOK, Bind, Goto
  <2>2. \A e \in Daemons : at[e] = at[d] => ~Claims(e)
    BY <1>5, Bounds DEF IInv, PathIsClaimed, File, Bind
  <2>3. \A p \in Places : path'[p] = IF p = at[d] THEN d ELSE path[p]
    BY <1>5 DEF IInv, TypeOK, Bind
  <2>4. PathIsClaimed'
    BY <2>1, <2>2, <2>3 DEF IInv, TypeOK, PathIsClaimed, Claims, File
  <2>5. OneBinds'
    BY <1>5, <2>1 DEF IInv, OneBinds, Bind, Binding
  <2>6. \A e \in Daemons : pc'[e] = "remove" => at[e] # at[d]
    BY <1>5, <2>1 DEF IInv, OneBinds, Bind, Binding
  <2>7. RemovesDebris'
    BY <2>1, <2>6 DEF IInv, RemovesDebris, Claims
  <2> QED BY <2>4, <2>5, <2>7 DEF IInv
<1>8. CASE RemoveFails(d)
  BY <1>8, MoveKeeps DEF RemoveFails, Binding
<1>6. CASE Chmod(d)
  BY <1>6, MoveKeeps DEF Chmod, Claims, Binding
<1>7. CASE Refused(d) \/ BindFails(d) \/ ChmodFails(d)
  BY <1>7, QuitKeeps DEF Refused, BindFails, ChmodFails
<1> QED BY <1>2, <1>3, <1>4, <1>5, <1>6, <1>7, <1>8 DEF BindStep

LEMMA LaterSteps ==
    ASSUME IInv, TypeOK', NEW d \in Daemons, Serve(d) \/ Cleanup(d) \/ Exit(d) \/ Befalls(d)
    PROVE  IInv'
<1>1. CASE Serve(d) \/ Install(d)
  BY <1>1, MoveKeeps DEF Serve, Install, Claims, Binding
<1>2. CASE Signal(d)
  BY <1>2, MoveKeeps DEF Signal, Serving, Claims, Binding
<1>3. CASE Cleanup(d)
  <2>1. /\ \A e \in Daemons : pc'[e] = IF e = d THEN "exiting" ELSE pc[e]
        /\ at' = at
    BY <1>3 DEF IInv, TypeOK, Cleanup, Goto
  <2>2. \A e \in Daemons : Claims(e) /\ at[e] = at[d] => e = d
    BY <1>3 DEF IInv, PathIsClaimed, Claims, Cleanup, File
  <2>3. \A e \in Daemons : Claims(e)' => Claims(e) /\ at[e] # at[d]
    BY <2>1, <2>2 DEF Claims
  <2>4. \A p \in Places : p # at[d] => path'[p] = path[p]
    BY <1>3 DEF IInv, TypeOK, Cleanup
  <2>5. PathIsClaimed'
    BY <2>1, <2>3, <2>4 DEF IInv, TypeOK, PathIsClaimed, File
  <2>6. OneBinds'
    BY <2>1 DEF IInv, OneBinds, Binding
  <2>7. RemovesDebris'
    BY <2>1, <2>3 DEF IInv, RemovesDebris
  <2> QED BY <2>5, <2>6, <2>7 DEF IInv
<1>4. CASE Exit(d) \/ SignalEarly(d) \/ AcceptFails(d) \/ Kill(d)
  BY <1>4, QuitKeeps DEF Exit, SignalEarly, AcceptFails, Kill
<1> QED BY <1>1, <1>2, <1>3, <1>4 DEF Befalls

LEMMA Inductive == serial /\ IInv /\ [Next]_vars => IInv'
<1> SUFFICES ASSUME serial, IInv, [Next]_vars PROVE IInv'
  OBVIOUS
<1>1. TypeOK'
  BY TypeInductive DEF IInv
<1>2. CASE Next
  BY <1>1, <1>2, StartKeeps, BindSteps, LaterSteps DEF Next, Run
<1>3. CASE UNCHANGED vars
  BY <1>1, <1>3 DEF IInv, PathIsClaimed, OneBinds, RemovesDebris, Claims, File, vars
<1> QED BY <1>2, <1>3

\* In a behaviour where they do not, nothing is claimed but the types.
ClaimsHold == TypeOK /\ (serial => IInv)

LEMMA ClaimsInductive == ClaimsHold /\ [Next]_vars => ClaimsHold'
<1>1. [Next]_vars => serial' = serial
  BY DEF Next, Start, Run, BindStep, Exists, Refused, Stale, Remove, Bind, BindFails, Chmod,
         ChmodFails, Serve, Cleanup, Exit, Befalls, RemoveFails, Install, Signal, SignalEarly,
         AcceptFails, Kill, Goto, Quit, vars
<1> QED BY <1>1, Inductive, TypeInductive DEF ClaimsHold

LEMMA ClaimsAlways == Spec => []ClaimsHold
<1>1. Init => ClaimsHold
  BY Initially DEF ClaimsHold, IInv
<1> QED BY <1>1, ClaimsInductive, PTL DEF Spec

(* Processes that go through bind one at a time at each path never make    *)
(* two daemons of it, for any number of processes, paths, kills and        *)
(* signals (server.rs 34-91).                                              *)
THEOREM NeverTwoDaemons == Spec => []OneDaemon
<1>1. ClaimsHold => OneDaemon
  BY DEF ClaimsHold, IInv, PathIsClaimed, File, Claims, OneDaemon, IsDaemon, Serving
<1> QED BY ClaimsAlways, <1>1, PTL

(* And the daemon is always reached through the file at its socket path:   *)
(* no other process removes or replaces it while it serves.                *)
THEOREM AlwaysReachable == Spec => []DaemonIsReachable
<1>1. ClaimsHold => DaemonIsReachable
  BY DEF ClaimsHold, IInv, PathIsClaimed, Claims, DaemonIsReachable, IsDaemon, Serving
<1> QED BY ClaimsAlways, <1>1, PTL

-----------------------------------------------------------------------------
\* Where a process is about to exit, or has left in good order.
Tidy(d) ==
    \/ pc[d] = "exiting"
    \/ pc[d] = "off" /\ ended[d] \notin {"interrupted", "killed", "broken"}

TidyLeavesNone == \A d \in Daemons : Tidy(d) => File(d) # d

DebrisInv == TypeOK /\ TidyLeavesNone

\* No step of one process puts another's socket at a path.
LEMMA OnlyItsOwn ==
    ASSUME TypeOK, NEW d \in Daemons, Start(d) \/ Run(d) \/ Befalls(d),
           NEW e \in Daemons, e # d
    PROVE  (Tidy(e)' => Tidy(e)) /\ (File(e)' = e => File(e) = e)
<1>1. pc'[e] = pc[e] /\ ended'[e] = ended[e] /\ at'[e] = at[e]
  BY DEF TypeOK, Start, Run, BindStep, Exists, Refused, Stale, Remove, Bind, BindFails, Chmod,
         ChmodFails, Serve, Cleanup, Exit, Befalls, RemoveFails, Install, Signal, SignalEarly,
         AcceptFails, Kill, Goto, Quit
<1>2. \A p \in Places : path'[p] \in {path[p], None, d}
  BY DEF TypeOK, Start, Run, BindStep, Exists, Refused, Stale, Remove, Bind, BindFails, Chmod,
         ChmodFails, Serve, Cleanup, Exit, Befalls, RemoveFails, Install, Signal, SignalEarly,
         AcceptFails, Kill, Goto, Quit
<1>3. at[e] \in Places /\ None # e
  BY Bounds DEF TypeOK
<1> QED BY <1>1, <1>2, <1>3 DEF Tidy, File

\* And its own is gone by the time it exits in good order.
LEMMA LeavesTidily ==
    ASSUME DebrisInv, NEW d \in Daemons, Start(d) \/ Run(d) \/ Befalls(d),
           Tidy(d)'
    PROVE  File(d)' # d
<1> USE Bounds DEF DebrisInv, TypeOK, TidyLeavesNone, Tidy, File, Goto, Quit
<1>1. CASE Start(d)
  BY <1>1 DEF Start
<1>2. CASE Exists(d)
  BY <1>2 DEF Exists
<1>3. CASE Refused(d)
  BY <1>3 DEF Refused, Answers, Listening
<1>4. CASE Stale(d)
  BY <1>4 DEF Stale
<1>5. CASE Remove(d)
  BY <1>5 DEF Remove
<1>6. CASE Bind(d) \/ BindFails(d)
  BY <1>6 DEF Bind, BindFails
<1>7. CASE Chmod(d)
  BY <1>7 DEF Chmod
<1>12. CASE ChmodFails(d)
  BY <1>12 DEF ChmodFails
<1>8. CASE Serve(d) \/ Install(d) \/ Signal(d) \/ RemoveFails(d)
  BY <1>8 DEF Serve, Install, Signal, RemoveFails
<1>9. CASE Cleanup(d)
  BY <1>9 DEF Cleanup
<1>10. CASE Exit(d)
  BY <1>10 DEF Exit
<1>11. CASE SignalEarly(d) \/ AcceptFails(d) \/ Kill(d)
  BY <1>11 DEF SignalEarly, AcceptFails, Kill
<1> QED BY <1>1, <1>2, <1>3, <1>4, <1>5, <1>6, <1>7, <1>8, <1>9, <1>10, <1>11, <1>12
    DEF Run, BindStep, Befalls

(* However they interleave in bind, a run that is refused, does not get    *)
(* the socket or is stopped by a signal it handles leaves no socket file   *)
(* of its own: whoever does was killed, had no handler for its signal, or  *)
(* has met a failing call (server.rs 54-91, 107-129).                      *)
THEOREM EndsAreTidy == Spec => []TidyEndsLeaveNoDebris
<1>1. Init => DebrisInv
  <2> SUFFICES ASSUME Init PROVE DebrisInv
    OBVIOUS
  <2>1. TypeOK
    BY Initially DEF IInv
  <2>2. \A d \in Daemons : File(d) = None
    BY <2>1 DEF Init, TypeOK, File
  <2> QED BY <2>1, <2>2, Bounds DEF DebrisInv, TidyLeavesNone
<1>2. DebrisInv /\ [Next]_vars => DebrisInv'
  <2> SUFFICES ASSUME DebrisInv, [Next]_vars PROVE DebrisInv'
    OBVIOUS
  <2>1. TypeOK'
    BY TypeInductive DEF DebrisInv
  <2>2. ASSUME NEW d \in Daemons, Start(d) \/ Run(d) \/ Befalls(d)
        PROVE  TidyLeavesNone'
    <3>1. Tidy(d)' => File(d)' # d
      BY <2>2, LeavesTidily
    <3>2. ASSUME NEW e \in Daemons, e # d, Tidy(e)' PROVE File(e)' # e
      <4>1. TypeOK
        BY DEF DebrisInv
      <4>2. (Tidy(e)' => Tidy(e)) /\ (File(e)' = e => File(e) = e)
        BY <2>2, <3>2, <4>1, OnlyItsOwn
      <4> QED BY <3>2, <4>2 DEF DebrisInv, TidyLeavesNone
    <3> QED BY <3>1, <3>2 DEF TidyLeavesNone
  <2>3. CASE UNCHANGED vars
    BY <2>1, <2>3 DEF DebrisInv, TidyLeavesNone, Tidy, File, vars
  <2> QED BY <2>1, <2>2, <2>3 DEF DebrisInv, Next
<1>3. DebrisInv => TidyEndsLeaveNoDebris
  BY DEF DebrisInv, TidyLeavesNone, Tidy, TidyEndsLeaveNoDebris
<1> QED BY <1>1, <1>2, <1>3, PTL DEF Spec
=============================================================================
