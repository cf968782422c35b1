-------------------------- MODULE AlphaVantageProofs --------------------------
(***************************************************************************)
(* Proofs about the rate limiter, and about fetch behind it: releases are  *)
(* an interval apart whatever the number of callers, and so are arrivals   *)
(* at the provider by the published time, as long as the headroom covers   *)
(* the delay; a daemon started again costs one early request.              *)
(***************************************************************************)
EXTENDS AlphaVantage, Induction, FiniteSetTheorems

(* The limiter of one daemon.                                              *)

\* Only the owner of the guard sleeps, and not for too short a time.
SleeperOwns ==
    \A c \in Callers : pc[c] = "asleep" => Owns(c) /\ left[c] >= Interval - age

IInv == TypeOK /\ SleeperOwns

\* What holds besides while the headroom covers the delay: a request has
\* arrived before the next is released.
InFlight ==
    /\ \A c \in Callers : pc[c] = "released" => flight[c] = age /\ gap = Published
    /\ \A c, d \in Callers : pc[c] = "released" /\ pc[d] = "released" => c = d
    /\ (\A c \in Callers : pc[c] # "released") => gap = Published \/ gap >= age - Delay

Released(c) == pc'[c] = "released" /\ pc[c] # "released"

-----------------------------------------------------------------------------
LEMMA IntervalType == Interval \in Nat /\ Published \in Nat
<1>1. Rpm \in Nat
  BY ThrottleAssumption DEF Rpm
<1>2. ASSUME Rpm # 0 PROVE (Minute * 11) \div (Rpm * 10) \in Nat
  <2> DEFINE n == Minute * 11
             d == Rpm * 10
  <2>1. n \in Nat /\ d \in Nat \ {0}
    BY <1>1, <1>2, ThrottleAssumption
  <2> HIDE DEF n, d
  <2>2. n \div d \in Nat
    BY <2>1
  <2> QED BY <2>2 DEF n, d
<1>3. ASSUME Rpm # 0 PROVE Minute \div Rpm \in Nat
  BY <1>1, <1>3, ThrottleAssumption
<1> QED BY <1>2, <1>3 DEF Interval, Published

(* Type correctness and the discipline of the guard, together because the  *)
(* bounds on sleeping times need both (mod.rs 162-178).                    *)
LEMMA Initially == Init => IInv
BY IntervalType, ThrottleAssumption DEF Init, IInv, TypeOK, SleeperOwns, Owns

LEMMA ReleaseKeeps ==
    ASSUME IInv, NEW c \in Callers, Owns(c), Release(c), UNCHANGED <<left, gap>>
    PROVE  IInv'
<1> USE IntervalType, ThrottleAssumption
<1>1. TypeOK'
  BY DEF IInv, TypeOK, Release, Owns
<1>2. SleeperOwns'
  <2> SUFFICES ASSUME NEW d \in Callers, pc'[d] = "asleep" PROVE FALSE
    BY DEF SleeperOwns
  <2>1. d # c /\ pc[d] = "asleep"
    BY DEF IInv, TypeOK, Release
  <2>2. Owns(d)
    BY <2>1 DEF IInv, SleeperOwns
  <2> QED BY <2>1, <2>2 DEF Owns
<1> QED BY <1>1, <1>2 DEF IInv

LEMMA Inductive == IInv /\ [Next]_vars => IInv'
<1> SUFFICES ASSUME IInv, [Next]_vars PROVE IInv'
  OBVIOUS
<1> USE IntervalType, ThrottleAssumption
<1>1. ASSUME NEW c \in Callers, Call(c) PROVE IInv'
  <2>1. TypeOK'
    BY <1>1 DEF IInv, TypeOK, Call
  <2>2. SleeperOwns'
    <3> SUFFICES ASSUME NEW d \in Callers, pc'[d] = "asleep"
                 PROVE  Owns(d)' /\ left'[d] >= Interval - age'
      BY DEF SleeperOwns
    <3>1. pc[d] = "asleep"
      BY <1>1 DEF IInv, TypeOK, Call
    <3>2. Owns(d) /\ left[d] >= Interval - age
      BY <3>1 DEF IInv, SleeperOwns
    <3>3. Head(queue') = Head(queue) /\ queue' # <<>>
      <4>1. queue \in Seq(Callers) /\ queue # <<>> /\ queue' = Append(queue, c)
        BY <3>2, <1>1 DEF IInv, TypeOK, Call, Owns
      <4> QED BY <4>1, HeadTailAppend, AppendProperties
    <3> QED BY <3>2, <3>3, <1>1 DEF Call, Owns
  <2> QED BY <2>1, <2>2 DEF IInv
<1>2. ASSUME NEW c \in Callers, PassThrough(c) PROVE IInv'
  BY <1>2, ReleaseKeeps DEF PassThrough
<1>3. ASSUME NEW c \in Callers, Sleep(c) PROVE IInv'
  BY <1>3 DEF IInv, TypeOK, SleeperOwns, Owns, Sleep
<1>4. ASSUME NEW c \in Callers, Wake(c) PROVE IInv'
  BY <1>4, ReleaseKeeps DEF Wake
<1>5. ASSUME NEW c \in Callers, Arrive(c) PROVE IInv'
  BY <1>5 DEF IInv, TypeOK, SleeperOwns, Owns, Arrive
<1>6. ASSUME Tick PROVE IInv'
  <2>1. TypeOK'
    BY <1>6 DEF IInv, TypeOK, Tick, AtMost
  <2>2. SleeperOwns'
    BY <1>6 DEF IInv, TypeOK, SleeperOwns, Owns, Tick, AtMost
  <2> QED BY <2>1, <2>2 DEF IInv
<1>7. CASE UNCHANGED vars
  BY <1>7 DEF IInv, TypeOK, SleeperOwns, Owns, vars
<1> QED BY <1>1, <1>2, <1>3, <1>4, <1>5, <1>6, <1>7 DEF Next

(* Types hold in every reachable state (mod.rs 146-149).                   *)
THEOREM TypeCorrect == Spec => []TypeOK
<1>1. IInv => TypeOK
  BY DEF IInv
<1> QED BY Initially, Inductive, <1>1, PTL DEF Spec

(* A release happens only once the interval since the last one is over,    *)
(* for any number of callers and any scheduling of them (mod.rs 134-145).  *)
THEOREM ReleasesAreSpaced == Spec => ReleasesSpaced
<1> USE IntervalType, ThrottleAssumption
<1>1. ASSUME IInv, Next, NEW c \in Callers, Released(c) PROVE age >= Interval
  <2>1. ASSUME NEW d \in Callers, Wake(d) PROVE age >= Interval
    BY <1>1, <2>1 DEF IInv, TypeOK, SleeperOwns, Wake
  <2>2. ASSUME NEW d \in Callers, PassThrough(d) PROVE age >= Interval
    BY <2>2 DEF PassThrough
  <2>3. ASSUME NEW d \in Callers, Call(d) \/ Sleep(d) \/ Arrive(d) PROVE FALSE
    BY <1>1, <2>3 DEF IInv, TypeOK, Released, Call, Sleep, Arrive
  <2>4. ~Tick
    BY <1>1 DEF Released, Tick
  <2> QED BY <1>1, <2>1, <2>2, <2>3, <2>4 DEF Next
<1>2. IInv /\ [Next]_vars =>
         [\A c \in Callers : pc'[c] = "released" /\ pc[c] # "released" => age >= Interval]_vars
  BY <1>1 DEF Released
<1> QED BY Initially, Inductive, <1>2, PTL DEF Spec, ReleasesSpaced

-----------------------------------------------------------------------------
(* A plan that publishes a rate, and headroom that covers the delay.       *)
Headroom == Published > 0 /\ Delay + Published <= Interval

LEMMA InFlightInit == Init => InFlight
BY IntervalType, ThrottleAssumption DEF Init, InFlight

LEMMA InFlightRelease ==
    ASSUME IInv, InFlight, Headroom, NEW c \in Callers, Release(c), age >= Interval,
           UNCHANGED <<left, gap>>
    PROVE  InFlight'
<1> USE IntervalType, ThrottleAssumption
<1>1. ASSUME NEW d \in Callers PROVE pc[d] # "released"
  BY DEF IInv, TypeOK, InFlight, Headroom
<1>2. \A d \in Callers : pc'[d] = "released" => d = c
  BY <1>1 DEF IInv, TypeOK, Release
<1>3. gap = Published
  BY <1>1 DEF IInv, TypeOK, InFlight, Headroom
<1>4. flight'[c] = age' /\ pc'[c] = "released"
  BY DEF IInv, TypeOK, Release
<1> QED BY <1>2, <1>3, <1>4 DEF InFlight

LEMMA InFlightStep == Headroom /\ IInv /\ InFlight /\ [Next]_vars => InFlight'
<1> SUFFICES ASSUME Headroom, IInv, InFlight, [Next]_vars PROVE InFlight'
  OBVIOUS
<1> USE IntervalType, ThrottleAssumption
<1>1. ASSUME NEW c \in Callers, Call(c) PROVE InFlight'
  BY <1>1 DEF IInv, TypeOK, InFlight, Call
<1>2. ASSUME NEW c \in Callers, PassThrough(c) PROVE InFlight'
  BY <1>2, InFlightRelease DEF PassThrough
<1>3. ASSUME NEW c \in Callers, Sleep(c) PROVE InFlight'
  BY <1>3 DEF IInv, TypeOK, InFlight, Sleep
<1>4. ASSUME NEW c \in Callers, Wake(c) PROVE InFlight'
  <2>1. age >= Interval
    BY <1>4 DEF IInv, TypeOK, SleeperOwns, Wake
  <2> QED BY <1>4, <2>1, InFlightRelease DEF Wake
<1>5. ASSUME NEW c \in Callers, Arrive(c) PROVE InFlight'
  <2>1. age <= Delay
    BY <1>5 DEF IInv, TypeOK, InFlight, Arrive
  <2>2. \A d \in Callers : pc'[d] # "released"
    BY <1>5 DEF IInv, TypeOK, InFlight, Arrive
  <2> QED BY <1>5, <2>1, <2>2 DEF IInv, TypeOK, InFlight, Arrive
<1>6. ASSUME Tick PROVE InFlight'
  <2>1. CASE \E c \in Callers : pc[c] = "released"
    <3>1. \A c \in Callers : pc[c] = "released" => flight'[c] = age'
      BY <1>6 DEF IInv, TypeOK, InFlight, Headroom, Tick, AtMost
    <3>2. gap' = Published
      BY <1>6, <2>1 DEF IInv, TypeOK, InFlight, Tick, AtMost
    <3> QED BY <1>6, <2>1, <3>1, <3>2 DEF InFlight, Tick
  <2>2. CASE \A c \in Callers : pc[c] # "released"
    BY <1>6, <2>2 DEF IInv, TypeOK, InFlight, Tick, AtMost
  <2> QED BY <2>1, <2>2
<1>7. CASE UNCHANGED vars
  BY <1>7 DEF InFlight, vars
<1> QED BY <1>1, <1>2, <1>3, <1>4, <1>5, <1>6, <1>7 DEF Next

(* No two requests reach the provider closer than its published rate, for  *)
(* any number of callers, as long as JITTER_MARGIN covers the delay        *)
(* between acquire and arrival (alphavantage.rs 33-37, 172-191).           *)
THEOREM ArrivalsAreSpaced == Headroom => (Spec => ArrivalsSpaced)
<1> SUFFICES ASSUME Headroom PROVE Spec => ArrivalsSpaced
  OBVIOUS
<1> USE IntervalType, ThrottleAssumption
<1>1. ASSUME InFlight, NEW c \in Callers, pc[c] = "released" PROVE gap >= Published
  BY <1>1 DEF InFlight
<1>2. InFlight /\ [Next]_vars =>
         [\A c \in Callers : pc[c] = "released" /\ pc'[c] # "released" => gap >= Published]_vars
  BY <1>1
<1>3. IInv /\ InFlight /\ [Next]_vars => InFlight'
  BY InFlightStep
<1> QED BY Initially, Inductive, InFlightInit, <1>2, <1>3, PTL DEF Spec, ArrivalsSpaced

-----------------------------------------------------------------------------
(* Daemons that die and are started again.                                 *)

Requests == [life : Nat, flight : 0 .. Delay]

AirType ==
    /\ restarts \in Nat
    /\ early \in Nat
    /\ since \in 0 .. Published
    /\ wire \subseteq Requests /\ IsFiniteSet(wire)

SomeReleased == \E c \in Callers : pc[c] = "released"

\* Requests on their way, from whichever daemon.
Flying == Cardinality(wire) + (IF SomeReleased THEN 1 ELSE 0)

\* The next arrival is in time.
OnTime == IF since = Published THEN 1 ELSE 0

\* A daemon that has released nothing yet: its first request may be early too.
Fresh == ~SomeReleased /\ early + Cardinality(wire) + 1 - OnTime <= restarts

\* One that has: it waits until the requests of those before it have arrived.
Spent ==
    /\ \A q \in wire : q.flight >= age
    /\ Flying >= 1 => early + Flying - OnTime <= restarts
    /\ Flying = 0 =>
           /\ early <= restarts
           /\ since = Published \/ since >= age - Delay \/ early + 1 <= restarts

Budget == AirType /\ (Fresh \/ Spent)

-----------------------------------------------------------------------------
(* A step of the daemon is one of the limiter's, or begins its next life.  *)
LEMMA StepsOrRestarts == [AVNext]_avars => [Next]_vars \/ Init'
BY DEF AVNext, avars, Pace, Fetched, Orphan, TimePasses, Restart, Next, Init

LEMMA LifeKeeps == IInv /\ [AVNext]_avars => IInv'
<1>1. Init' => IInv'
  BY Initially, PTL
<1> QED BY <1>1, StepsOrRestarts, Inductive

(* Types of the limiter hold in every life (mod.rs 146-149).               *)
THEOREM AVTypeCorrect == AVSpec => []TypeOK
<1>1. AVInit => IInv
  BY Initially DEF AVInit
<1>2. IInv => TypeOK
  BY DEF IInv
<1> QED BY <1>1, <1>2, LifeKeeps, PTL DEF AVSpec

(* A new daemon paces as well as the one it replaces did (mod.rs 134-145). *)
THEOREM AVReleasesSpaced == AVSpec => ReleasesSpaced
<1>1. AVInit => Init
  BY DEF AVInit
<1>2. ASSUME IInv, [AVNext]_avars, NEW c \in Callers, Released(c) PROVE age >= Interval
  <2>1. [Next]_vars
    BY <1>2, StepsOrRestarts DEF Released, Init
  <2>2. Next
    BY <1>2, <2>1 DEF Released, vars
  <2>3. ASSUME NEW d \in Callers, Wake(d) PROVE age >= Interval
    BY IntervalType, <1>2, <2>3 DEF IInv, TypeOK, SleeperOwns, Wake
  <2>4. ASSUME NEW d \in Callers, PassThrough(d) PROVE age >= Interval
    BY <2>4 DEF PassThrough
  <2>5. ASSUME NEW d \in Callers, Call(d) \/ Sleep(d) \/ Arrive(d) PROVE FALSE
    BY <1>2, <2>5 DEF IInv, TypeOK, Released, Call, Sleep, Arrive
  <2>6. ~Tick
    BY <1>2 DEF Released, Tick
  <2> QED BY <2>2, <2>3, <2>4, <2>5, <2>6 DEF Next
<1>3. IInv /\ [AVNext]_avars =>
         [\A c \in Callers : pc'[c] = "released" /\ pc[c] # "released" => age >= Interval]_vars
  BY <1>2 DEF Released
<1> QED BY <1>1, <1>3, Initially, LifeKeeps, PTL DEF AVSpec, ReleasesSpaced

(* Within a life, arrivals keep the published rate (alphavantage.rs        *)
(* 33-37).                                                                 *)
LEMMA InFlightKeeps == Headroom /\ IInv /\ InFlight /\ [AVNext]_avars => InFlight'
<1>1. Init' => InFlight'
  BY InFlightInit, PTL
<1> QED BY <1>1, StepsOrRestarts, InFlightStep

THEOREM AVArrivalsSpaced == Headroom => (AVSpec => ArrivalsSpaced)
<1> SUFFICES ASSUME Headroom PROVE AVSpec => ArrivalsSpaced
  OBVIOUS
<1>1. AVInit => IInv /\ InFlight
  BY Initially, InFlightInit DEF AVInit
<1>2. IInv /\ InFlight /\ [AVNext]_avars => IInv' /\ InFlight'
  BY LifeKeeps, InFlightKeeps
<1>3. InFlight /\ [AVNext]_avars =>
         [\A c \in Callers : pc[c] = "released" /\ pc'[c] # "released" => gap >= Published]_vars
  BY IntervalType DEF InFlight
<1> QED BY <1>1, <1>2, <1>3, PTL DEF AVSpec, ArrivalsSpaced

-----------------------------------------------------------------------------
(* The budget of early arrivals.                                           *)

LEMMA BudgetInit == Headroom /\ AVInit => Budget
<1> SUFFICES ASSUME Headroom, AVInit PROVE Budget
  OBVIOUS
<1>1. Cardinality({}) = 0 /\ IsFiniteSet({})
  BY FS_EmptySet
<1>2. ~SomeReleased
  BY DEF AVInit, Init, SomeReleased
<1> QED BY <1>1, <1>2, IntervalType DEF AVInit, Budget, AirType, Fresh, OnTime

LEMMA WireSize == AirType => Cardinality(wire) \in Nat
BY FS_CardinalityType DEF AirType

(* A caller starts, sleeps or is released: only the last adds a request.   *)
LEMMA PaceKeeps ==
    ASSUME Headroom, IInv, InFlight, Budget, Pace
    PROVE  Budget'
<1> USE IntervalType, ThrottleAssumption, WireSize
<1>1. AirType' /\ UNCHANGED <<wire, since, early, restarts>>
  BY DEF Pace, provider, Budget, AirType
<1>2. ASSUME NEW c \in Callers, Call(c) \/ Sleep(c) PROVE Budget'
  <2>1. SomeReleased' = SomeReleased /\ age' = age
    BY <1>2 DEF IInv, TypeOK, SomeReleased, Call, Sleep
  <2> QED BY <1>1, <2>1 DEF Budget, Fresh, Spent, Flying, OnTime
<1>3. ASSUME NEW c \in Callers, PassThrough(c) \/ Wake(c) PROVE Budget'
  <2>1. age >= Interval
    BY <1>3 DEF IInv, TypeOK, SleeperOwns, PassThrough, Wake
  <2>2. ~SomeReleased
    BY <2>1 DEF IInv, TypeOK, InFlight, Headroom, SomeReleased
  <2>3. SomeReleased' /\ age' = 0
    BY <1>3 DEF IInv, TypeOK, SomeReleased, PassThrough, Wake, Release
  <2>4. \A q \in wire' : q.flight >= age'
    BY <1>1, <2>3 DEF AirType, Requests
  <2>5. CASE Fresh
    BY <1>1, <2>2, <2>3, <2>4, <2>5 DEF Budget, AirType, Fresh, Spent, Flying, OnTime
  <2>6. CASE Spent
    <3>1. wire = {}
      BY <2>1, <2>6 DEF Spent, Budget, AirType, Requests, Headroom, IInv, TypeOK
    <3>2. Cardinality(wire) = 0
      BY <3>1, FS_EmptySet
    <3>3. early + 1 - OnTime <= restarts
      BY <2>1, <2>2, <2>6, <3>2 DEF Spent, Flying, OnTime, Budget, AirType, Headroom, IInv, TypeOK
    <3> QED BY <1>1, <2>3, <2>4, <3>2, <3>3 DEF Budget, AirType, Spent, Flying, OnTime
  <2> QED BY <2>5, <2>6 DEF Budget
<1> QED BY <1>2, <1>3 DEF Pace

(* One of the requests on their way arrives: it is early only if another   *)
(* has arrived before it.                                                  *)
LEMMA ReachKeeps ==
    ASSUME Headroom, Budget, Reach, AirType', UNCHANGED <<restarts, age>>,
           Cardinality(wire') + (IF SomeReleased' THEN 1 ELSE 0) = Flying - 1,
           \A q \in wire' : q.flight >= age \/ Fresh,
           age \in Nat,
           Fresh => ~SomeReleased',
           Spent => age <= Delay
    PROVE  Budget'
<1> USE IntervalType, ThrottleAssumption, WireSize
<1>1. Flying \in Nat /\ Cardinality(wire') \in Nat
  BY FS_CardinalityType DEF Budget, Flying, AirType
<1>2. Published > 0 /\ since' = 0 /\ OnTime' = 0
  BY DEF Reach, OnTime, Headroom
<1>3. early' = early + 1 - OnTime
  BY DEF Reach, OnTime, Budget, AirType, Headroom
<1>4. CASE Fresh
  <2>1. Cardinality(wire') = Cardinality(wire) - 1 /\ ~SomeReleased'
    BY <1>1, <1>4 DEF Fresh, Flying, Budget
  <2> QED BY <1>1, <1>2, <1>3, <1>4, <2>1 DEF Fresh, Budget, AirType, OnTime
<1>5. CASE ~Fresh
  <2>1. Spent /\ Flying' = Flying - 1
    BY <1>5 DEF Budget, Flying
  <2>2. early + Flying - OnTime <= restarts
    BY <1>1, <2>1 DEF Spent, Flying
  <2>3. Spent'
    BY <1>1, <1>2, <1>3, <1>5, <2>1, <2>2 DEF Spent, Budget, AirType, OnTime
  <2> QED BY <2>3 DEF Budget
<1> QED BY <1>4, <1>5

(* The answer of a request, or of one that was never sent.                 *)
LEMMA FetchedKeeps ==
    ASSUME Headroom, IInv, InFlight, Budget, NEW c \in Callers, Fetched(c)
    PROVE  Budget'
<1> USE IntervalType, ThrottleAssumption, WireSize
<1>1. UNCHANGED <<restarts, wire, age>>
  BY DEF Fetched, Arrive
<1>2. SomeReleased /\ ~SomeReleased' /\ age \in Nat /\ age <= Delay
  BY DEF Fetched, Arrive, IInv, TypeOK, InFlight, SomeReleased
<1>3. ~Fresh
  BY <1>2 DEF Fresh
<1>4. Reach \/ UNCHANGED <<since, early>>
  BY DEF Fetched
<1>5. AirType'
  BY <1>1, <1>4 DEF Budget, AirType, Reach
<1>6. Cardinality(wire') + (IF SomeReleased' THEN 1 ELSE 0) = Flying - 1
  BY <1>1, <1>2 DEF Flying, Budget
<1>7. CASE Reach
  BY <1>1, <1>2, <1>3, <1>5, <1>6, <1>7, ReachKeeps DEF Budget, Spent
<1>8. CASE UNCHANGED <<since, early>>
  <2>1. Spent /\ early + Flying - OnTime <= restarts /\ Flying \in Nat /\ Flying' = Flying - 1
    BY <1>2, <1>3, <1>6 DEF Budget, Spent, Flying
  <2>2. Spent'
    BY <1>1, <1>8, <2>1 DEF Spent, OnTime, Budget, AirType
  <2> QED BY <1>5, <2>2 DEF Budget
<1> QED BY <1>4, <1>7, <1>8

LEMMA OrphanKeeps ==
    ASSUME Headroom, IInv, Budget, Orphan
    PROVE  Budget'
<1> USE IntervalType, ThrottleAssumption, WireSize
<1>1. PICK q \in wire : wire' = wire \ {q}
  BY DEF Orphan
<1>2. IsFiniteSet(wire') /\ Cardinality(wire') = Cardinality(wire) - 1
  BY <1>1, FS_RemoveElement DEF Budget, AirType
<1>3. UNCHANGED <<restarts, age, pc>> /\ Reach
  BY DEF Orphan, vars
<1>4. AirType'
  BY <1>1, <1>2, <1>3 DEF Budget, AirType, Reach
<1>5. SomeReleased' = SomeReleased
  BY <1>3 DEF SomeReleased
<1>6. Cardinality(wire') + (IF SomeReleased' THEN 1 ELSE 0) = Flying - 1
  BY <1>2, <1>5 DEF Flying, Budget
<1>7. \A r \in wire' : r.flight >= age \/ Fresh
  BY <1>1 DEF Budget, Spent
<1>8. age \in Nat /\ (Spent => age <= Delay)
  BY <1>1 DEF IInv, TypeOK, Spent, Budget, AirType, Requests
<1>9. Fresh => ~SomeReleased'
  BY <1>5 DEF Fresh
<1> QED BY <1>3, <1>4, <1>6, <1>7, <1>8, <1>9, ReachKeeps

LEMMA Smaller ==
    ASSUME NEW e \in Nat, NEW r \in Nat, NEW k \in Nat, NEW l \in Nat,
           NEW o \in {0, 1}, NEW p \in {0, 1},
           e + k - o <= r, l <= k, p >= o
    PROVE  e + l - p <= r
OBVIOUS

(* Time does not add requests, nor make the next one less in time.         *)
LEMMA TimeKeeps ==
    ASSUME Headroom, IInv, Budget, TimePasses
    PROVE  Budget'
<1> USE IntervalType, ThrottleAssumption, WireSize
<1> DEFINE later(q) == [q EXCEPT !.flight = @ + 1]
<1>1. wire' = {later(q) : q \in wire} /\ \A q \in wire : q.flight < Delay
  BY DEF TimePasses
<1>2. \A q \in wire : later(q) \in Requests /\ later(q).flight = q.flight + 1
  BY <1>1 DEF Budget, AirType, Requests
<1> HIDE DEF later
<1>3. IsFiniteSet(wire') /\ Cardinality(wire') <= Cardinality(wire)
  <2> DEFINE f == [q \in wire |-> later(q)]
  <2>1. f \in Surjection(wire, wire')
    BY <1>1 DEF Surjection
  <2> HIDE DEF f
  <2> QED BY <2>1, FS_Surjection DEF Budget, AirType
<1>4. Cardinality(wire') = 0 => Cardinality(wire) = 0
  <2>1. Cardinality(wire') = 0 => wire' = {}
    BY <1>3, FS_EmptySet
  <2>2. wire' = {} => wire = {}
    BY <1>1
  <2> QED BY <2>1, <2>2, FS_EmptySet
<1>5. Cardinality(wire') \in Nat
  BY <1>3, FS_CardinalityType
<1>6. /\ UNCHANGED <<restarts, early, pc>>
      /\ since' = AtMost(Published, since + 1) /\ age' = AtMost(Interval, age + 1)
  BY DEF TimePasses, Tick
<1>7. AirType'
  BY <1>1, <1>2, <1>3, <1>6 DEF Budget, AirType, AtMost
<1>8. SomeReleased' = SomeReleased
  BY <1>6 DEF SomeReleased
<1>9. OnTime' >= OnTime /\ OnTime \in {0, 1} /\ OnTime' \in {0, 1}
  BY <1>6 DEF OnTime, AtMost
<1>10. CASE Fresh
  <2>1. Fresh'
    BY <1>3, <1>5, <1>6, <1>8, <1>9, <1>10 DEF Fresh, Budget, AirType
  <2> QED BY <1>7, <2>1 DEF Budget
<1>11. CASE Spent
  <2>1. \A q \in wire' : q.flight >= age'
    <3>1. age' <= age + 1
      BY <1>6 DEF AtMost, IInv, TypeOK
    <3>2. age \in Nat /\ age' \in Nat
      BY <1>6 DEF AtMost, IInv, TypeOK
    <3>3. ASSUME NEW q \in wire PROVE later(q).flight >= age'
      <4>1. q.flight >= age /\ q.flight \in Nat /\ later(q).flight = q.flight + 1
        BY <1>2, <1>11 DEF Spent, Budget, AirType, Requests
      <4> QED BY <3>1, <3>2, <4>1
    <3> QED BY <1>1, <3>3
  <2>2. Flying' <= Flying /\ (Flying' = 0 => Flying = 0) /\ Flying \in Nat /\ Flying' \in Nat
    BY <1>3, <1>4, <1>5, <1>8 DEF Flying, Budget
  <2>3. Flying' >= 1 => early' + Flying' - OnTime' <= restarts'
    <3>1. Flying' >= 1 => Flying >= 1 /\ early + Flying - OnTime <= restarts
      BY <1>11, <2>2 DEF Spent
    <3>2. early \in Nat /\ restarts \in Nat
      BY DEF Budget, AirType
    <3>3. restarts' = restarts /\ early' = early
      BY <1>6
    <3> SUFFICES ASSUME Flying' >= 1 PROVE early' + Flying' - OnTime' <= restarts'
      OBVIOUS
    <3>4. early + Flying - OnTime <= restarts
      BY <2>2, <3>1
    <3> QED BY <1>9, <2>2, <3>2, <3>3, <3>4, Smaller
  <2>4. Flying' = 0 => /\ early' <= restarts'
                       /\ since' = Published \/ since' >= age' - Delay \/ early' + 1 <= restarts'
    BY <1>6, <1>11, <2>2 DEF Spent, Budget, AirType, AtMost, IInv, TypeOK
  <2> QED BY <1>7, <2>1, <2>3, <2>4 DEF Budget, Spent
<1> QED BY <1>10, <1>11 DEF Budget

(* At most the one request the old daemon had released goes on travelling. *)
LEMMA RestartKeeps ==
    ASSUME Headroom, IInv, InFlight, Budget, Restart
    PROVE  Budget'
<1> USE IntervalType, ThrottleAssumption, WireSize
<1> DEFINE left_by(c) == [life |-> restarts, flight |-> flight[c]]
<1>1. PICK kept \in SUBSET {c \in Callers : pc[c] = "released"} :
          wire' = wire \cup {left_by(c) : c \in kept}
  BY DEF Restart
<1>2. UNCHANGED <<since, early>> /\ restarts' = restarts + 1 /\ ~SomeReleased'
  BY DEF Restart, SomeReleased
<1>3. \A c \in Callers : left_by(c) \in Requests
  BY DEF IInv, TypeOK, Budget, AirType, Requests
<1>4. IsFiniteSet(wire') /\ Cardinality(wire') \in Nat /\ Cardinality(wire') <= Flying
  <2>1. CASE kept = {}
    <3>1. wire' = wire
      BY <1>1, <2>1
    <3> QED BY <3>1 DEF Budget, AirType, Flying
  <2>2. CASE kept # {}
    <3>1. PICK c \in kept : TRUE
      BY <2>2
    <3>2. kept = {c} /\ SomeReleased
      BY <1>1, <3>1 DEF InFlight, SomeReleased
    <3>3. wire' = wire \cup {left_by(c)}
      BY <1>1, <3>2
    <3> HIDE DEF left_by
    <3>4. IsFiniteSet(wire') /\ Cardinality(wire') <= Cardinality(wire) + 1
      <4>1. IsFiniteSet(wire)
        BY DEF Budget, AirType
      <4>2. PICK x : x = left_by(c)
        OBVIOUS
      <4>3. wire' = wire \cup {x}
        BY <3>3, <4>2
      <4>4. IsFiniteSet(wire') /\ Cardinality(wire') = IF x \in wire THEN Cardinality(wire)
                                                       ELSE Cardinality(wire) + 1
        BY <4>1, <4>3, FS_AddElement
      <4>5. Cardinality(wire) \in Nat
        BY <4>1, FS_CardinalityType
      <4> QED BY <4>4, <4>5
    <3>5. Cardinality(wire') \in Nat
      BY <3>4, FS_CardinalityType
    <3>6. Flying = Cardinality(wire) + 1
      BY <3>2 DEF Flying
    <3> QED BY <3>4, <3>5, <3>6
  <2> QED BY <2>1, <2>2
<1>5. AirType'
  BY <1>1, <1>2, <1>3, <1>4 DEF Budget, AirType
<1>6. early + Cardinality(wire') - OnTime <= restarts /\ OnTime \in {0, 1} /\ OnTime' = OnTime
  <2>1. Flying \in Nat
    BY DEF Flying, Budget
  <2>2. CASE Fresh
    BY <1>2, <1>4, <2>1, <2>2 DEF Fresh, Flying, OnTime, Budget, AirType
  <2>3. CASE Spent
    BY <1>2, <1>4, <2>1, <2>3 DEF Spent, OnTime, Budget, AirType
  <2> QED BY <2>2, <2>3 DEF Budget
<1>7. Fresh'
  BY <1>2, <1>4, <1>6 DEF Fresh, Budget, AirType
<1> QED BY <1>5, <1>7 DEF Budget

LEMMA BudgetKeeps ==
    Headroom /\ IInv /\ InFlight /\ Budget /\ [AVNext]_avars => Budget'
<1> SUFFICES ASSUME Headroom, IInv, InFlight, Budget, [AVNext]_avars PROVE Budget'
  OBVIOUS
<1>1. CASE UNCHANGED avars
  BY <1>1 DEF avars, vars, provider, Budget, AirType, Fresh, Spent, Flying, OnTime, SomeReleased
<1> QED BY <1>1, PaceKeeps, FetchedKeeps, OrphanKeeps, TimeKeeps, RestartKeeps DEF AVNext

(* A restart costs one early request and no more, whatever the number of   *)
(* callers, restarts and requests on the way (alphavantage.rs 54).         *)
THEOREM EarlyBounded == Headroom => (AVSpec => []OneEarlyPerRestart)
<1> SUFFICES ASSUME Headroom PROVE AVSpec => []OneEarlyPerRestart
  OBVIOUS
<1>1. AVInit => IInv /\ InFlight /\ Budget
  BY Initially, InFlightInit, BudgetInit DEF AVInit
<1>2. IInv /\ InFlight /\ Budget /\ [AVNext]_avars => IInv' /\ InFlight' /\ Budget'
  BY LifeKeeps, InFlightKeeps, BudgetKeeps
<1>3. Budget => OneEarlyPerRestart
  <2> SUFFICES ASSUME Budget PROVE early <= restarts
    BY DEF OneEarlyPerRestart
  <2>1. Flying \in Nat /\ Cardinality(wire) \in Nat
    BY WireSize DEF Budget, Flying
  <2> QED BY <2>1 DEF Budget, AirType, Fresh, Spent, OnTime
<1> QED BY <1>1, <1>2, <1>3, PTL DEF AVSpec
-----------------------------------------------------------------------------
(* The chart.                                                              *)

\* s holds the days of U up to d, in order.
InOrder(s, U, d) ==
    /\ s \in Seq(Nat)
    /\ \A i, j \in 1 .. Len(s) : i < j => s[i] < s[j]
    /\ {s[i] : i \in 1 .. Len(s)} = {u \in U : u <= d}

LEMMA InOrderNext ==
    ASSUME NEW U, U \subseteq Nat \ {0}, NEW d \in Nat \ {0}, NEW s, InOrder(s, U, d - 1)
    PROVE  InOrder(IF d \in U THEN Append(s, d) ELSE s, U, d)
<1>1. /\ s \in Seq(Nat) /\ {s[i] : i \in 1 .. Len(s)} = {u \in U : u <= d - 1}
      /\ \A i, j \in 1 .. Len(s) : i < j => s[i] < s[j]
  BY DEF InOrder
<1>2. PICK n \in Nat : n = Len(s)
  BY <1>1, LenProperties
<1>3. \A i \in 1 .. n : s[i] \in Nat /\ s[i] \in U /\ s[i] <= d - 1
  <2> SUFFICES ASSUME NEW i \in 1 .. n PROVE s[i] \in Nat /\ s[i] \in U /\ s[i] <= d - 1
    OBVIOUS
  <2>1. s[i] \in {u \in U : u <= d - 1}
    BY <1>1, <1>2
  <2> QED BY <2>1
<1>4. \A u \in U : u \in Nat
  OBVIOUS
<1>5. CASE d \in U
  <2> DEFINE t == Append(s, d)
  <2>1. /\ t \in Seq(Nat) /\ Len(t) = n + 1 /\ t[n + 1] = d
        /\ \A i \in 1 .. n : t[i] = s[i]
    BY <1>1, <1>2, AppendProperties
  <2> HIDE DEF t
  <2>2. \A i, j \in 1 .. n + 1 : i < j => t[i] < t[j]
    <3> SUFFICES ASSUME NEW i \in 1 .. n + 1, NEW j \in 1 .. n + 1, i < j PROVE t[i] < t[j]
      OBVIOUS
    <3>1. i \in 1 .. n /\ t[i] = s[i] /\ s[i] \in Nat /\ s[i] <= d - 1
      BY <1>3, <2>1
    <3>2. CASE j \in 1 .. n
      BY <1>1, <1>2, <2>1, <3>1, <3>2
    <3>3. CASE j = n + 1
      BY <2>1, <3>1, <3>3
    <3> QED BY <3>2, <3>3
  <2>3. ASSUME NEW i \in 1 .. n + 1 PROVE t[i] \in U /\ t[i] <= d
    <3>1. CASE i \in 1 .. n
      BY <1>3, <2>1, <3>1
    <3>2. CASE i = n + 1
      BY <1>5, <2>1, <3>2
    <3> QED BY <3>1, <3>2
  <2>4. ASSUME NEW u \in U, u <= d PROVE \E i \in 1 .. n + 1 : t[i] = u
    <3>1. CASE u = d
      BY <2>1, <3>1
    <3>2. CASE u # d
      <4>1. u <= d - 1
        BY <1>4, <2>4, <3>2
      <4>2. u \in {s[i] : i \in 1 .. n}
        BY <1>1, <1>2, <4>1
      <4>3. PICK i \in 1 .. n : s[i] = u
        BY <4>2
      <4>4. i \in 1 .. n + 1 /\ t[i] = u
        BY <2>1, <4>3
      <4> QED BY <4>4
    <3> QED BY <3>1, <3>2
  <2>5. {t[i] : i \in 1 .. n + 1} = {u \in U : u <= d}
    BY <2>3, <2>4
  <2>6. InOrder(t, U, d)
    BY <2>1, <2>2, <2>5 DEF InOrder
  <2> QED BY <1>5, <2>6 DEF t
<1>6. CASE d \notin U
  <2>1. \A u \in U : u <= d <=> u <= d - 1
    BY <1>4, <1>6
  <2>2. {u \in U : u <= d} = {u \in U : u <= d - 1}
    BY <2>1
  <2>3. InOrder(s, U, d)
    BY <1>1, <2>2 DEF InOrder
  <2> QED BY <1>6, <2>3
<1> QED BY <1>5, <1>6

\* The usable days are in order and all there.
LEMMA OldestFirstIs ==
    ASSUME NEW series, DOMAIN series \subseteq 1 .. Today
    PROVE  InOrder(OldestFirst(series), UsableDays(series), Today)
<1> DEFINE U == UsableDays(series)
           More(s, d) == IF d \in U THEN Append(s, d) ELSE s
           step == [d \in 1 .. Today |-> [s \in Seq(Nat) |-> More(s, d)]]
           Total(h) == h = [d \in 0 .. Today |-> IF d = 0 THEN <<>> ELSE More(h[d - 1], d)]
<1>1. Today \in Nat /\ U \subseteq 1 .. Today /\ U \subseteq Nat \ {0}
  BY AlphaVantageAssumption DEF UsableDays
<1>2. \A d \in 1 .. Today, s \in Seq(Nat) : More(s, d) \in Seq(Nat)
  BY <1>1, AppendProperties
<1>3. step \in [1 .. Today -> [Seq(Nat) -> Seq(Nat)]]
  <2> HIDE DEF More
  <2> QED BY <1>2
<1>4. \A d \in 1 .. Today, s \in Seq(Nat) : step[d][s] = More(s, d)
  OBVIOUS
<1>5. <<>> \in Seq(Nat)
  BY EmptySeq
<1>u. OldestFirst(series) = (CHOOSE h : Total(h))[Today]
  BY DEF OldestFirst
<1> HIDE DEF step, U, More
<1>6. PICK g : Follows(g, Seq(Nat), <<>>, Today, step)
  BY <1>1, <1>3, <1>5, Recursion, Zenon
<1>7. /\ g \in [0 .. Today -> Seq(Nat)] /\ g[0] = <<>>
      /\ \A d \in 1 .. Today : g[d] = step[d][g[d - 1]]
  BY <1>6 DEF Follows
<1>8. \A d \in 1 .. Today : g[d] = More(g[d - 1], d)
  <2> SUFFICES ASSUME NEW d \in 1 .. Today PROVE g[d] = More(g[d - 1], d)
    OBVIOUS
  <2>1. g[d - 1] \in Seq(Nat)
    BY <1>1, <1>7
  <2> QED BY <1>4, <1>7, <2>1
<1>9. Total(g)
  <2> SUFFICES ASSUME NEW d \in 0 .. Today
               PROVE  g[d] = IF d = 0 THEN <<>> ELSE More(g[d - 1], d)
    BY <1>7
  <2> QED BY <1>1, <1>7, <1>8
<1> DEFINE upto == CHOOSE h : Total(h)
<1>10. Total(upto)
  <2> HIDE DEF Total
  <2> QED BY <1>9
<1>11. upto[0] = <<>> /\ \A d \in 1 .. Today : upto[d] = More(upto[d - 1], d)
  <2> HIDE DEF upto
  <2> QED BY <1>1, <1>10
<1> HIDE DEF upto, Total
<1> DEFINE G == {d \in Nat : InOrder(upto[d], U, d)}
<1>12. 0 \in G
  <2>1. Len(upto[0]) = 0 /\ upto[0] \in Seq(Nat)
    BY <1>11, EmptySeq
  <2>2. {u \in U : u <= 0} = {}
    <3>1. \A u \in U : ~(u <= 0)
      BY <1>1
    <3> QED BY <3>1
  <2>3. {upto[0][i] : i \in 1 .. Len(upto[0])} = {}
    BY <2>1
  <2>4. InOrder(upto[0], U, 0)
    BY <2>1, <2>2, <2>3 DEF InOrder
  <2> QED BY <2>4
<1>13. ASSUME NEW d \in 1 .. Today, d - 1 \in G PROVE d \in G
  <2>1. d \in Nat \ {0} /\ InOrder(upto[d - 1], U, d - 1)
    BY <1>13
  <2>2. InOrder(IF d \in U THEN Append(upto[d - 1], d) ELSE upto[d - 1], U, d)
    BY <1>1, <2>1, InOrderNext
  <2> QED BY <1>11, <2>1, <2>2 DEF More
<1> HIDE DEF G
<1>14. \A d \in 0 .. Today : d \in G
  <2>1. \A d \in 1 .. Today : d - 1 \in G => d \in G
    BY <1>13
  <2> QED BY <1>1, <1>12, <2>1, UpTo, ZenonT(60)
<1>15. InOrder(upto[Today], U, Today)
  BY <1>1, <1>14 DEF G
<1> QED BY <1>u, <1>15 DEF upto, U

LEMMA SpreadIs ==
    ASSUME NEW n \in Nat, NEW v \in [1 .. n -> Int], NEW squares \in [1 .. n -> Int],
           \A j \in 1 .. n : squares[j] = v[j] * v[j]
    PROVE  Spread(v, n) = 2 * (n * SumOf(squares) - SumOf(v) * SumOf(v))
<1> DEFINE row(k) == [j \in 1 .. n |-> Square(v[j] - v[k])]
           rows == [k \in 1 .. n |-> SumOf(row(k))]
<1>1. PICK S \in Int, Q \in Int : S = SumOf(v) /\ Q = SumOf(squares)
  BY SumType
<1>2. ASSUME NEW k \in 1 .. n
      PROVE  SumOf(row(k)) = Q + (-2 * v[k]) * S + n * squares[k]
  <2>1. PICK y \in Int, b \in Int, c \in Int : y = v[k] /\ b = -2 * y /\ c = squares[k] /\ c = y * y
    <3>1. v[k] \in Int /\ squares[k] \in Int /\ squares[k] = v[k] * v[k] /\ -2 * v[k] \in Int
      OBVIOUS
    <3> QED BY <3>1
  <2>2. row(k) \in [1 .. n -> Int]
    BY DEF Square
  <2>3. Combined(row(k), squares, v, 1, b, c, n)
    <3>0. SUFFICES ASSUME NEW j \in 1 .. n PROVE row(k)[j] = 1 * squares[j] + b * v[j] + c
      <4> HIDE DEF row
      <4>1. n \in Nat /\ {1, b, c} \subseteq Int /\ {squares, v, row(k)} \subseteq [1 .. n -> Int]
        <5>1. {squares, v, row(k)} \subseteq [1 .. n -> Int]
          BY <2>2, Zenon
        <5>2. n \in Nat /\ {1, b, c} \subseteq Int
          OBVIOUS
        <5> QED BY <5>1, <5>2
      <4> QED BY <3>0, <4>1 DEF Combined
    <3>1. PICK x \in Int : x = v[j] /\ squares[j] = x * x
      OBVIOUS
    <3>2. (x - y) * (x - y) = 1 * (x * x) + (-2 * y) * x + y * y
      OBVIOUS
    <3> QED BY <2>1, <3>1, <3>2 DEF Square
  <2> HIDE DEF row
  <2>4. SumOf(row(k)) = 1 * SumOf(squares) + b * SumOf(v) + n * c
    BY <2>3, SumCombined
  <2> QED BY <1>1, <2>1, <2>4
<1>3. PICK b \in Int : b = -2 * S
  OBVIOUS
<1>4. SumOf(rows) = n * Q + b * S + n * Q
  <2>1. ASSUME NEW k \in 1 .. n
        PROVE  SumOf(row(k)) \in Int /\ SumOf(row(k)) = n * squares[k] + b * v[k] + Q
    <3> HIDE DEF row
    <3>1. SumOf(row(k)) = Q + (-2 * v[k]) * S + n * squares[k]
      BY <1>2
    <3>2. PICK x \in Int, y \in Int : x = v[k] /\ y = squares[k]
      OBVIOUS
    <3>3. (-2 * x) * S = (-2 * S) * x /\ (-2 * x) * S \in Int /\ n * y \in Int
      OBVIOUS
    <3>4. PICK c \in Int, d \in Int : c = (-2 * x) * S /\ c = b * x /\ d = n * y
      BY <1>3, <3>3
    <3>5. SumOf(row(k)) = Q + c + d
      BY <3>1, <3>2, <3>4
    <3>6. n * squares[k] + b * v[k] + Q = d + c + Q
      BY <3>2, <3>4
    <3>7. Q + c + d = d + c + Q /\ Q + c + d \in Int
      OBVIOUS
    <3> QED BY <3>5, <3>6, <3>7
  <2>2. rows \in [1 .. n -> Int] /\ \A k \in 1 .. n : rows[k] = SumOf(row(k))
    <3> HIDE DEF row
    <3> QED BY <2>1
  <2> HIDE DEF rows
  <2>3. Combined(rows, squares, v, n, b, Q, n)
    <3> HIDE DEF row
    <3> QED BY <2>1, <2>2 DEF Combined
  <2>4. SumOf(rows) = n * SumOf(squares) + b * SumOf(v) + n * Q
    BY <2>3, SumCombined
  <2> QED BY <1>1, <2>4
<1>5. n * Q + (-2 * S) * S + n * Q = 2 * (n * Q - S * S)
  OBVIOUS
<1>6. Spread(v, n) = SumOf(rows)
  BY DEF Spread
<1> HIDE DEF rows
<1> QED BY <1>1, <1>3, <1>4, <1>5, <1>6

\* Mean and variance of a window are those of its closes, in whichever order.
LEMMA BandIs ==
    ASSUME NEW w \in [1 .. Window -> Int], NEW v \in [1 .. Window -> Int],
           \A j \in 1 .. Window : v[j] = w[Window + 1 - j]
    PROVE  Band(w).sum = SumOf(v) /\ 2 * Band(w).dev = Window * Spread(v, Window)
<1> DEFINE n == Window
           sw == [j \in 1 .. n |-> w[j] * w[j]]
           sv == [j \in 1 .. n |-> v[j] * v[j]]
           far == [j \in 1 .. n |-> Square(n * w[j] - SumOf(w))]
<1>1. n \in Nat /\ sw \in [1 .. n -> Int] /\ sv \in [1 .. n -> Int]
  BY AlphaVantageAssumption
<1>2. \A j \in 1 .. n : sv[j] = sw[n + 1 - j]
  <2> SUFFICES ASSUME NEW j \in 1 .. n PROVE v[j] * v[j] = sw[n + 1 - j]
    OBVIOUS
  <2>1. n + 1 - j \in 1 .. n
    BY <1>1
  <2> QED BY <2>1
<1>3. /\ \A j \in 1 .. n : sw[j] = w[j] * w[j]
      /\ \A j \in 1 .. n : sv[j] = v[j] * v[j]
  OBVIOUS
<1> HIDE DEF sw, sv
<1>4. SumOf(v) = SumOf(w) /\ SumOf(sv) = SumOf(sw)
  BY <1>1, <1>2, SumReversed
<1>5. PICK S \in Int, Q \in Int : S = SumOf(w) /\ Q = SumOf(sw)
  BY <1>1, SumType
<1>6. PICK a \in Int, b \in Int, c \in Int : a = n * n /\ b = -2 * (n * S) /\ c = S * S
  BY <1>1
<1>7. SumOf(far) = a * Q + b * S + n * c
  <2>1. ASSUME NEW j \in 1 .. n
        PROVE  /\ Square(n * w[j] - SumOf(w)) \in Int
               /\ Square(n * w[j] - SumOf(w)) = a * sw[j] + b * w[j] + c
    <3>1. PICK x \in Int : x = w[j] /\ sw[j] = x * x
      BY <1>3
    <3>2. (n * x - S) * (n * x - S) = (n * n) * (x * x) + (-2 * (n * S)) * x + S * S
      BY <1>1
    <3>3. (n * x - S) * (n * x - S) \in Int
      BY <1>1
    <3> QED BY <1>5, <1>6, <3>1, <3>2, <3>3 DEF Square
  <2>2. far \in [1 .. n -> Int] /\ Combined(far, sw, w, a, b, c, n)
    BY <1>1, <2>1 DEF Combined
  <2> HIDE DEF far
  <2>3. SumOf(far) = a * SumOf(sw) + b * SumOf(w) + n * c
    BY <2>2, SumCombined
  <2> QED BY <1>5, <2>3
<1>8. Len(w) = n
  BY <1>1, LenIs
<1>9. Band(w) = [sum |-> SumOf(w), dev |-> SumOf(far)]
  BY <1>8 DEF Band
<1>10. Spread(v, n) = 2 * (n * Q - S * S)
  BY <1>1, <1>3, <1>4, <1>5, SpreadIs
<1>11. 2 * ((n * n) * Q + (-2 * (n * S)) * S + n * (S * S)) = n * (2 * (n * Q - S * S))
  BY <1>1
<1> HIDE DEF far
<1> QED BY <1>4, <1>6, <1>7, <1>9, <1>10, <1>11

\* w is closes m to i, oldest first.
IsWindow(w, close, m, i) ==
    /\ w \in Seq(Int) /\ Len(w) = i - m + 1
    /\ \A j \in 1 .. i - m + 1 : w[j] = close[m + j - 1]

LEMMA WindowIs ==
    ASSUME NEW close, NEW m \in Int, NEW i \in Int, m <= i,
           \A j \in m .. i : close[j] \in Int
    PROVE  IsWindow(SubSeq(close, m, i), close, m, i)
<1>1. SubSeq(close, m, i) \in Seq(Int)
  BY SubSeqProperties
<1>2. Len(SubSeq(close, m, i)) = IF m <= i THEN i - m + 1 ELSE 0
  BY SubSeqProperties
<1>3. \A j \in 1 .. i - m + 1 : SubSeq(close, m, i)[j] = close[m + j - 1]
  BY SubSeqProperties
<1> QED BY <1>1, <1>2, <1>3 DEF IsWindow

LEMMA BandsAre ==
    ASSUME NEW n \in Nat, NEW close \in [1 .. n -> Int], NEW i \in 1 .. n
    PROVE  IF i < Window THEN bollinger_bands(close)[i] = NoBand
           ELSE /\ bollinger_bands(close)[i].sum = SumOf(Newest(close, i))
                /\ 2 * bollinger_bands(close)[i].dev = Window * Spread(Newest(close, i), Window)
<1> DEFINE w == SubSeq(close, i + 1 - Window, i)
           v == Newest(close, i)
<1>1. Len(close) = n /\ Window \in Nat \ {0}
  BY LenIs, AlphaVantageAssumption
<1>2. bollinger_bands(close)[i] = IF i < Window THEN NoBand ELSE Band(w)
  BY <1>1 DEF bollinger_bands
<1>3. ASSUME ~(i < Window)
      PROVE  Band(w).sum = SumOf(v) /\ 2 * Band(w).dev = Window * Spread(v, Window)
  <2>1. PICK m \in Int : m = i + 1 - Window /\ m >= 1 /\ m <= i /\ i - m + 1 = Window /\ m + Window = i + 1
    BY <1>1, <1>3
  <2>2. \A j \in m .. i : close[j] \in Int
    BY <2>1
  <2>3. /\ w \in Seq(Int) /\ Len(w) = Window
        /\ \A j \in 1 .. Window : w[j] = close[m + j - 1]
    <3>1. m \in Int /\ i \in Int /\ m <= i
      BY <2>1
    <3>2. IsWindow(SubSeq(close, m, i), close, m, i)
      BY <2>2, <3>1, WindowIs, Zenon
    <3>4. w = SubSeq(close, m, i)
      BY <2>1
    <3> HIDE DEF w
    <3>5. IsWindow(w, close, m, i)
      BY <3>2, <3>4
    <3>3. 1 .. i - m + 1 = 1 .. Window
      BY <2>1
    <3> QED BY <2>1, <3>3, <3>5 DEF IsWindow
  <2> HIDE DEF w
  <2>4. w \in [1 .. Window -> Int]
    BY <2>3, LenProperties
  <2>5. \A j \in 1 .. Window : v[j] = close[i + 1 - j]
    BY DEF Newest
  <2>6. ASSUME NEW j \in 1 .. Window PROVE i + 1 - j \in 1 .. n /\ v[j] = w[Window + 1 - j]
    <3>1. Window + 1 - j \in 1 .. Window /\ m + (Window + 1 - j) - 1 = i + 1 - j /\ i + 1 - j \in 1 .. n
      BY <1>1, <2>1
    <3>2. w[Window + 1 - j] = close[m + (Window + 1 - j) - 1]
      BY <2>3, <3>1
    <3> QED BY <2>5, <3>1, <3>2
  <2>7. v \in [1 .. Window -> Int]
    BY <2>6 DEF Newest
  <2> HIDE DEF v
  <2> QED BY <2>4, <2>6, <2>7, BandIs
<1> HIDE DEF w
<1> QED BY <1>2, <1>3

LEMMA ChartOfResponse ==
    ASSUME NEW r \in Responses, Accepted(r), Points(r.series) # <<>>
    PROVE  SoundChart(r.series, Points(r.series), Points(r.series)[Len(Points(r.series))].close)
<1> DEFINE days == OldestFirst(r.series)
           U == UsableDays(r.series)
           points == Points(r.series)
           close == [i \in DOMAIN points |-> points[i].close]
<1>1. DOMAIN r.series \subseteq 1 .. Today /\ Today \in Nat
  BY AlphaVantageAssumption DEF Accepted
<1>2. InOrder(days, U, Today)
  BY <1>1, OldestFirstIs
<1>3. U \subseteq 1 .. Today /\ \A d \in U : r.series[d] \in Int
  BY <1>1 DEF UsableDays
<1>4. points = [i \in 1 .. Len(days) |-> [date |-> days[i], close |-> r.series[days[i]]]]
  BY DEF Points
<1> HIDE DEF days, U, points
<1>5. PICK n \in Nat : n = Len(days)
  BY <1>2, LenProperties DEF InOrder
<1>6. {days[i] : i \in 1 .. n} = U
  <2>1. \A u \in U : u <= Today
    BY <1>1, <1>3
  <2>2. {u \in U : u <= Today} = U
    BY <2>1
  <2> QED BY <1>2, <1>5, <2>2 DEF InOrder
<1>7. ASSUME NEW i \in 1 .. n
      PROVE  /\ days[i] \in U /\ days[i] \in Nat /\ r.series[days[i]] \in Int
             /\ points[i].date = days[i] /\ points[i].close = r.series[days[i]]
  <2>1. days[i] \in U
    BY <1>6
  <2>2. days[i] \in Nat /\ r.series[days[i]] \in Int
    BY <1>1, <1>3, <2>1
  <2>3. points[i] = [date |-> days[i], close |-> r.series[days[i]]]
    BY <1>4, <1>5
  <2> QED BY <2>1, <2>2, <2>3
<1>8. DOMAIN points = 1 .. n /\ Len(points) = n /\ n # 0
  <2>1. DOMAIN points = 1 .. n
    BY <1>4, <1>5
  <2>2. points \in [1 .. n -> {points[i] : i \in 1 .. n}]
    BY <1>4, <1>5
  <2>3. points \in Seq({points[i] : i \in 1 .. n}) /\ Len(points) = n
    BY <2>2, LenIs
  <2>4. points # <<>>
    BY DEF points
  <2> QED BY <2>1, <2>3, <2>4, EmptySeq
<1>9. \A i, j \in 1 .. n : i < j => days[i] < days[j]
  BY <1>2, <1>5 DEF InOrder
<1>10. \A i, j \in DOMAIN points : i < j => points[i].date < points[j].date
  <2> SUFFICES ASSUME NEW i \in 1 .. n, NEW j \in 1 .. n, i < j
               PROVE  points[i].date < points[j].date
    BY <1>8
  <2> QED BY <1>7, <1>9
<1>11. {points[i].date : i \in DOMAIN points} = U
  BY <1>6, <1>7, <1>8
<1>12. \E d \in U : points[Len(points)].close = r.series[d] /\ \A e \in U : e <= d
  <2>1. n \in 1 .. n
    BY <1>8
  <2>2. ASSUME NEW e \in U PROVE e <= days[n]
    <3>1. PICK j \in 1 .. n : days[j] = e
      BY <1>6
    <3>2. CASE j = n
      BY <1>7, <3>1, <3>2
    <3>3. CASE j < n
      BY <1>7, <1>9, <2>1, <3>1, <3>3
    <3> QED BY <3>2, <3>3
  <2> QED BY <1>7, <1>8, <2>1, <2>2
<1>13. close \in [1 .. n -> Int]
  BY <1>7, <1>8
<1>14. \A i \in DOMAIN points :
           IF i < Window THEN bollinger_bands(close)[i] = NoBand
           ELSE /\ bollinger_bands(close)[i].sum = SumOf(Newest(close, i))
                /\ 2 * bollinger_bands(close)[i].dev = Window * Spread(Newest(close, i), Window)
  <2> HIDE DEF close
  <2> QED BY <1>8, <1>13, BandsAre
<1> DEFINE price == points[Len(points)].close
<1>15. \E d \in U : price = r.series[d] /\ \A e \in U : e <= d
  BY <1>12
<1> HIDE DEF price
<1>16. SoundChart(r.series, points, price)
  BY <1>10, <1>11, <1>14, <1>15 DEF SoundChart, U
<1> QED BY <1>16 DEF price, points

\* A response without points has no day that could be one.
LEMMA NothingUsable ==
    ASSUME NEW r \in Responses, r.series # None, Points(r.series) = <<>>
    PROVE  UsableDays(r.series) = {}
<1> DEFINE days == OldestFirst(r.series)
           U == UsableDays(r.series)
           points == Points(r.series)
<1>1. DOMAIN r.series \subseteq 1 .. Today /\ Today \in Nat
  BY AlphaVantageAssumption
<1>2. InOrder(days, U, Today)
  BY <1>1, OldestFirstIs
<1>3. \A u \in U : u <= Today
  BY <1>1 DEF UsableDays
<1>4. points = [i \in 1 .. Len(days) |-> [date |-> days[i], close |-> r.series[days[i]]]]
  BY DEF Points
<1>5. points = <<>>
  OBVIOUS
<1> HIDE DEF days, U, points
<1>6. Len(days) \in Nat
  BY <1>2, LenProperties DEF InOrder
<1>7. 1 .. Len(days) = {}
  <2>1. DOMAIN points = 1 .. Len(days)
    BY <1>4
  <2>2. DOMAIN points = {}
    BY <1>5
  <2> QED BY <2>1, <2>2
<1>8. {days[i] : i \in 1 .. Len(days)} = {u \in U : u <= Today}
  BY <1>2 DEF InOrder
<1>9. U = {}
  BY <1>3, <1>7, <1>8
<1> QED BY <1>9 DEF U

\* What fetch makes of a response, in terms of what the response is.
LEMMA ResultIs ==
    ASSUME NEW r
    PROVE  IF Result(r) = Failed
           THEN Accepted(r) => Points(r.series) = <<>>
           ELSE /\ Accepted(r) /\ Points(r.series) # <<>>
                /\ Result(r).points = Points(r.series)
                /\ Result(r).price = Points(r.series)[Len(Points(r.series))].close
<1>1. CASE Accepted(r) /\ Points(r.series) # <<>>
  <2>1. /\ Result(r).points = Points(r.series)
        /\ Result(r).price = Points(r.series)[Len(Points(r.series))].close
    BY <1>1 DEF Result
  <2>2. Result(r) # Failed
    <3>1. Failed.points = <<>>
      BY DEF Failed
    <3> QED BY <1>1, <2>1, <3>1
  <2> QED BY <1>1, <2>1, <2>2
<1>2. CASE ~Accepted(r)
  BY <1>2 DEF Result
<1>3. CASE Points(r.series) = <<>>
  BY <1>3 DEF Result
<1> QED BY <1>1, <1>2, <1>3

\* An answer is what fetch makes of a response.
Answers == answer = None \/ \E r \in Responses : answer = [of |-> r, result |-> Result(r)]

(* Whatever the provider says, and whatever the window: what is stored and *)
(* drawn is of a response that is no failure in disguise, in order, priced *)
(* at its newest usable close, and each band is the mean and the spread of *)
(* the closes up to its day; and a good response with a usable close is    *)
(* kept (alphavantage.rs 193-245, ticker-proto lib.rs 209-228).            *)
THEOREM ChartIsSound == AVSpec => []ChartSound
<1>1. AVInit => Answers
  BY DEF AVInit, Answers
<1>2. Answers /\ [AVNext]_avars => Answers'
  BY DEF Answers, AVNext, avars, Pace, Fetched, Orphan, TimePasses, Restart
<1>3. Answers => ChartSound
  <2> SUFFICES ASSUME Answers, answer # None PROVE ChartSound
    BY DEF ChartSound
  <2>1. PICK r \in Responses : answer = [of |-> r, result |-> Result(r)]
    BY DEF Answers
  <2>2. answer.of = r /\ answer.result = Result(r)
    BY <2>1
  <2>3. Accepted(r) <=> Trustworthy(r) /\ r.series # None
    BY DEF Accepted, Trustworthy
  <2>4. CASE Result(r) = Failed
    <3>1. Trustworthy(r) /\ r.series # None => UsableDays(r.series) = {}
      BY <2>3, <2>4, ResultIs, NothingUsable
    <3> QED BY <2>2, <2>4, <3>1 DEF ChartSound
  <2>5. CASE Result(r) # Failed
    <3>1. /\ Accepted(r) /\ Points(r.series) # <<>>
          /\ Result(r).points = Points(r.series)
          /\ Result(r).price = Points(r.series)[Len(Points(r.series))].close
      BY <2>5, ResultIs
    <3>2. SoundChart(r.series, answer.result.points, answer.result.price)
      BY <2>2, <3>1, ChartOfResponse
    <3> QED BY <2>2, <2>3, <2>5, <3>1, <3>2 DEF ChartSound
  <2> QED BY <2>4, <2>5
<1> QED BY <1>1, <1>2, <1>3, PTL DEF AVSpec
=============================================================================
