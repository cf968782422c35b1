------------------------------- MODULE Throttle -------------------------------
(***************************************************************************)
(* The rate limiter in front of the provider: Throttle::acquire of         *)
(* provider/mod.rs and the request alphavantage.rs sends once it returns.  *)
(*                                                                         *)
(* Times are ages in ticks, so behaviours are not bounded in time: an age  *)
(* stops growing where nothing can tell it from a larger one.  tokio's     *)
(* mutex is first come, first served, and its guard is held across the     *)
(* sleep.  tokio::time::sleep may oversleep and never wakes early.         *)
(***************************************************************************)
EXTENDS Integers, Sequences

CONSTANTS
    Callers,      \* tasks inside AlphaVantage::fetch
    Minute,       \* ticks in a minute
    FreeTierRpm,  \* FREE_TIER_RPM
    Setting,      \* PAPERTICKER_ALPHAVANTAGE_RPM: "unset", "off", "typo" or a number
    Delay         \* bound: ticks from acquire's return to the provider's door

ASSUME ThrottleAssumption ==
    /\ Minute \in Nat
    /\ FreeTierRpm \in Nat \ {0}
    /\ Setting \in Nat \cup {"unset", "off", "typo"}
    /\ Delay \in Nat

VARIABLES
    pc,      \* "idle", "queued", "asleep" (holding the mutex), "released"
    queue,   \* who waits for Throttle::last, its owner first
    age,     \* time since *last; Interval stands for that or more, and for None
    left,    \* of a sleeping caller: time until its timer fires
    flight,  \* of a released caller: time since acquire returned
    gap      \* time since a request last reached the provider, up to Published

vars == <<pc, queue, age, left, flight, gap>>

-----------------------------------------------------------------------------
\* Requests per minute; 0 for no pacing.  A typo is not "off".
Rpm ==
    CASE Setting \in {"unset", "typo"} -> FreeTierRpm
      [] Setting = "off"               -> 0
      [] OTHER                         -> Setting

\* Slip for the mutants: a typo taken for "off".
Unpaced == IF Setting = "typo" \/ Rpm = 0 THEN 0 ELSE (Minute * 11) \div (Rpm * 10)

\* And: the published rate itself, without a margin.
OnTheBoundary == IF Rpm = 0 THEN 0 ELSE Minute \div Rpm

\* interval_from_rpm, with JITTER_MARGIN.
Interval == IF Rpm = 0 THEN 0 ELSE (Minute * 11) \div (Rpm * 10)

\* What the plan publishes: one request in this time.
Published == IF Rpm = 0 THEN 0 ELSE Minute \div Rpm

AtMost(bound, n) == IF n < bound THEN n ELSE bound

-----------------------------------------------------------------------------
Init ==
    /\ pc = [c \in Callers |-> "idle"]
    /\ queue = <<>>
    /\ age = Interval
    /\ left = [c \in Callers |-> 0]
    /\ flight = [c \in Callers |-> 0]
    /\ gap = Published

\* Slip for the mutants: the newest waiter is let in first.
CallBarging(c) ==
    /\ pc[c] = "idle"
    /\ pc' = [pc EXCEPT ![c] = "queued"]
    /\ queue' = IF queue = <<>> THEN <<c>> ELSE <<Head(queue), c>> \o Tail(queue)
    /\ UNCHANGED <<age, left, flight, gap>>

\* A fetch begins: self.last.lock().
Call(c) ==
    /\ pc[c] = "idle"
    /\ pc' = [pc EXCEPT ![c] = "queued"]
    /\ queue' = Append(queue, c)
    /\ UNCHANGED <<age, left, flight, gap>>

\* The guard is this caller's to take.
Owns(c) == queue # <<>> /\ Head(queue) = c

\* *last = now, the guard drops, acquire returns.
Release(c) ==
    /\ pc' = [pc EXCEPT ![c] = "released"]
    /\ queue' = Tail(queue)
    /\ age' = 0
    /\ flight' = [flight EXCEPT ![c] = 0]

\* Nothing sent yet, or the interval is over: no wait.
PassThrough(c) ==
    /\ pc[c] = "queued" /\ Owns(c)
    /\ age >= Interval
    /\ Release(c)
    /\ UNCHANGED <<left, gap>>

\* Slip for the mutants: the guard is dropped before the sleep.
UnlockAndSleep(c) ==
    /\ pc[c] = "queued" /\ Owns(c)
    /\ age < Interval
    /\ pc' = [pc EXCEPT ![c] = "asleep"]
    /\ left' = [left EXCEPT ![c] = Interval - age]
    /\ queue' = Append(Tail(queue), c)
    /\ UNCHANGED <<age, flight, gap>>

\* Slip for the mutants: now and the deadline swapped.
SleepBackwards(c) ==
    /\ pc[c] = "queued" /\ Owns(c)
    /\ age < Interval
    /\ pc' = [pc EXCEPT ![c] = "asleep"]
    /\ left' = [left EXCEPT ![c] = age - Interval]
    /\ UNCHANGED <<queue, age, flight, gap>>

Sleep(c) ==
    /\ pc[c] = "queued" /\ Owns(c)
    /\ age < Interval
    /\ pc' = [pc EXCEPT ![c] = "asleep"]
    /\ left' = [left EXCEPT ![c] = Interval - age]
    /\ UNCHANGED <<queue, age, flight, gap>>

Wake(c) ==
    /\ pc[c] = "asleep" /\ Owns(c)
    /\ left[c] = 0
    /\ Release(c)
    /\ UNCHANGED <<left, gap>>

\* The request reaches the provider; the task goes on to its answer.
Arrive(c) ==
    /\ pc[c] = "released"
    /\ pc' = [pc EXCEPT ![c] = "idle"]
    /\ gap' = 0
    /\ UNCHANGED <<queue, age, left, flight>>

Tick ==
    /\ \A c \in Callers : pc[c] = "released" => flight[c] < Delay
    /\ age' = AtMost(Interval, age + 1)
    /\ gap' = AtMost(Published, gap + 1)
    /\ left' = [c \in Callers |-> IF pc[c] = "asleep" /\ left[c] > 0 THEN left[c] - 1 ELSE left[c]]
    /\ flight' = [c \in Callers |-> IF pc[c] = "released" THEN flight[c] + 1 ELSE flight[c]]
    /\ UNCHANGED <<pc, queue>>

Next ==
    \/ \E c \in Callers : Call(c) \/ PassThrough(c) \/ Sleep(c) \/ Wake(c) \/ Arrive(c)
    \/ Tick

Spec == Init /\ [][Next]_vars

\* Time passes, and the runtime polls a task that is ready.
Fairness ==
    /\ WF_vars(Tick)
    /\ \A c \in Callers : WF_vars(PassThrough(c) \/ Sleep(c) \/ Wake(c) \/ Arrive(c))

FairSpec == Spec /\ Fairness

-----------------------------------------------------------------------------
\* No sleep is negative or longer than the interval (mod.rs 164-171).
TypeOK ==
    /\ pc \in [Callers -> {"idle", "queued", "asleep", "released"}]
    /\ queue \in Seq(Callers)
    /\ age \in 0 .. Interval
    /\ left \in [Callers -> 0 .. Interval]
    /\ flight \in [Callers -> 0 .. Delay]
    /\ gap \in 0 .. Published

(* However many tasks ask at once, an interval passes between two releases *)
(* (mod.rs 134-145, and its test concurrent_callers_queue): also when the  *)
(* caller that slept computed its sleep before the others arrived.         *)
ReleasesSpaced ==
    [][\A c \in Callers : pc'[c] = "released" /\ pc[c] # "released" => age >= Interval]_vars

(* The provider sees no two requests closer than the rate its plan         *)
(* publishes, provided the 10% of headroom covers the time a request takes *)
(* to get there (alphavantage.rs 33-37).                                   *)
ArrivalsSpaced ==
    [][\A c \in Callers : pc[c] = "released" /\ pc'[c] # "released" => gap >= Published]_vars
=============================================================================
