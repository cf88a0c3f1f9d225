----------------------------- MODULE RateLimiter -----------------------------
(***************************************************************************)
(* RateLimiter of traffic_profiles.py, shared by all the workers of a run,   *)
(* and the part of the workers' loop that calls it.  Time is counted in      *)
(* ticks, and the target rate given by the interval between two requests at  *)
(* each tick, 0 where a traffic profile calls for no traffic at all.         *)
(*                                                                           *)
(* Timers fire on time: no tick passes while a sleeper is due.               *)
(***************************************************************************)
EXTENDS Integers, Sequences, FiniteSets

CONSTANTS
  Caller,        \* the workers
  Duration,      \* -d, in ticks
  Interval,      \* 1 / _current_rate at each elapsed tick, 0 where the rate is 0
  MaxInterval,   \* the longest of them
  Pause          \* how long acquire() sleeps where the rate is 0

ASSUME LimiterAssumption ==
  /\ IsFiniteSet(Caller)
  /\ Duration \in Nat /\ MaxInterval \in Nat /\ Pause \in Nat \ {0}
  /\ Interval \in [0..(Duration - 1) -> 0..MaxInterval]

VARIABLES
  now,           \* ticks since the run's start
  start,         \* _start_time, NotStarted before the first call
  lastTime,      \* _last_time
  mode,          \* of each caller: "awake", "slot" (asleep until its slot), "pause"
  until,         \* when a sleeper wakes
  gap,           \* the interval in force when a sleeper claimed its slot
  sends,         \* the requests sent in a slot: when, and the interval in force
                 \* when the slot was claimed
  strays         \* when each caller sent the others, at a rate of 0
limiterVars == <<now, start, lastTime, mode, until, gap, sends, strays>>

NotStarted == -1

LimiterTypeOK ==
  /\ now \in Nat /\ start \in {NotStarted} \cup 0..now /\ lastTime \in Nat
  /\ mode \in [Caller -> {"awake", "slot", "pause"}]
  /\ until \in [Caller -> Nat] /\ gap \in [Caller -> 0..MaxInterval]
  /\ sends \in Seq([at : Nat, gap : 0..MaxInterval])
  /\ strays \in [Caller -> Seq(Nat)]

LimiterInit ==
  /\ now = 0 /\ start = NotStarted /\ lastTime = 0
  /\ mode = [c \in Caller |-> "awake"]
  /\ until = [c \in Caller |-> 0] /\ gap = [c \in Caller |-> 0]
  /\ sends = <<>> /\ strays = [c \in Caller |-> <<>>]

-------------------------------------------------------------------------------
Send(interval) == sends' = Append(sends, [at |-> now, gap |-> interval])

Sleep(c, how, time, interval) ==
  /\ mode' = [mode EXCEPT ![c] = how]
  /\ until' = [until EXCEPT ![c] = time]
  /\ gap' = [gap EXCEPT ![c] = interval]

SendStray(c) == strays' = [strays EXCEPT ![c] = Append(@, now)]

\* The first call starts the clock and goes through.
First(c) ==
  /\ start = NotStarted
  /\ start' = now
  /\ lastTime' = now
  /\ Send(0)
  /\ UNCHANGED <<now, mode, until, gap, strays>>

\* No traffic is called for: sleep a bounded quantum, not past the end, which is still
\* ahead of a worker that asks.
PauseAtZero(c) ==
  /\ start # NotStarted
  /\ Interval[now - start] = 0
  /\ Sleep(c, "pause", IF now + Pause < start + Duration THEN now + Pause ELSE start + Duration, 0)
  /\ UNCHANGED <<now, start, lastTime, sends, strays>>

\* Fault variant: a limiter that has been idle catches up.
ClaimSlotCatchingUp(c, interval) ==
  LET target == lastTime + interval IN
    /\ lastTime' = target
    /\ \/ target > now /\ Sleep(c, "slot", target, interval) /\ UNCHANGED sends
       \/ target <= now /\ Send(interval) /\ UNCHANGED <<mode, until, gap>>

\* Fault variant: the interval is added again for the next caller.
ClaimSlotTwice(c, interval) ==
  LET target == lastTime + interval IN
    \/ /\ target > now
       /\ lastTime' = target + interval
       /\ Sleep(c, "slot", target, interval)
       /\ UNCHANGED sends
    \/ /\ target <= now
       /\ lastTime' = now + interval
       /\ Send(interval)
       /\ UNCHANGED <<mode, until, gap>>

\* The slot after the last one, or now if that has passed.
ClaimSlot(c, interval) ==
  LET target == lastTime + interval IN
    \/ /\ target > now
       /\ lastTime' = target
       /\ Sleep(c, "slot", target, interval)
       /\ UNCHANGED sends
    \/ /\ target <= now
       /\ lastTime' = now
       /\ Send(interval)
       /\ UNCHANGED <<mode, until, gap>>

\* A slot is reserved before the caller sleeps.
Reserve(c) ==
  /\ start # NotStarted
  /\ Interval[now - start] > 0
  /\ ClaimSlot(c, Interval[now - start])
  /\ UNCHANGED <<now, start, strays>>

\* A worker asks for its next request as long as the duration has not elapsed.
Acquire(c) ==
  /\ mode[c] = "awake"
  /\ now < Duration
  /\ First(c) \/ PauseAtZero(c) \/ Reserve(c)

\* Either sleep over, acquire() returns and the caller sends its request, whatever the
\* rate is now: the one that paused has no slot, and neither looks for one nor takes one.
Wake(c) ==
  /\ mode[c] # "awake"
  /\ until[c] <= now
  /\ mode' = [mode EXCEPT ![c] = "awake"]
  /\ \/ mode[c] = "slot" /\ Send(gap[c]) /\ UNCHANGED strays
     \/ mode[c] = "pause" /\ SendStray(c) /\ UNCHANGED sends
  /\ UNCHANGED <<now, start, lastTime, until, gap>>

Tick ==
  /\ now < Duration \/ \E c \in Caller : mode[c] # "awake"
  /\ \A c \in Caller : mode[c] # "awake" => now < until[c]
  /\ now' = now + 1
  /\ UNCHANGED <<start, lastTime, mode, until, gap, sends, strays>>

LimiterNext == (\E c \in Caller : Acquire(c) \/ Wake(c)) \/ Tick

LimiterSpec == LimiterInit /\ [][LimiterNext]_limiterVars

-------------------------------------------------------------------------------
(* Properties.                                                                *)

Asleep == {c \in Caller : mode[c] = "slot"}

\* "distributes requests evenly over time": however many workers share the limiter,
\* whenever they call and whatever was skipped while all were busy, two consecutive
\* requests that have slots are at least the interval apart that was in force when the
\* slot of the second one was claimed.
SlotsSpaced ==
  \A i \in 1..(Len(sends) - 1) : sends[i + 1].at - sends[i].at >= sends[i + 1].gap

\* What is left of "a 0-rate phase actually suppresses traffic": every worker goes on
\* sending, one request in each pause, whatever the others do; only the last pause may
\* be cut short, by the end of the run.
StraysSpaced ==
  \A c \in Caller : \A i \in 1..(Len(strays[c]) - 1) :
    \/ strays[c][i + 1] - strays[c][i] >= Pause
    \/ strays[c][i + 1] = start + Duration

\* Every request of a run is spaced, by the slots or by the pauses.
Spaced == SlotsSpaced /\ StraysSpaced

\* A slot is never more than one longest interval per worker away: a caller waits
\* for the others' slots and its own, never for slots nobody holds.
BoundedWait ==
  \A c \in Asleep : until[c] - now <= Cardinality(Caller) * MaxInterval
===============================================================================
