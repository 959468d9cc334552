----------------------------- MODULE RateWindow -----------------------------
(***************************************************************************)
(* RateLimiter over time: callers that call whenever they have a permit,   *)
(* and the ticks of tokio::time::interval.  The first tick is immediate; a *)
(* tick that is late does not move the ones after it (MissedTickBehavior   *)
(* is Burst), so late ticks come in a burst.                               *)
(***************************************************************************)
EXTENDS RateLimiter, Sequences

CONSTANTS
  Second,    \* the instants in a second
  MaxDelay,  \* a tick is at most so many instants late
  MaxNow     \* bound of the model: the last instant

ASSUME SecondAssumption   == Second \in Nat \ {0}
ASSUME MaxDelayAssumption == MaxDelay \in Nat
ASSUME MaxNowAssumption   == MaxNow \in Nat

VARIABLES
  now,
  ticks,  \* of the interval, so far
  calls   \* history: the instant of each get_logs

vars == <<limiterVars, now, ticks, calls>>

Init ==
  /\ permits = MaxPerSecond
  /\ available = NoRead
  /\ now = 0
  /\ ticks = 0
  /\ calls = <<>>

Deadline == ticks * Second

\* acquire() and the RPC call after it.
Call ==
  /\ Acquire
  /\ calls' = Append(calls, now)
  /\ UNCHANGED <<now, ticks>>

Tick ==
  /\ now >= Deadline
  /\ RefillRead
  /\ ticks' = ticks + 1
  /\ UNCHANGED <<now, calls>>

Refill == RefillAdd /\ UNCHANGED <<now, ticks, calls>>

\* The refill task does not let time pass between its two steps.
Pass ==
  /\ now < MaxNow
  /\ now < Deadline + MaxDelay
  /\ available = NoRead
  /\ now' = now + 1
  /\ UNCHANGED <<limiterVars, ticks, calls>>

\* The run of the backfill ends, and the runtime with it.
RunEnds == now = MaxNow /\ UNCHANGED vars

Next == Call \/ Tick \/ Refill \/ Pass \/ RunEnds

Spec == Init /\ [][Next]_vars

-----------------------------------------------------------------------------
TypeOK ==
  /\ permits \in 0 .. MaxPerSecond
  /\ available \in 0 .. MaxPerSecond \union {NoRead}
  /\ now \in 0 .. MaxNow
  /\ ticks \in Nat
  /\ calls \in Seq(0 .. MaxNow)

\* n calls in a row, or fewer, take a second or more.
NoMoreInASecond(n) ==
  \A i \in DOMAIN calls : i + n \in DOMAIN calls => calls[i + n] - calls[i] >= Second

\* In the long run the calls are at most max_per_second a second: a burst lets
\* two seconds' permits be used ahead, however late the ticks are and however
\* the callers' threads fall between the two steps of a refill.
AverageIsCapped == Len(calls) <= MaxPerSecond * (2 + now \div Second)

\* The permits that may be used in one second: those that are left, and those of
\* each tick that falls in it, for which a late tick may leave its own second.
WindowIsBounded ==
  NoMoreInASecond(MaxPerSecond * (2 + (Second - 1 + MaxDelay) \div Second))

\* spec/0004_backfill-cli.md:39 has the token bucket "cap RPC calls", at
\* `--rate-limit-per-second' (line 18): no second has more calls than that.
EverySecondIsCapped == NoMoreInASecond(MaxPerSecond)

\* What makes AverageIsCapped inductive: the permits that exist and the calls
\* made with them are those of the start and of the ticks.
PermitsComeFromTicks ==
  /\ available = NoRead => Len(calls) + permits <= MaxPerSecond * (1 + ticks)
  /\ available # NoRead =>
       /\ Len(calls) + permits <= MaxPerSecond * ticks
       /\ permits <= available
  /\ ticks <= 1 + now \div Second

\* What makes WindowIsBounded inductive: the permits that were used since a call,
\* and those there are, come from the max_per_second that there were at most when
\* it was made, after k ticks, and from the ticks since.
PermitsSinceCalls ==
  LET adding == IF available = NoRead THEN 0 ELSE MaxPerSecond - available
  IN /\ now <= Deadline + MaxDelay
     /\ \A i \in DOMAIN calls : \E k \in 0 .. ticks :
          /\ calls[i] <= k * Second + MaxDelay
          /\ Len(calls) - i + 1 + permits + adding <= MaxPerSecond * (1 + ticks - k)
=============================================================================
