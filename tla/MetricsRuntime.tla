--------------------------- MODULE MetricsRuntime ---------------------------
(***************************************************************************)
(* MetricsRuntime of src/metrics.rs: the rolling windows of log rates, the *)
(* task that trims them each second, the HTTP server that answers /health  *)
(* and /ready, and their shutdown.  The frontfill loop of src/frontfill.rs *)
(* is their caller; each task runs on a thread of its own.                 *)
(*                                                                         *)
(* The mutex around the windows is held only where nothing is awaited, so  *)
(* what is done under it is one step.  The gauges are read without it.     *)
(* SystemTime and Instant are the one variable now; an entry of a window   *)
(* is the instant at which its log was observed.                           *)
(*                                                                         *)
(* A definition marked Mutant is not part of the model: it is a bug, put   *)
(* in the place of the definition after it to see a property fail.         *)
(***************************************************************************)
EXTENDS Integers, Sequences, FiniteSets

CONSTANTS
  Types,         \* event types
  Clients,       \* of the HTTP server, one request at a time each
  Second,        \* the instants in a second
  Window,        \* 60 seconds, in instants
  MaxStaleness,  \* max_staleness_seconds
  MaxDelay,      \* a tick of the updater is at most so many instants late
  MaxNow,        \* bound of the model: the last instant
  MaxLogs        \* bound of the model: logs observed

ASSUME TimesAssumption ==
  /\ Second \in Nat \ {0}
  /\ {Window, MaxStaleness, MaxDelay, MaxNow, MaxLogs} \subseteq Nat
  /\ Second <= MaxNow

VARIABLES
  loop,       \* where the caller is
  stamp,      \* its local `now'
  ws_connected, last_log_unix_seconds, logs_per_minute,
  logs_per_minute_by_type,  \* gauges
  total, by_type,           \* RateState
  updater,    \* the updater task: running, told, stopped
  server,     \* the server task: serving, told, draining, stopped
  request,    \* client -> idle, connected, log, age, ok, unhealthy
  last_log,   \* client -> what its handler has read of last_log_unix_seconds
  now, ticks, \* the time, and the updater's ticks so far
  logged,     \* history: the stamps of all logs, and those of each type
  typed,
  witnessed   \* history: the clients for whose request a healthy moment was met

gauges   == <<ws_connected, last_log_unix_seconds>>
rates    == <<logs_per_minute, logs_per_minute_by_type, total, by_type>>
requests == <<request, last_log>>
history  == <<logged, typed>>
steps    == <<loop, stamp, gauges, rates, updater, server, requests, now, ticks, history>>
vars     == <<steps, witnessed>>

\* Mutant: as_millis() for as_secs().
UnixMillis == now * 1000

\* current_unix_timestamp_seconds
UnixSeconds == now \div Second

-----------------------------------------------------------------------------
Init ==
  /\ loop = "down"
  /\ stamp = 0
  /\ ws_connected = 0
  /\ last_log_unix_seconds = 0
  /\ logs_per_minute = 0
  /\ logs_per_minute_by_type = [t \in Types |-> 0]
  /\ total = <<>>
  /\ by_type = [t \in Types |-> <<>>]
  /\ updater = "running"
  /\ server = "serving"
  /\ request = [c \in Clients |-> "idle"]
  /\ last_log = [c \in Clients |-> 0]
  /\ now = Second
  /\ ticks = 0
  /\ logged = <<>>
  /\ typed = [t \in Types |-> <<>>]
  /\ witnessed = {}

-----------------------------------------------------------------------------
(* The windows *)

\* Mutant: an entry that is exactly as old as the window is dropped.
PrunedEarly(entries) == SelectSeq(entries, LAMBDA at : at > now - Window)

\* Entries are pushed in the order of their stamps, so those at the front that
\* are older than the cutoff are all that are.
Pruned(entries) ==
  LET old == {k \in DOMAIN entries : \A i \in 1 .. k : entries[i] < now - Window}
  IN SubSeq(entries, Cardinality(old) + 1, Len(entries))

\* prune_and_recalculate_rates
Recalculate(all, of_type) ==
  /\ total' = Pruned(all)
  /\ by_type' = [t \in Types |-> Pruned(of_type[t])]
  /\ logs_per_minute' = Len(total')
  /\ logs_per_minute_by_type' = [t \in Types |-> Len(by_type'[t])]

-----------------------------------------------------------------------------
(* The frontfill loop *)

CallerOnly == UNCHANGED <<server, requests, now, ticks>>

Subscribed ==
  /\ loop = "down"
  /\ loop' = "up"
  /\ ws_connected' = 1
  /\ CallerOnly
  /\ UNCHANGED <<stamp, last_log_unix_seconds, rates, updater, history>>

StreamEnds ==
  /\ loop = "up"
  /\ loop' = "down"
  /\ ws_connected' = 0
  /\ CallerOnly
  /\ UNCHANGED <<stamp, last_log_unix_seconds, rates, updater, history>>

\* observe_log, before its lock and after it
ObserveLog ==
  /\ loop = "up"
  /\ Len(logged) < MaxLogs
  /\ loop' = "observing"
  /\ last_log_unix_seconds' = UnixSeconds
  /\ stamp' = now
  /\ CallerOnly
  /\ UNCHANGED <<ws_connected, rates, updater, history>>

PushLog ==
  /\ loop = "observing"
  /\ loop' = "observed"
  /\ Recalculate(Append(total, stamp), by_type)
  /\ logged' = Append(logged, stamp)
  /\ CallerOnly
  /\ UNCHANGED <<stamp, gauges, updater, typed>>

\* The log is of no event.
Ignored ==
  /\ loop = "observed"
  /\ loop' = "up"
  /\ CallerOnly
  /\ UNCHANGED <<stamp, gauges, rates, updater, history>>

\* observe_decoded_type, before its lock and after it
ObserveDecodedType ==
  /\ loop = "observed"
  /\ loop' = "typing"
  /\ stamp' = now
  /\ CallerOnly
  /\ UNCHANGED <<gauges, rates, updater, history>>

PushType(t) ==
  /\ loop = "typing"
  /\ loop' = "up"
  /\ Recalculate(total, [by_type EXCEPT ![t] = Append(@, stamp)])
  /\ typed' = [typed EXCEPT ![t] = Append(@, stamp)]
  /\ CallerOnly
  /\ UNCHANGED <<stamp, gauges, updater, logged>>

-----------------------------------------------------------------------------
(* Shutdown: the updater is told and awaited, and then the server *)

\* A return of the loop that takes the runtime.
Stop ==
  /\ loop \in {"up", "observed"}
  /\ loop' = "stopping"
  /\ ws_connected' = 0
  /\ CallerOnly
  /\ UNCHANGED <<stamp, last_log_unix_seconds, rates, updater, history>>

\* Mutant: the updater is awaited before it is told.
AwaitUpdater ==
  /\ loop = "stopping"
  /\ loop' = "updater"
  /\ CallerOnly
  /\ UNCHANGED <<stamp, gauges, rates, updater, history>>

TellUpdater ==
  /\ loop = "stopping"
  /\ loop' = "updater"
  /\ updater' = "told"
  /\ CallerOnly
  /\ UNCHANGED <<stamp, gauges, rates, history>>

TellServer ==
  /\ loop = "updater"
  /\ updater = "stopped"
  /\ loop' = "server"
  /\ server' = "told"
  /\ UNCHANGED <<stamp, gauges, rates, updater, requests, now, ticks, history>>

Return ==
  /\ loop = "server"
  /\ server = "stopped"
  /\ loop' = "ended"
  /\ CallerOnly
  /\ UNCHANGED <<stamp, gauges, rates, updater, history>>

\* A return of the loop that does not: no connection can be built, or a rotation
\* or the close after the signal fails.  The process ends with its tasks.
ReturnWithout ==
  /\ loop \in {"down", "up", "observed"}
  /\ loop' = "ended"
  /\ updater' = "stopped"
  /\ server' = "stopped"
  /\ request' = [c \in Clients |-> "idle"]
  /\ UNCHANGED <<stamp, gauges, rates, last_log, now, ticks, history>>

-----------------------------------------------------------------------------
(* The updater, whose interval makes up for late ticks *)

Deadline == Second * (1 + ticks)

Tick ==
  /\ updater # "stopped"
  /\ now >= Deadline
  /\ ticks' = ticks + 1
  /\ Recalculate(total, by_type)
  /\ UNCHANGED <<loop, stamp, gauges, updater, server, requests, now, history>>

UpdaterBreaks ==
  /\ updater = "told"
  /\ updater' = "stopped"
  /\ UNCHANGED <<loop, stamp, gauges, rates, server, requests, now, ticks, history>>

-----------------------------------------------------------------------------
(* The server: is_healthy in its three reads *)

ServerOnly == UNCHANGED <<loop, stamp, gauges, rates, updater, now, ticks, history>>

Ask(c) ==
  /\ server \in {"serving", "told"}
  /\ request[c] = "idle"
  /\ request' = [request EXCEPT ![c] = "connected"]
  /\ ServerOnly
  /\ UNCHANGED <<server, last_log>>

ReadConnected(c) ==
  /\ request[c] = "connected"
  /\ request' = [request EXCEPT ![c] = IF ws_connected = 0 THEN "unhealthy" ELSE "log"]
  /\ ServerOnly
  /\ UNCHANGED <<server, last_log>>

ReadLastLog(c) ==
  /\ request[c] = "log"
  /\ last_log' = [last_log EXCEPT ![c] = last_log_unix_seconds]
  /\ request' = [request EXCEPT ![c] =
                   IF last_log_unix_seconds = 0 THEN "unhealthy" ELSE "age"]
  /\ ServerOnly
  /\ UNCHANGED server

\* Mutant: one second too many.
IsFreshOrNearly(seconds) == UnixSeconds - seconds <= MaxStaleness + 1

\* saturating_sub is of no effect while the clock does not go back.
IsFresh(seconds) == UnixSeconds - seconds <= MaxStaleness

ReadAge(c) ==
  /\ request[c] = "age"
  /\ request' = [request EXCEPT ![c] = IF IsFresh(last_log[c]) THEN "ok" ELSE "unhealthy"]
  /\ ServerOnly
  /\ UNCHANGED <<server, last_log>>

\* The client has its answer.
Answered(c) ==
  /\ request[c] \in {"ok", "unhealthy"}
  /\ request' = [request EXCEPT ![c] = "idle"]
  /\ last_log' = [last_log EXCEPT ![c] = 0]
  /\ ServerOnly
  /\ UNCHANGED server

\* Graceful shutdown: no new request, and the open ones are finished.
Drain ==
  /\ server = "told"
  /\ server' = "draining"
  /\ ServerOnly
  /\ UNCHANGED requests

ServerEnds ==
  /\ server = "draining"
  /\ \A c \in Clients : request[c] = "idle"
  /\ server' = "stopped"
  /\ ServerOnly
  /\ UNCHANGED requests

-----------------------------------------------------------------------------
\* The updater is polled not much later than a tick is due.
Pass ==
  /\ now < MaxNow
  /\ updater # "stopped" => now < Deadline + MaxDelay
  /\ now' = now + 1
  /\ UNCHANGED <<loop, stamp, gauges, rates, updater, server, requests, ticks, history>>

LoopStep     == \/ Subscribed \/ StreamEnds \/ ObserveLog \/ PushLog \/ Ignored
                \/ ObserveDecodedType \/ \E t \in Types : PushType(t)
                \/ Stop \/ ReturnWithout
ShutdownStep == TellUpdater \/ TellServer \/ Return
ServerStep   == Drain \/ ServerEnds
HandlerStep(c) == ReadConnected(c) \/ ReadLastLog(c) \/ ReadAge(c)

Step == \/ LoopStep \/ ShutdownStep \/ Tick \/ UpdaterBreaks \/ ServerStep
        \/ \E c \in Clients : Ask(c) \/ HandlerStep(c) \/ Answered(c)
        \/ Pass

\* The process is up to date, in the sense of its documentation: connected, and
\* with a log in the last max_staleness_seconds, counted in whole seconds.
Healthy ==
  /\ loop \in {"up", "observing", "observed", "typing"}
  /\ last_log_unix_seconds > 0
  /\ UnixSeconds - last_log_unix_seconds <= MaxStaleness

Asking == {c \in Clients : request[c] # "idle"}

Next ==
  \/ Step /\ witnessed' = {c \in Asking' : c \in witnessed \/ Healthy'}
  \/ now = MaxNow /\ UNCHANGED vars

Spec == Init /\ [][Next]_vars

\* The tasks are polled, and a client that has asked takes its answer.
FairSpec ==
  /\ Spec
  /\ WF_vars(ShutdownStep /\ Next) /\ WF_vars(UpdaterBreaks /\ Next) /\ WF_vars(ServerStep /\ Next)
  /\ \A c \in Clients : WF_vars(HandlerStep(c) /\ Next) /\ WF_vars(Answered(c) /\ Next)

-----------------------------------------------------------------------------
Times == 0 .. MaxNow

TypeOK ==
  /\ loop \in {"down", "up", "observing", "observed", "typing", "stopping",
               "updater", "server", "ended"}
  /\ stamp \in Times
  /\ ws_connected \in {0, 1}
  /\ last_log_unix_seconds \in Times
  /\ logs_per_minute \in 0 .. MaxLogs
  /\ logs_per_minute_by_type \in [Types -> 0 .. MaxLogs]
  /\ total \in Seq(Times) /\ logged \in Seq(Times)
  /\ by_type \in [Types -> Seq(Times)] /\ typed \in [Types -> Seq(Times)]
  /\ updater \in {"running", "told", "stopped"}
  /\ server \in {"serving", "told", "draining", "stopped"}
  /\ request \in [Clients -> {"idle", "connected", "log", "age", "ok", "unhealthy"}]
  /\ last_log \in [Clients -> Times]
  /\ now \in Times /\ ticks \in Nat
  /\ witnessed \subseteq Clients

Since(at, stamps) == Cardinality({i \in DOMAIN stamps : stamps[i] >= at})

\* spec/0010_frontfill-prometheus-metrics.md:54 has the gauges show a sliding
\* window of 60 seconds: a gauge counts every log of the last minute, and none
\* that is older by more than the time between two ticks and the delay of one,
\* also when no log arrives, whoever updated it last.
RatesAreOfLastMinute ==
  LET Shows(gauge, stamps) ==
        /\ gauge >= Since(now - Window, stamps)
        /\ updater = "running" =>
             gauge <= Since(now - Window - Second - MaxDelay, stamps)
  IN /\ Shows(logs_per_minute, logged)
     /\ \A t \in Types : Shows(logs_per_minute_by_type[t], typed[t])

\* The handler reads two gauges and the clock at three moments, and the loop
\* updates them in between; yet an answer of "ok" is true of one moment between
\* the request and its answer.
OkIsOfOneMoment == \A c \in Clients : request[c] = "ok" => c \in witnessed

\* A shutdown ends, if clients take their answers: the updater and the server
\* are each told before they are awaited, and neither needs the other.
ShutdownEnds == loop = "stopping" ~> loop = "ended"

-----------------------------------------------------------------------------
(* What makes the invariants inductive *)

IsStale(seconds) == seconds > 0 => UnixSeconds - seconds > MaxStaleness

\* A handler whose request has met no healthy moment, connected as it found the
\* loop, can only have found or will only find a last log that is too old.
HandlersFindStale ==
  /\ ws_connected = 1 =>
       loop \in {"up", "observing", "observed", "typing"} \/ server = "stopped"
  /\ server # "serving" => loop \in {"server", "ended"}
  /\ server = "stopped" => Asking = {}
  /\ \A c \in Clients \ witnessed :
       /\ request[c] = "log" => IsStale(last_log_unix_seconds)
       /\ request[c] = "age" => last_log[c] > 0 /\ IsStale(last_log[c])

TimesAgree ==
  /\ Second <= now /\ stamp <= now
  /\ Second * ticks <= now
  /\ updater # "stopped" => now <= Deadline + MaxDelay
  /\ updater # "running" => loop \in {"updater", "server", "ended"}
  /\ Len(logged) + (IF loop = "observing" THEN 1 ELSE 0) <= MaxLogs
  /\ \A t \in Types :
       Len(typed[t]) + (IF loop \in {"observed", "typing"} THEN 1 ELSE 0) <= Len(logged)

\* A window is the stamps without some first ones, which are too old; the others
\* were not at the last tick.
Keeps(entries, stamps) ==
  LET dropped == Len(stamps) - Len(entries)
  IN /\ dropped >= 0
     /\ \A k \in DOMAIN entries : /\ entries[k] = stamps[dropped + k]
                                  /\ entries[k] >= Second * ticks - Window
     /\ \A i \in 1 .. dropped : stamps[i] < now - Window
     /\ \A i \in DOMAIN stamps :
          stamps[i] <= stamp /\ \A j \in DOMAIN stamps : i <= j => stamps[i] <= stamps[j]

WindowsFollowLogs ==
  /\ Keeps(total, logged) /\ logs_per_minute = Len(total)
  /\ \A t \in Types : /\ Keeps(by_type[t], typed[t])
                      /\ logs_per_minute_by_type[t] = Len(by_type[t])

RuntimeInv ==
  TypeOK /\ OkIsOfOneMoment /\ HandlersFindStale /\ TimesAgree /\ WindowsFollowLogs
=============================================================================
