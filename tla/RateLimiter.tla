----------------------------- MODULE RateLimiter -----------------------------
(***************************************************************************)
(* RateLimiter of src/backfill.rs: a semaphore whose permits are taken and *)
(* forgotten by acquire(), and a task that fills it up at each tick of a   *)
(* one-second interval.  The task reads the permits and then adds what was *)
(* missing, and permits are taken by other threads in between.             *)
(*                                                                         *)
(* A permit that tokio has handed to a waiting future is taken here.       *)
(*                                                                         *)
(* A definition marked Mutant is not part of the model: it is a bug, put   *)
(* in the place of the definition after it to see a property fail.         *)
(***************************************************************************)
EXTENDS Integers

CONSTANTS
  MaxPerSecond,  \* max_per_second
  NoRead         \* the refill task is between ticks

ASSUME MaxPerSecondAssumption == MaxPerSecond \in Nat
ASSUME NoReadAssumption == NoRead \notin Nat

VARIABLES
  permits,   \* the semaphore's
  available  \* what the refill task has read, or NoRead

limiterVars == <<permits, available>>

\* RateLimiter::new and spawn_refill
LimiterStarts == permits' = MaxPerSecond /\ available' = NoRead

\* The task is dropped with the tokio runtime.
LimiterStops == available' = NoRead /\ UNCHANGED permits

\* Mutant: the permit is given back, not forgotten.
AcquireWithoutForget == permits > 0 /\ UNCHANGED limiterVars

Acquire == permits > 0 /\ permits' = permits - 1 /\ UNCHANGED available

RefillRead ==
  /\ available = NoRead
  /\ available' = permits
  /\ UNCHANGED permits

\* Mutants: every tick adds a whole second's permits, and an empty semaphore is
\* not filled.
RefillAddAll ==
  /\ available # NoRead
  /\ permits' = permits + MaxPerSecond
  /\ available' = NoRead

RefillAddToSome ==
  /\ available # NoRead
  /\ permits' = IF available > 0 THEN permits + (MaxPerSecond - available) ELSE permits
  /\ available' = NoRead

RefillAdd ==
  /\ available # NoRead
  /\ permits' = IF available < MaxPerSecond
                  THEN permits + (MaxPerSecond - available)
                  ELSE permits
  /\ available' = NoRead
=============================================================================
