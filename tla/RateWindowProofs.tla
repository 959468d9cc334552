-------------------------- MODULE RateWindowProofs --------------------------
(***************************************************************************)
(* Proof, for every limit, resolution and delay of the ticks, that the     *)
(* rate limiter caps the average rate, and bounds the calls of any second. *)
(***************************************************************************)
EXTENDS RateWindow, TLAPS

Inv == TypeOK /\ PermitsComeFromTicks

\* The constants, for the steps that calculate.
LEMMA Constants ==
  /\ MaxPerSecond \in Nat /\ NoRead \notin Nat
  /\ Second \in Nat /\ Second > 0 /\ MaxNow \in Nat
BY MaxPerSecondAssumption, NoReadAssumption, SecondAssumption, MaxNowAssumption

LEMMA ProductIsNat == ASSUME NEW m \in Nat, NEW n \in Nat PROVE m * n \in Nat
OBVIOUS

\* One tick more is max_per_second permits more.
LEMMA OneMore ==
  ASSUME NEW m \in Nat, NEW n \in Nat
  PROVE  m * (1 + n) = m + m * n /\ m * (1 + (n + 1)) = m + m * (n + 1)
                                 /\ m * (n + 1) = m + m * n
OBVIOUS

\* The next tick is not due before all the seconds before it have passed.
LEMMA TickIsDue ==
  ASSUME NEW n \in Nat, NEW t \in Nat, Second \in Nat, Second > 0, t >= n * Second
  PROVE  n <= t \div Second
OBVIOUS

\* Time that passes completes no fewer seconds.
LEMMA SecondsGrow ==
  ASSUME NEW t \in Nat, Second \in Nat, Second > 0
  PROVE  t \div Second <= (t + 1) \div Second /\ t \div Second \in Nat
OBVIOUS

LEMMA Started == Init => Inv
<1> SUFFICES ASSUME Init PROVE Inv
  OBVIOUS
<1>1. TypeOK
  BY Constants DEF Init, TypeOK
<1>2. 0 \div Second = 0
  BY Constants
<1>3. PermitsComeFromTicks
  BY <1>2, Constants DEF Init, PermitsComeFromTicks
<1> QED BY <1>1, <1>3 DEF Inv

LEMMA Stepped == Inv /\ [Next]_vars => Inv'
<1> SUFFICES ASSUME Inv, [Next]_vars PROVE Inv'
  OBVIOUS
<1> USE Constants DEF Inv
<1>0. /\ permits \in Nat /\ permits <= MaxPerSecond /\ now \in Nat /\ ticks \in Nat
      /\ Len(calls) \in Nat /\ calls \in Seq(0 .. MaxNow)
  BY DEF TypeOK
<1>1. CASE Call
  <2>1. /\ permits' = permits - 1 /\ permits > 0
        /\ UNCHANGED <<available, now, ticks>>
        /\ calls' = Append(calls, now)
    BY <1>1 DEF Call, Acquire
  <2>2. now \in 0 .. MaxNow
    BY DEF TypeOK
  <2>3. calls' \in Seq(0 .. MaxNow) /\ Len(calls') = Len(calls) + 1
    BY <1>0, <2>1, <2>2
  <2>4. TypeOK'
    BY <1>0, <2>1, <2>3 DEF TypeOK
  <2>5. Len(calls') + permits' = Len(calls) + permits
    BY <1>0, <2>1, <2>3
  <2>6. available # NoRead => permits' <= available
    BY <1>0, <2>1 DEF PermitsComeFromTicks, TypeOK
  <2>7. PermitsComeFromTicks'
    BY <2>1, <2>5, <2>6 DEF PermitsComeFromTicks
  <2> QED BY <2>4, <2>7
<1>2. CASE Tick
  <2>1. /\ now >= ticks * Second
        /\ available = NoRead /\ available' = permits
        /\ ticks' = ticks + 1
        /\ UNCHANGED <<permits, now, calls>>
    BY <1>2 DEF Tick, RefillRead, Deadline
  <2>2. TypeOK'
    BY <1>0, <2>1 DEF TypeOK
  <2>3. available' # NoRead
    BY <1>0, <2>1
  <2>4. ticks' <= 1 + now' \div Second
    <3>1. ticks <= now \div Second /\ now \div Second \in Nat
      BY <1>0, <2>1, TickIsDue, SecondsGrow
    <3> QED BY <1>0, <2>1, <3>1
  <2>5. Len(calls') + permits' <= MaxPerSecond * ticks'
    <3>1. Len(calls) + permits <= MaxPerSecond * (1 + ticks)
      BY <2>1 DEF PermitsComeFromTicks
    <3>2. 1 + ticks = ticks'
      BY <1>0, <2>1
    <3> QED BY <2>1, <3>1, <3>2
  <2>6. permits' <= available'
    BY <1>0, <2>1
  <2> QED BY <2>2, <2>3, <2>4, <2>5, <2>6 DEF PermitsComeFromTicks
<1>3. CASE Refill
  <2>1. /\ available # NoRead /\ available' = NoRead
        /\ permits' = IF available < MaxPerSecond
                        THEN permits + (MaxPerSecond - available) ELSE permits
        /\ UNCHANGED <<now, ticks, calls>>
    BY <1>3 DEF Refill, RefillAdd
  <2>2. /\ available \in Nat /\ available <= MaxPerSecond /\ permits <= available
        /\ Len(calls) + permits <= MaxPerSecond * ticks
        /\ ticks <= 1 + now \div Second
    BY <2>1 DEF TypeOK, PermitsComeFromTicks
  <2>3. permits' \in 0 .. MaxPerSecond /\ permits' <= permits + MaxPerSecond
    BY <1>0, <2>1, <2>2
  <2>4. TypeOK'
    BY <2>1, <2>3 DEF TypeOK
  <2>5. Len(calls) + permits' <= MaxPerSecond * (1 + ticks)
    <3>1. MaxPerSecond * (1 + ticks) = MaxPerSecond + MaxPerSecond * ticks
      BY <1>0, OneMore
    <3>2. MaxPerSecond * ticks \in Nat
      BY <1>0, ProductIsNat
    <3> QED BY <1>0, <2>2, <2>3, <3>1, <3>2
  <2> QED BY <2>1, <2>2, <2>4, <2>5 DEF PermitsComeFromTicks
<1>4. CASE Pass
  <2>1. /\ now < MaxNow /\ now' = now + 1
        /\ UNCHANGED <<permits, available, ticks, calls>>
    BY <1>4 DEF Pass, limiterVars
  <2>2. TypeOK'
    BY <1>0, <2>1 DEF TypeOK
  <2>3. ticks <= 1 + now' \div Second
    <3>1. /\ now \div Second <= (now + 1) \div Second /\ now \div Second \in Nat
          /\ (now + 1) \div Second \in Nat
      BY <1>0, SecondsGrow
    <3>2. ticks <= 1 + now \div Second
      BY DEF PermitsComeFromTicks
    <3> QED BY <1>0, <2>1, <3>1, <3>2
  <2> QED BY <2>1, <2>2, <2>3 DEF PermitsComeFromTicks
<1>5. CASE UNCHANGED vars
  BY <1>5 DEF vars, limiterVars, TypeOK, PermitsComeFromTicks
<1> QED BY <1>1, <1>2, <1>3, <1>4, <1>5 DEF Next, RunEnds

\* The calls never get ahead of the permits of the start and of the ticks: no
\* interleaving of acquire() with the two steps of a refill makes a permit.
THEOREM PermitsConserved == Spec => []PermitsComeFromTicks
<1>1. Spec => []Inv
  BY Started, Stepped, PTL DEF Spec
<1>2. Inv => PermitsComeFromTicks
  BY DEF Inv
<1> QED BY <1>1, <1>2, PTL

\* Over any time the calls are at most max_per_second a second, plus those of two
\* seconds.
THEOREM AverageCapped == Spec => []AverageIsCapped
<1>1. Spec => []Inv
  BY Started, Stepped, PTL DEF Spec
<1>2. Inv => AverageIsCapped
  <2> SUFFICES ASSUME Inv PROVE AverageIsCapped
    OBVIOUS
  <2>1. /\ permits \in Nat /\ now \in Nat /\ ticks \in Nat /\ Len(calls) \in Nat
    BY Constants DEF Inv, TypeOK
  <2>2. PICK s \in Nat : s = now \div Second
    BY <2>1, Constants, SecondsGrow
  <2>3. ticks <= 1 + s
    BY <2>2 DEF Inv, PermitsComeFromTicks
  <2>4. Len(calls) <= MaxPerSecond * (1 + ticks)
    <3>1. MaxPerSecond * (1 + ticks) = MaxPerSecond + MaxPerSecond * ticks
      BY <2>1, Constants, OneMore
    <3>2. MaxPerSecond * ticks \in Nat
      BY <2>1, Constants, ProductIsNat
    <3>3. CASE available = NoRead
      BY <2>1, <3>1, <3>2, <3>3, Constants DEF Inv, PermitsComeFromTicks
    <3>4. CASE available # NoRead
      BY <2>1, <3>1, <3>2, <3>4, Constants DEF Inv, PermitsComeFromTicks
    <3> QED BY <3>3, <3>4
  <2>5. MaxPerSecond * (1 + ticks) <= MaxPerSecond * (2 + s)
    <3>1. PICK d \in Nat : d = (1 + s) - ticks
      BY <2>1, <2>2, <2>3
    <3>2. MaxPerSecond * ((1 + ticks) + d)
            = MaxPerSecond * (1 + ticks) + MaxPerSecond * d
      BY <2>1, <3>1, Constants
    <3>3. MaxPerSecond * d \in Nat /\ MaxPerSecond * (1 + ticks) \in Nat
      BY <2>1, Constants, ProductIsNat
    <3>4. 2 + s = (1 + ticks) + d
      BY <2>1, <2>2, <3>1
    <3> QED BY <3>2, <3>3, <3>4
  <2>6. MaxPerSecond * (1 + ticks) \in Nat /\ MaxPerSecond * (2 + s) \in Nat
    BY <2>1, <2>2, Constants, ProductIsNat
  <2> QED BY <2>1, <2>2, <2>4, <2>5, <2>6 DEF AverageIsCapped
<1> QED BY <1>1, <1>2, PTL

\* The semaphore never has more than max_per_second permits, whatever calls fall
\* between the two steps of a refill.
THEOREM RateTypeCorrect == Spec => []TypeOK
<1>1. Spec => []Inv
  BY Started, Stepped, PTL DEF Spec
<1>2. Inv => TypeOK
  BY DEF Inv
<1> QED BY <1>1, <1>2, PTL

-----------------------------------------------------------------------------
(* The calls of any second *)

Adding == IF available = NoRead THEN 0 ELSE MaxPerSecond - available

CameSince(i, k) ==
  /\ calls[i] <= k * Second + MaxDelay
  /\ Len(calls) - i + 1 + permits + Adding <= MaxPerSecond * (1 + ticks - k)

LEMMA SinceCalls ==
  PermitsSinceCalls <=> /\ now <= Deadline + MaxDelay
                        /\ \A i \in DOMAIN calls : \E k \in 0 .. ticks : CameSince(i, k)
BY DEF PermitsSinceCalls, CameSince, Adding

WindowInv == Inv /\ PermitsSinceCalls /\ WindowIsBounded

\* The largest number of seconds in a span.
LEMMA SecondsIn ==
  ASSUME NEW x \in Int, NEW span \in Nat, Second \in Nat, Second > 0, x * Second <= span
  PROVE  x <= span \div Second
OBVIOUS

\* Ticks before a time.
LEMMA TicksBefore ==
  ASSUME NEW n \in Nat, NEW t \in Nat, Second \in Nat, Second > 0, n <= 1 + t \div Second
  PROVE  (n - 1) * Second <= t
<1>1. PICK q \in Nat : q = t \div Second /\ q * Second <= t
  OBVIOUS
<1>2. PICK d \in Nat : d = q - (n - 1)
  BY <1>1
<1>3. PICK m \in Int : m = n - 1
  OBVIOUS
<1>4. q = m + d
  BY <1>1, <1>2, <1>3
<1>5. q * Second = m * Second + d * Second
  BY <1>4, <1>2, <1>3
<1>6. d * Second \in Nat /\ m * Second \in Int /\ q * Second \in Int
  BY <1>1, <1>2, <1>3
<1> QED BY <1>1, <1>3, <1>5, <1>6

\* A product grows with its factor.
LEMMA ProductGrows ==
  ASSUME NEW m \in Nat, NEW x \in Int, NEW y \in Int, x <= y
  PROVE  m * x <= m * y
<1>1. PICK d \in Nat : y = x + d
  OBVIOUS
<1>2. m * y = m * x + m * d
  BY <1>1
<1>3. m * d \in Nat /\ m * x \in Int
  BY <1>1
<1> QED BY <1>2, <1>3

\* A tick after the call adds max_per_second to what may be used since.
LEMMA OneTickMore ==
  ASSUME NEW m \in Nat, NEW n \in Nat, NEW k \in Nat
  PROVE  m * (1 + (n + 1) - k) = m + m * (1 + n - k) /\ m * (1 + n - k) \in Int
<1>1. PICK x \in Int : x = 1 + n - k
  OBVIOUS
<1>2. 1 + (n + 1) - k = x + 1
  BY <1>1
<1>3. m * (x + 1) = m + m * x /\ m * x \in Int
  BY <1>1
<1> QED BY <1>1, <1>2, <1>3

\* The call that has just been made uses a permit of those there are.
LEMMA NewCall ==
  ASSUME Inv, Call
  PROVE  LET j == Len(calls) + 1 IN
         /\ calls' = Append(calls, now) /\ calls'[j] = now
         /\ Len(calls') = j /\ j \in Nat /\ DOMAIN calls' = 1 .. j
         /\ \A i \in 1 .. Len(calls) : calls'[i] = calls[i]
         /\ permits' = permits - 1 /\ Adding' = Adding /\ ticks' = ticks /\ now' = now
         /\ permits + Adding <= MaxPerSecond
         /\ permits \in Nat /\ Adding \in Nat /\ ticks \in Nat /\ now \in Nat
<1> USE Constants
<1>1. /\ calls' = Append(calls, now) /\ permits' = permits - 1
      /\ UNCHANGED <<available, ticks, now>>
  BY DEF Call, Acquire
<1>2. calls \in Seq(0 .. MaxNow) /\ now \in 0 .. MaxNow /\ ticks \in Nat /\ permits \in Nat
      /\ permits <= MaxPerSecond
  BY DEF Inv, TypeOK
<1>3. /\ Len(calls) + 1 \in Nat /\ Len(calls') = Len(calls) + 1
      /\ DOMAIN calls' = 1 .. (Len(calls) + 1)
      /\ calls'[Len(calls) + 1] = now
      /\ \A i \in 1 .. Len(calls) : calls'[i] = calls[i]
  BY <1>1, <1>2
<1>4. Adding' = Adding
  BY <1>1 DEF Adding
<1>5. permits + Adding <= MaxPerSecond /\ Adding \in Nat
  BY <1>2 DEF Adding, Inv, TypeOK, PermitsComeFromTicks
<1> QED BY <1>1, <1>2, <1>3, <1>4, <1>5

LEMMA SinceCallsAfterCall ==
  ASSUME WindowInv, Call
  PROVE  PermitsSinceCalls'
<1> USE Constants
<1>0. MaxDelay \in Nat
  BY MaxDelayAssumption
<1>1. Inv /\ now <= Deadline + MaxDelay
  BY SinceCalls DEF WindowInv
<1>2. PICK j \in Nat : j = Len(calls) + 1
  BY DEF WindowInv, Inv, TypeOK
<1>3. /\ calls'[j] = now /\ Len(calls') = j /\ DOMAIN calls' = 1 .. j
      /\ \A i \in 1 .. (j - 1) : calls'[i] = calls[i]
      /\ permits' = permits - 1 /\ Adding' = Adding /\ ticks' = ticks /\ now' = now
      /\ permits + Adding <= MaxPerSecond
      /\ permits \in Nat /\ Adding \in Nat /\ ticks \in Nat /\ now \in Nat
      /\ Len(calls) = j - 1 /\ DOMAIN calls = 1 .. (j - 1)
  <2>1. Len(calls) \in Nat /\ DOMAIN calls = 1 .. Len(calls)
    BY DEF WindowInv, Inv, TypeOK
  <2>2. Len(calls) = j - 1
    BY <1>2, <2>1
  <2> QED BY <1>1, <1>2, <2>1, <2>2, NewCall
<1>4. CameSince(j, ticks)'
  <2>1. MaxPerSecond * (1 + ticks - ticks) = MaxPerSecond
    BY <1>3
  <2>2. calls'[j] <= ticks' * Second + MaxDelay
    BY <1>1, <1>3 DEF Deadline
  <2>3. Len(calls') - j + 1 + permits' + Adding' <= MaxPerSecond
    BY <1>3
  <2> QED BY <1>3, <2>1, <2>2, <2>3 DEF CameSince
<1>5. ASSUME NEW i \in 1 .. (j - 1)
      PROVE  \E k \in 0 .. ticks : CameSince(i, k)'
  <2>1. PICK k \in 0 .. ticks : CameSince(i, k)
    BY <1>3, SinceCalls DEF WindowInv
  <2>2. Len(calls') - i + 1 + permits' + Adding' = Len(calls) - i + 1 + permits + Adding
    BY <1>2, <1>3
  <2> QED BY <1>3, <2>1, <2>2 DEF CameSince
<1>6. \A i \in DOMAIN calls' : \E k \in 0 .. ticks' : CameSince(i, k)'
  <2> SUFFICES ASSUME NEW i \in 1 .. j PROVE \E k \in 0 .. ticks : CameSince(i, k)'
    BY <1>3
  <2>1. CASE i = j
    BY <1>3, <1>4, <2>1
  <2>2. CASE i # j
    BY <1>2, <1>5, <2>2
  <2> QED BY <2>1, <2>2
<1>7. now' <= Deadline' + MaxDelay
  BY <1>1, <1>3 DEF Deadline
<1> QED BY <1>6, <1>7 DEF PermitsSinceCalls, CameSince, Adding

LEMMA SinceCallsAfterTick ==
  ASSUME WindowInv, Tick
  PROVE  PermitsSinceCalls'
<1> USE Constants
<1>0. MaxDelay \in Nat
  BY MaxDelayAssumption
<1>1. Inv /\ now <= Deadline + MaxDelay
  BY SinceCalls DEF WindowInv
<1>2. /\ available = NoRead /\ available' = permits /\ ticks' = ticks + 1
      /\ UNCHANGED <<permits, now, calls>>
  BY DEF Tick, RefillRead
<1>3. /\ permits \in Nat /\ permits <= MaxPerSecond /\ ticks \in Nat /\ now \in Nat
      /\ Len(calls) \in Nat /\ DOMAIN calls = 1 .. Len(calls)
  BY <1>1 DEF Inv, TypeOK
<1>4. Adding = 0 /\ Adding' = MaxPerSecond - permits
  BY <1>2, <1>3 DEF Adding
<1>5. ASSUME NEW i \in DOMAIN calls
      PROVE  \E k \in 0 .. ticks' : CameSince(i, k)'
  <2>1. PICK k \in 0 .. ticks : CameSince(i, k)
    BY SinceCalls DEF WindowInv
  <2>2. /\ calls[i] <= k * Second + MaxDelay
        /\ Len(calls) - i + 1 + permits <= MaxPerSecond * (1 + ticks - k)
    BY <1>3, <1>4, <2>1 DEF CameSince
  <2>3. /\ MaxPerSecond * (1 + (ticks + 1) - k) = MaxPerSecond + MaxPerSecond * (1 + ticks - k)
        /\ MaxPerSecond * (1 + ticks - k) \in Int
    BY <1>3, OneTickMore
  <2>4. Len(calls) - i + 1 + permits + (MaxPerSecond - permits)
          <= MaxPerSecond * (1 + (ticks + 1) - k)
    BY <1>3, <2>2, <2>3
  <2>5. k \in 0 .. ticks'
    BY <1>2, <1>3
  <2>6. CameSince(i, k)'
    BY <1>2, <1>4, <2>2, <2>4 DEF CameSince
  <2> QED BY <2>5, <2>6
<1>6. now' <= Deadline' + MaxDelay
  <2>1. ticks' * Second = ticks * Second + Second /\ ticks * Second \in Int
    BY <1>2, <1>3
  <2> QED BY <1>0, <1>1, <1>2, <1>3, <2>1 DEF Deadline
<1>7. DOMAIN calls' = DOMAIN calls
  BY <1>2
<1> QED BY <1>5, <1>6, <1>7 DEF PermitsSinceCalls, CameSince, Adding

LEMMA SinceCallsAfterRefill ==
  ASSUME WindowInv, Refill
  PROVE  PermitsSinceCalls'
<1> USE Constants
<1>1. Inv /\ now <= Deadline + MaxDelay
  BY SinceCalls DEF WindowInv
<1>2. /\ available # NoRead /\ available' = NoRead
      /\ permits' = IF available < MaxPerSecond THEN permits + (MaxPerSecond - available) ELSE permits
      /\ UNCHANGED <<now, ticks, calls>>
  BY DEF Refill, RefillAdd
<1>3. available \in Nat /\ available <= MaxPerSecond /\ permits \in Nat
  BY <1>1, <1>2 DEF Inv, TypeOK
<1>4. permits' + Adding' = permits + Adding
      /\ permits' \in Int /\ Adding' \in Int /\ Adding \in Int
  BY <1>2, <1>3 DEF Adding
<1>5. ASSUME NEW i \in DOMAIN calls, NEW k \in 0 .. ticks, CameSince(i, k)
      PROVE  CameSince(i, k)'
  <2>1. Len(calls) \in Nat /\ i \in Nat
    BY <1>1 DEF Inv, TypeOK
  <2>2. Len(calls) - i + 1 + permits' + Adding' = Len(calls) - i + 1 + permits + Adding
    <3>1. PICK x \in Int : x = Len(calls) - i + 1
      BY <2>1
    <3>2. PICK a \in Int : a = Adding
      BY <1>4
    <3>3. PICK b \in Int : b = Adding'
      BY <1>4
    <3>4. PICK p \in Int : p = permits
      BY <1>3
    <3>5. PICK q \in Int : q = permits'
      BY <1>4
    <3>6. q + b = p + a
      BY <1>4, <3>2, <3>3, <3>4, <3>5
    <3>7. x + q + b = x + p + a
      BY <3>6
    <3> QED BY <3>1, <3>2, <3>3, <3>4, <3>5, <3>7
  <2> QED BY <1>2, <1>5, <2>2 DEF CameSince
<1>6. \A i \in DOMAIN calls' : \E k \in 0 .. ticks' : CameSince(i, k)'
  BY <1>2, <1>5, SinceCalls DEF WindowInv
<1>7. now' <= Deadline' + MaxDelay
  BY <1>1, <1>2 DEF Deadline
<1> QED BY <1>6, <1>7 DEF PermitsSinceCalls, CameSince, Adding

LEMMA SinceCallsAfterPass ==
  ASSUME WindowInv, Pass
  PROVE  PermitsSinceCalls'
<1> USE Constants
<1>1. /\ now < Deadline + MaxDelay /\ now' = now + 1
      /\ UNCHANGED <<permits, available, ticks, calls>>
  BY DEF Pass, limiterVars
<1>2. now \in Nat /\ ticks \in Nat /\ Deadline \in Nat /\ MaxDelay \in Nat
  BY MaxDelayAssumption DEF WindowInv, Inv, TypeOK, Deadline
<1>3. now' <= Deadline' + MaxDelay
  <2>1. Deadline' = Deadline
    BY <1>1 DEF Deadline
  <2> QED BY <1>1, <1>2, <2>1
<1>4. \A i \in DOMAIN calls' : \E k \in 0 .. ticks' : CameSince(i, k)'
  BY <1>1, SinceCalls DEF WindowInv, CameSince, Adding
<1> QED BY <1>3, <1>4 DEF PermitsSinceCalls, CameSince, Adding

Bound == MaxPerSecond * (2 + (Second - 1 + MaxDelay) \div Second)

\* The last call comes a second or more after the one that is Bound calls earlier.
LastCallIsInBound ==
  \A i \in DOMAIN calls : i + Bound = Len(calls) => now >= calls[i] + Second

LEMMA CallsAreInBound == Inv /\ PermitsSinceCalls => LastCallIsInBound
<1> SUFFICES ASSUME Inv, PermitsSinceCalls, NEW i \in DOMAIN calls,
                    i + Bound = Len(calls), ~(now >= calls[i] + Second)
             PROVE  FALSE
  BY DEF LastCallIsInBound
<1> USE Constants
<1>0. MaxDelay \in Nat
  BY MaxDelayAssumption
<1>1. /\ permits \in Nat /\ Adding \in Nat /\ ticks \in Nat /\ now \in Nat
      /\ Len(calls) \in Nat /\ i \in Nat /\ calls[i] \in Nat
      /\ ticks <= 1 + now \div Second
  BY DEF Inv, TypeOK, PermitsComeFromTicks, Adding
<1>2. PICK k \in 0 .. ticks : CameSince(i, k)
  BY SinceCalls
<1>3. calls[i] <= k * Second + MaxDelay
  BY <1>2 DEF CameSince
<1>4. Len(calls) - i + 1 + permits + Adding <= MaxPerSecond * (1 + ticks - k)
  BY <1>2 DEF CameSince
<1>5. (ticks - 1) * Second <= now
  BY <1>1, TicksBefore
<1>6. PICK x \in Int : x = ticks - 1 - k
  BY <1>1
<1>7. PICK span \in Nat : span = Second - 1 + MaxDelay
  BY <1>0
<1>8. x * Second <= span
  <2>1. PICK p \in Int : p = (ticks - 1) * Second
    BY <1>1
  <2>2. PICK q \in Int : q = k * Second
    OBVIOUS
  <2>3. x * Second = p - q
    BY <1>1, <1>6, <2>1, <2>2
  <2> QED BY <1>0, <1>1, <1>3, <1>5, <1>7, <2>1, <2>2, <2>3
<1>9. PICK w \in Int : w = span \div Second
  BY <1>7
<1>10. x <= w
  BY <1>7, <1>8, <1>9, SecondsIn
<1>11. PICK y \in Int : y = 1 + ticks - k /\ y <= 2 + w
  BY <1>1, <1>6, <1>9, <1>10
<1>12. MaxPerSecond * y <= MaxPerSecond * (2 + w)
  BY <1>9, <1>11, ProductGrows
<1>13. PICK n \in Int : n = MaxPerSecond * (2 + w)
  BY <1>9
<1>14. PICK m \in Int : m = MaxPerSecond * y
  BY <1>11
<1>15. i + n = Len(calls)
  BY <1>7, <1>9, <1>13 DEF Bound
<1>16. Len(calls) - i + 1 + permits + Adding <= m
  BY <1>4, <1>11, <1>14
<1>17. m <= n
  BY <1>12, <1>13, <1>14
<1>18. PICK a \in Nat : a = Adding
  BY <1>1
<1>19. PICK b \in Nat : b = permits
  BY <1>1
<1>20. PICK len \in Nat : len = Len(calls)
  BY <1>1
<1>21. len - i + 1 + b + a <= m /\ i + n = len
  BY <1>15, <1>16, <1>18, <1>19, <1>20
<1> QED BY <1>1, <1>17, <1>21

LEMMA WindowInvInit == Init => WindowInv
<1> SUFFICES ASSUME Init PROVE WindowInv
  OBVIOUS
<1>1. Inv
  BY Started
<1>2. DOMAIN calls = {} /\ now = 0 /\ ticks = 0
  BY DEF Init
<1>3. now <= Deadline + MaxDelay
  BY <1>2, Constants, MaxDelayAssumption DEF Deadline
<1>4. PermitsSinceCalls
  BY <1>2, <1>3 DEF PermitsSinceCalls
<1>5. WindowIsBounded
  BY <1>2 DEF WindowIsBounded, NoMoreInASecond
<1> QED BY <1>1, <1>4, <1>5 DEF WindowInv

LEMMA WindowInvNext == WindowInv /\ [Next]_vars => WindowInv'
<1> SUFFICES ASSUME WindowInv, [Next]_vars PROVE WindowInv'
  OBVIOUS
<1>1. Inv'
  BY Stepped DEF WindowInv
<1>2. CASE UNCHANGED vars
  <2>1. UNCHANGED <<permits, available, now, ticks, calls>>
    BY <1>2 DEF vars, limiterVars
  <2> QED BY <1>1, <2>1 DEF WindowInv, PermitsSinceCalls, Deadline, WindowIsBounded, NoMoreInASecond
<1>3. PermitsSinceCalls'
  <2>1. CASE UNCHANGED vars
    BY <1>2, <2>1 DEF WindowInv
  <2> QED BY <2>1, SinceCallsAfterCall, SinceCallsAfterTick, SinceCallsAfterRefill,
             SinceCallsAfterPass DEF Next, RunEnds
<1>4. CASE calls' = calls
  BY <1>1, <1>3, <1>4 DEF WindowInv, WindowIsBounded, NoMoreInASecond
<1>5. CASE Call
  <2> SUFFICES ASSUME NEW i \in DOMAIN calls', i + Bound \in DOMAIN calls'
               PROVE  calls'[i + Bound] - calls'[i] >= Second
    BY <1>1, <1>3 DEF WindowInv, WindowIsBounded, NoMoreInASecond, Bound
  <2>1. PICK j \in Nat : j = Len(calls) + 1
    BY DEF WindowInv, Inv, TypeOK
  <2>2. /\ calls'[j] = now /\ Len(calls') = j /\ DOMAIN calls' = 1 .. j
        /\ \A k \in 1 .. Len(calls) : calls'[k] = calls[k]
        /\ now' = now
    BY <1>5, <2>1, NewCall DEF WindowInv
  <2>3. Len(calls) \in Nat /\ DOMAIN calls = 1 .. Len(calls) /\ now \in Nat
    BY Constants DEF WindowInv, Inv, TypeOK
  <2>4. Bound \in Nat
    <3>1. PICK w \in Nat : w = (Second - 1 + MaxDelay) \div Second
      BY Constants, MaxDelayAssumption
    <3> QED BY <3>1, Constants, ProductIsNat DEF Bound
  <2>5. CASE i + Bound = j
    <3>1. LastCallIsInBound'
      BY <1>1, <1>3, CallsAreInBound, PTL
    <3>2. now' >= calls'[i] + Second
      BY <2>2, <2>5, <3>1 DEF LastCallIsInBound, Bound
    <3>3. calls'[i] \in Nat
      BY <1>1, Constants DEF Inv, TypeOK
    <3> QED BY <2>2, <2>3, <2>5, <3>2, <3>3, Constants
  <2>6. CASE i + Bound # j
    <3>1. i \in 1 .. Len(calls) /\ i + Bound \in 1 .. Len(calls)
      BY <2>1, <2>2, <2>3, <2>4, <2>6
    <3>2. calls[i + Bound] - calls[i] >= Second
      BY <2>3, <3>1 DEF WindowInv, WindowIsBounded, NoMoreInASecond, Bound
    <3> QED BY <2>2, <3>1, <3>2
  <2> QED BY <2>5, <2>6
<1> QED BY <1>2, <1>4, <1>5 DEF Next, Tick, Refill, Pass, RunEnds

\* No second has more calls than the permits that were left and those of the
\* ticks that may fall in it, however late they are.
THEOREM WindowBounded == Spec => []WindowIsBounded
<1>1. Spec => []WindowInv
  BY WindowInvInit, WindowInvNext, PTL DEF Spec
<1>2. WindowInv => WindowIsBounded
  BY DEF WindowInv
<1> QED BY <1>1, <1>2, PTL
=============================================================================
