------------------------ MODULE MetricsRuntimeProofs ------------------------
(***************************************************************************)
(* Proofs, for every number of clients, event types and logs, every window *)
(* and every delay of the ticks, that the gauges of MetricsRuntime show    *)
(* the logs of the last minute, and that an answer of "ok" is true of one  *)
(* moment of its request.                                                  *)
(***************************************************************************)
EXTENDS MetricsRuntime, TLAPS, FiniteSetTheorems, WellFoundedInduction

\* The constants, for the steps that calculate.
LEMMA Constants ==
  /\ Second \in Nat /\ Second > 0 /\ Window \in Nat /\ MaxStaleness \in Nat
  /\ MaxDelay \in Nat /\ MaxNow \in Nat /\ MaxLogs \in Nat /\ Second <= MaxNow
BY TimesAssumption

-----------------------------------------------------------------------------
(* Windows *)

\* Every nonempty set of numbers has a least one.
LEMMA LeastNumber ==
  ASSUME NEW T, T \subseteq Nat, T # {}
  PROVE  \E x \in T : \A y \in T : x <= y
<1>1. PICK R : R = OpToRel(<, Nat)
  OBVIOUS
<1>2. IsWellFoundedOn(R, Nat)
  BY <1>1, NatLessThanWellFounded
<1>3. PICK x \in T : \A y \in T : ~ (<<y, x>> \in R)
  BY <1>2, WFMin
<1>4. ASSUME NEW y \in T, y < x PROVE <<y, x>> \in R
  BY <1>1, <1>4 DEF OpToRel
<1>5. x \in Nat /\ \A y \in T : y \in Nat
  OBVIOUS
<1>6. \A y \in T : ~ (y < x)
  BY <1>3, <1>4
<1>7. \A y \in T : x <= y
  BY <1>5, <1>6
<1> QED BY <1>7

\* What is pruned: the entries before the first that is not too old.
LEMMA PrunedAt ==
  ASSUME NEW entries \in Seq(Nat), now \in Nat
  PROVE  \E m \in 0 .. Len(entries) :
           /\ Pruned(entries) = SubSeq(entries, m + 1, Len(entries))
           /\ \A i \in 1 .. m : entries[i] < now - Window
           /\ m < Len(entries) => entries[m + 1] >= now - Window
<1> USE Constants
<1>1. PICK n \in Nat : n = Len(entries) /\ DOMAIN entries = 1 .. n
  OBVIOUS
<1>2. \A i \in 1 .. n : entries[i] \in Nat
  BY <1>1
<1>3. PICK recent : recent = {k \in 1 .. n : entries[k] >= now - Window}
  OBVIOUS
<1>4. PICK m \in 0 .. n : /\ \A i \in 1 .. m : entries[i] < now - Window
                          /\ m < n => entries[m + 1] >= now - Window
  <2>1. CASE recent = {}
    <3>1. \A i \in 1 .. n : entries[i] < now - Window
      BY <1>2, <1>3, <2>1
    <3>2. n \in 0 .. n /\ ~(n < n)
      OBVIOUS
    <3> QED BY <3>1, <3>2
  <2>2. CASE recent # {}
    <3>1. recent \subseteq Nat
      BY <1>3
    <3>2. PICK x \in recent : \A y \in recent : x <= y
      BY <2>2, <3>1, LeastNumber
    <3>3. x \in 1 .. n /\ entries[x] >= now - Window
      BY <1>3, <3>2
    <3>4. PICK m \in 0 .. n : m = x - 1
      BY <3>3
    <3>5. \A i \in 1 .. m : entries[i] < now - Window
      BY <1>2, <1>3, <3>2, <3>3, <3>4
    <3>6. m + 1 = x
      BY <3>3, <3>4
    <3> QED BY <3>3, <3>5, <3>6
  <2> QED BY <2>1, <2>2
<1>5. {k \in DOMAIN entries : \A i \in 1 .. k : entries[i] < now - Window} = 1 .. m
  <2>1. ASSUME NEW k \in 1 .. n, k \notin 1 .. m
        PROVE  \E i \in 1 .. k : ~(entries[i] < now - Window)
    <3>1. m + 1 \in 1 .. k /\ m < n
      BY <2>1
    <3> QED BY <1>2, <1>4, <3>1
  <2>2. ASSUME NEW k \in 1 .. m
        PROVE  k \in 1 .. n /\ \A i \in 1 .. k : entries[i] < now - Window
    BY <1>4
  <2> QED BY <1>1, <2>1, <2>2
<1>6. Cardinality(1 .. m) = m
  <2>1. Cardinality(1 .. m) = IF 1 > m THEN 0 ELSE m - 1 + 1
    BY FS_Interval
  <2> QED BY <2>1
<1>7. Pruned(entries) = SubSeq(entries, m + 1, Len(entries))
  BY <1>5, <1>6 DEF Pruned
<1> QED BY <1>1, <1>4, <1>7

\* A window of all stamps but the first d, at time t, when the last stamp was last.
IsTail(entries, stamps, d, t, last) ==
  /\ Len(stamps) = d + Len(entries)
  /\ \A k \in 1 .. Len(entries) : entries[k] = stamps[d + k]
  /\ \A i \in 1 .. d : stamps[i] < t - Window
  /\ \A i \in 1 .. Len(stamps) : stamps[i] <= last
  /\ \A i, j \in 1 .. Len(stamps) : i <= j => stamps[i] <= stamps[j]

NotBefore(entries, at) == \A k \in DOMAIN entries : entries[k] >= at

HasTail(entries, stamps, t, last) == \E d \in Nat : IsTail(entries, stamps, d, t, last)

\* Keeps, with the time, the last stamp and the lower bound as arguments.
KeptAt(entries, stamps, at, t, last) ==
  LET dropped == Len(stamps) - Len(entries)
  IN /\ dropped >= 0
     /\ \A k \in DOMAIN entries : entries[k] = stamps[dropped + k] /\ entries[k] >= at
     /\ \A i \in 1 .. dropped : stamps[i] < t - Window
     /\ \A i \in DOMAIN stamps :
          stamps[i] <= last /\ \A j \in DOMAIN stamps : i <= j => stamps[i] <= stamps[j]

LEMMA KeptParts ==
  ASSUME NEW entries \in Seq(Nat), NEW stamps \in Seq(Nat), NEW at, NEW t, NEW last
  PROVE  KeptAt(entries, stamps, at, t, last) <=>
           HasTail(entries, stamps, t, last) /\ NotBefore(entries, at)
<1>1. PICK n \in Nat : n = Len(entries) /\ DOMAIN entries = 1 .. n
  OBVIOUS
<1>2. PICK l \in Nat : l = Len(stamps) /\ DOMAIN stamps = 1 .. l
  OBVIOUS
<1>3. ASSUME KeptAt(entries, stamps, at, t, last)
      PROVE  /\ HasTail(entries, stamps, t, last)
             /\ NotBefore(entries, at)
  <2>1. PICK d \in Nat : d = l - n /\ d = Len(stamps) - Len(entries)
    <3>1. Len(stamps) - Len(entries) >= 0
      BY <1>3 DEF KeptAt
    <3> QED BY <1>1, <1>2, <3>1
  <2>2. l = d + n
    BY <2>1
  <2>3. /\ \A k \in 1 .. n : entries[k] = stamps[d + k] /\ entries[k] >= at
        /\ \A i \in 1 .. d : stamps[i] < t - Window
        /\ \A i \in 1 .. l :
             stamps[i] <= last /\ \A j \in 1 .. l : i <= j => stamps[i] <= stamps[j]
    BY <1>1, <1>2, <1>3, <2>1, Zenon DEF KeptAt
  <2>4. IsTail(entries, stamps, d, t, last)
    BY <1>1, <1>2, <2>2, <2>3 DEF IsTail
  <2> QED BY <1>1, <2>3, <2>4 DEF HasTail, NotBefore
<1>4. ASSUME HasTail(entries, stamps, t, last), NotBefore(entries, at)
      PROVE  KeptAt(entries, stamps, at, t, last)
  <2>1. PICK d \in Nat : IsTail(entries, stamps, d, t, last)
    BY <1>4 DEF HasTail
  <2>2. d = Len(stamps) - Len(entries) /\ d >= 0
    BY <1>1, <1>2, <2>1 DEF IsTail
  <2>3. /\ \A k \in DOMAIN entries : entries[k] = stamps[d + k]
        /\ \A i \in 1 .. d : stamps[i] < t - Window
        /\ \A i \in DOMAIN stamps :
             stamps[i] <= last /\ \A j \in DOMAIN stamps : i <= j => stamps[i] <= stamps[j]
    BY <1>1, <1>2, <2>1 DEF IsTail
  <2>4. \A k \in DOMAIN entries : entries[k] >= at
    BY <1>4 DEF NotBefore
  <2> QED BY <2>2, <2>3, <2>4, Zenon DEF KeptAt
<1> QED BY <1>3, <1>4

LEMMA PruneKeeps ==
  ASSUME NEW entries \in Seq(Nat), NEW stamps \in Seq(Nat), now \in Nat,
         NEW last \in Nat, HasTail(entries, stamps, now, last)
  PROVE  /\ HasTail(Pruned(entries), stamps, now, last)
         /\ NotBefore(Pruned(entries), now - Window)
         /\ Pruned(entries) \in Seq(Nat)
<1> USE Constants
<1>1. PICK n \in Nat : n = Len(entries) /\ DOMAIN entries = 1 .. n
  OBVIOUS
<1>2. PICK l \in Nat : l = Len(stamps) /\ DOMAIN stamps = 1 .. l
  OBVIOUS
<1>3. PICK m \in 0 .. n :
        /\ Pruned(entries) = SubSeq(entries, m + 1, Len(entries))
        /\ \A i \in 1 .. m : entries[i] < now - Window
        /\ m < n => entries[m + 1] >= now - Window
  BY <1>1, PrunedAt
<1>4. PICK e : e = Pruned(entries)
  OBVIOUS
<1>0. PICK w \in Nat : w = n - m
  BY <1>3
<1>5. e \in Seq(Nat) /\ Len(e) = w /\ DOMAIN e = 1 .. w /\ \A k \in 1 .. w : e[k] = entries[m + k]
  <2>1. e = SubSeq(entries, m + 1, n)
    BY <1>1, <1>3, <1>4
  <2>2. \A k \in 1 .. w : m + k \in 1 .. n /\ entries[m + k] \in Nat
    BY <1>0, <1>1
  <2>3. e \in Seq(Nat) /\ Len(e) = w
    BY <1>0, <1>1, <2>1
  <2>4. \A k \in 1 .. w : e[k] = entries[(m + 1) + k - 1]
    BY <1>0, <1>1, <2>1
  <2>5. \A k \in 1 .. w : (m + 1) + k - 1 = m + k
    OBVIOUS
  <2> QED BY <2>3, <2>4, <2>5
<1>6. PICK d \in Nat : IsTail(entries, stamps, d, now, last)
  BY DEF HasTail
<1>7. /\ l = d + n
      /\ \A k \in 1 .. n : entries[k] = stamps[d + k]
      /\ \A i \in 1 .. d : stamps[i] < now - Window
      /\ \A i \in 1 .. l : stamps[i] <= last
      /\ \A i, j \in 1 .. l : i <= j => stamps[i] <= stamps[j]
  BY <1>1, <1>2, <1>6 DEF IsTail
<1>8. \A i \in 1 .. l : stamps[i] \in Nat
  BY <1>2
<1>9. \A k \in 1 .. w : e[k] = stamps[(d + m) + k]
  <2> TAKE k \in 1 .. w
  <2>1. m + k \in 1 .. n /\ d + (m + k) = (d + m) + k
    BY <1>0
  <2> QED BY <1>5, <1>7, <2>1
<1>10. \A i \in 1 .. (d + m) : stamps[i] < now - Window
  <2> TAKE i \in 1 .. (d + m)
  <2>1. CASE i \in 1 .. d
    BY <1>7, <2>1
  <2>2. CASE i \notin 1 .. d
    <3>1. PICK k \in 1 .. m : i = d + k
      BY <2>2
    <3>2. k \in 1 .. n
      OBVIOUS
    <3> QED BY <1>3, <1>7, <3>1, <3>2
  <2> QED BY <2>1, <2>2
<1>11. \A k \in 1 .. w : e[k] >= now - Window
  <2> TAKE k \in 1 .. w
  <2>1. m < n /\ entries[m + 1] >= now - Window
    BY <1>0, <1>3
  <2>2. entries[m + 1] = stamps[(d + m) + 1] /\ e[k] = stamps[(d + m) + k]
    <3>1. m + 1 \in 1 .. n /\ d + (m + 1) = (d + m) + 1
      BY <2>1
    <3> QED BY <1>7, <1>9, <3>1
  <2>3. (d + m) + 1 \in 1 .. l /\ (d + m) + k \in 1 .. l /\ (d + m) + 1 <= (d + m) + k
    BY <1>0, <1>7
  <2>4. stamps[(d + m) + 1] <= stamps[(d + m) + k]
    BY <1>7, <2>3
  <2>5. PICK a \in Nat : a = stamps[(d + m) + 1]
    BY <1>8, <2>3
  <2>6. PICK b \in Nat : b = stamps[(d + m) + k]
    BY <1>8, <2>3
  <2> QED BY <2>1, <2>2, <2>4, <2>5, <2>6
<1>12. IsTail(e, stamps, d + m, now, last)
  <2>1. l = (d + m) + w
    BY <1>0, <1>7
  <2> QED BY <1>2, <1>5, <1>7, <1>9, <1>10, <2>1 DEF IsTail
<1>13. d + m \in Nat
  OBVIOUS
<1> QED BY <1>4, <1>5, <1>11, <1>12, <1>13 DEF NotBefore, HasTail

LEMMA PushKeeps ==
  ASSUME NEW entries \in Seq(Nat), NEW stamps \in Seq(Nat), NEW t \in Nat,
         NEW last \in Nat, HasTail(entries, stamps, t, last)
  PROVE  HasTail(Append(entries, last), Append(stamps, last), t, last)
<1> USE Constants
<1>1. PICK n \in Nat : n = Len(entries) /\ DOMAIN entries = 1 .. n
  OBVIOUS
<1>2. PICK l \in Nat : l = Len(stamps) /\ DOMAIN stamps = 1 .. l
  OBVIOUS
<1>3. PICK d \in Nat : IsTail(entries, stamps, d, t, last)
  BY DEF HasTail
<1>4. /\ l = d + n
      /\ \A k \in 1 .. n : entries[k] = stamps[d + k]
      /\ \A i \in 1 .. d : stamps[i] < t - Window
      /\ \A i \in 1 .. l : stamps[i] <= last
      /\ \A i, j \in 1 .. l : i <= j => stamps[i] <= stamps[j]
  BY <1>1, <1>2, <1>3 DEF IsTail
<1>5. PICK e : e = Append(entries, last)
  OBVIOUS
<1>6. PICK s : s = Append(stamps, last)
  OBVIOUS
<1>7. /\ Len(e) = n + 1 /\ e[n + 1] = last
      /\ \A k \in 1 .. n : e[k] = entries[k]
  BY <1>1, <1>5
<1>8. /\ Len(s) = l + 1 /\ s[l + 1] = last
      /\ \A k \in 1 .. l : s[k] = stamps[k]
  BY <1>2, <1>6
<1>9. l + 1 = d + (n + 1)
  BY <1>4
<1>10. \A k \in 1 .. (n + 1) : e[k] = s[d + k]
  <2> TAKE k \in 1 .. (n + 1)
  <2>1. CASE k = n + 1
    BY <1>7, <1>8, <1>9, <2>1
  <2>2. CASE k # n + 1
    <3>1. k \in 1 .. n /\ d + k \in 1 .. l
      BY <1>4, <2>2
    <3> QED BY <1>4, <1>7, <1>8, <3>1
  <2> QED BY <2>1, <2>2
<1>11. \A i \in 1 .. d : s[i] < t - Window
  <2> TAKE i \in 1 .. d
  <2>1. i \in 1 .. l
    BY <1>4
  <2> QED BY <1>4, <1>8, <2>1
<1>12. \A i \in 1 .. (l + 1) : s[i] <= last
  <2> TAKE i \in 1 .. (l + 1)
  <2>1. i = l + 1 \/ i \in 1 .. l
    OBVIOUS
  <2> QED BY <1>4, <1>8, <2>1
<1>13. \A i, j \in 1 .. (l + 1) : i <= j => s[i] <= s[j]
  <2> SUFFICES ASSUME NEW i \in 1 .. (l + 1), NEW j \in 1 .. (l + 1), i <= j
               PROVE  s[i] <= s[j]
    OBVIOUS
  <2>1. CASE j = l + 1
    BY <1>8, <1>12, <2>1
  <2>2. CASE j # l + 1
    <3>1. i \in 1 .. l /\ j \in 1 .. l
      BY <2>2
    <3> QED BY <1>4, <1>8, <3>1
  <2> QED BY <2>1, <2>2
<1>14. IsTail(e, s, d, t, last)
  BY <1>7, <1>8, <1>9, <1>10, <1>11, <1>12, <1>13 DEF IsTail
<1> QED BY <1>5, <1>6, <1>14 DEF HasTail

\* Time that passes makes no entry younger.
LEMMA PassKeeps ==
  ASSUME NEW entries \in Seq(Nat), NEW stamps \in Seq(Nat), NEW t \in Nat, NEW u \in Nat,
         NEW last \in Nat, NEW later \in Nat, t <= u, last <= later,
         HasTail(entries, stamps, t, last)
  PROVE  HasTail(entries, stamps, u, later)
<1> USE Constants
<1>1. PICK l \in Nat : l = Len(stamps) /\ DOMAIN stamps = 1 .. l
  OBVIOUS
<1>2. PICK n \in Nat : n = Len(entries)
  OBVIOUS
<1>3. PICK d \in Nat : IsTail(entries, stamps, d, t, last)
  BY DEF HasTail
<1>4. \A i \in 1 .. l : stamps[i] \in Nat
  BY <1>1
<1>5. \A i \in 1 .. d : stamps[i] < u - Window
  <2> TAKE i \in 1 .. d
  <2>1. i \in 1 .. l
    BY <1>1, <1>2, <1>3 DEF IsTail
  <2>2. PICK a \in Nat : a = stamps[i]
    BY <1>4, <2>1
  <2>3. a < t - Window
    BY <1>3, <2>2 DEF IsTail
  <2> QED BY <2>2, <2>3
<1>6. \A i \in 1 .. l : stamps[i] <= later
  <2> TAKE i \in 1 .. l
  <2>1. stamps[i] <= last
    BY <1>1, <1>3 DEF IsTail
  <2> QED BY <1>4, <2>1
<1>7. IsTail(entries, stamps, d, u, later)
  BY <1>1, <1>3, <1>5, <1>6 DEF IsTail
<1> QED BY <1>7 DEF HasTail

LEMMA SeqGrows ==
  ASSUME NEW S, NEW T, S \subseteq T, NEW s \in Seq(S)
  PROVE  s \in Seq(T)
<1>1. PICK n \in Nat : s \in [1 .. n -> S]
  OBVIOUS
<1>2. s \in [1 .. n -> T]
  BY <1>1
<1> QED BY <1>2

LEMMA AppendsNat ==
  ASSUME NEW s \in Seq(Nat), NEW x \in Nat
  PROVE  Append(s, x) \in Seq(Nat)
OBVIOUS

LEMMA PrunedTimes ==
  ASSUME NEW entries \in Seq(Times), now \in Nat
  PROVE  Pruned(entries) \in Seq(Times) /\ Len(Pruned(entries)) <= Len(entries)
<1>1. Times \subseteq Nat
  BY Constants DEF Times
<1>2. entries \in Seq(Nat)
  BY <1>1, SeqGrows
<1>3. PICK m \in 0 .. Len(entries) : Pruned(entries) = SubSeq(entries, m + 1, Len(entries))
  BY <1>2, PrunedAt
<1>4. PICK n \in Nat : n = Len(entries)
  OBVIOUS
<1>5. SubSeq(entries, m + 1, n) \in Seq(Times) /\ Len(SubSeq(entries, m + 1, n)) <= n
  BY <1>4
<1> QED BY <1>3, <1>4, <1>5

-----------------------------------------------------------------------------
(* The windows, step by step *)

TimesAreNat ==
  /\ now \in Nat /\ stamp \in Nat /\ ticks \in Nat /\ Second * ticks \in Nat
  /\ total \in Seq(Nat) /\ logged \in Seq(Nat)
  /\ \A t \in Types : by_type[t] \in Seq(Nat) /\ typed[t] \in Seq(Nat)

LEMMA NatTimes == ASSUME TypeOK PROVE TimesAreNat
<1>1. Times \subseteq Nat
  BY Constants DEF Times
<1>2. now \in Nat /\ stamp \in Nat /\ ticks \in Nat /\ Second * ticks \in Nat
  BY <1>1, Constants DEF TypeOK
<1>3. total \in Seq(Nat) /\ logged \in Seq(Nat)
  BY <1>1, SeqGrows DEF TypeOK
<1>4. ASSUME NEW t \in Types PROVE by_type[t] \in Seq(Nat) /\ typed[t] \in Seq(Nat)
  <2>1. by_type[t] \in Seq(Times) /\ typed[t] \in Seq(Times)
    BY DEF TypeOK
  <2> QED BY <1>1, <2>1, SeqGrows
<1> QED BY <1>2, <1>3, <1>4 DEF TimesAreNat

LEMMA WindowParts ==
  /\ WindowsFollowLogs <=>
       /\ KeptAt(total, logged, Second * ticks - Window, now, stamp)
       /\ logs_per_minute = Len(total)
       /\ \A t \in Types :
            /\ KeptAt(by_type[t], typed[t], Second * ticks - Window, now, stamp)
            /\ logs_per_minute_by_type[t] = Len(by_type[t])
  /\ WindowsFollowLogs' <=>
       /\ KeptAt(total', logged', Second * ticks' - Window, now', stamp')
       /\ logs_per_minute' = Len(total')
       /\ \A t \in Types :
            /\ KeptAt(by_type'[t], typed'[t], Second * ticks' - Window, now', stamp')
            /\ logs_per_minute_by_type'[t] = Len(by_type'[t])
BY Zenon DEF WindowsFollowLogs, Keeps, KeptAt

\* A window that is pruned at a time that is not before the last tick.
LEMMA PrunedIsKept ==
  ASSUME NEW entries \in Seq(Nat), NEW stamps \in Seq(Nat), now \in Nat,
         NEW last \in Nat, NEW tick \in Nat, tick <= now, HasTail(entries, stamps, now, last)
  PROVE  KeptAt(Pruned(entries), stamps, tick - Window, now, last)
<1> USE Constants
<1>1. PICK e : e = Pruned(entries)
  OBVIOUS
<1>2. /\ HasTail(e, stamps, now, last) /\ NotBefore(e, now - Window) /\ e \in Seq(Nat)
  BY <1>1, PruneKeeps
<1>3. NotBefore(e, tick - Window)
  <2> SUFFICES ASSUME NEW k \in DOMAIN e PROVE e[k] >= tick - Window
    BY DEF NotBefore
  <2>1. PICK a \in Nat : a = e[k]
    BY <1>2
  <2>2. a >= now - Window
    BY <1>2, <2>1 DEF NotBefore
  <2> QED BY <2>1, <2>2
<1> QED BY <1>1, <1>2, <1>3, KeptParts

LEMMA TailsOfWindows ==
  ASSUME TypeOK, WindowsFollowLogs
  PROVE  /\ HasTail(total, logged, now, stamp)
         /\ \A t \in Types : HasTail(by_type[t], typed[t], now, stamp)
BY NatTimes, WindowParts, KeptParts DEF TimesAreNat

\* prune_and_recalculate_rates, with the windows as they are, or with one more
\* entry in one of them.
LEMMA RecalculateKeeps ==
  ASSUME TypeOK, NEW all \in Seq(Nat), NEW of_type, NEW stamps \in Seq(Nat), NEW typeds,
         \A t \in Types : of_type[t] \in Seq(Nat) /\ typeds[t] \in Seq(Nat),
         HasTail(all, stamps, now, stamp),
         \A t \in Types : HasTail(of_type[t], typeds[t], now, stamp),
         Recalculate(all, of_type), logged' = stamps, typed' = typeds,
         now' = now, stamp' = stamp, NEW tick \in Nat, tick = Second * ticks', tick <= now
  PROVE  WindowsFollowLogs'
<1>1. now \in Nat /\ stamp \in Nat
  BY NatTimes DEF TimesAreNat
<1>2. KeptAt(total', logged', tick - Window, now', stamp')
  BY <1>1, PrunedIsKept DEF Recalculate
<1>3. ASSUME NEW t \in Types PROVE KeptAt(by_type'[t], typed'[t], tick - Window, now', stamp')
  <2>1. by_type'[t] = Pruned(of_type[t])
    BY DEF Recalculate
  <2> QED BY <1>1, <2>1, PrunedIsKept
<1>4. /\ logs_per_minute' = Len(total')
      /\ \A t \in Types : logs_per_minute_by_type'[t] = Len(by_type'[t])
  BY DEF Recalculate
<1> QED BY <1>2, <1>3, <1>4, WindowParts

LEMMA WindowsOfPushLog ==
  ASSUME TypeOK, TimesAgree, WindowsFollowLogs, PushLog
  PROVE  WindowsFollowLogs'
<1>1. TimesAreNat
  BY NatTimes
<1>2. PICK all \in Seq(Nat) : all = Append(total, stamp)
  BY <1>1, AppendsNat DEF TimesAreNat
<1>3. PICK stamps \in Seq(Nat) : stamps = Append(logged, stamp)
  BY <1>1, AppendsNat DEF TimesAreNat
<1>4. HasTail(all, stamps, now, stamp)
  BY <1>1, <1>2, <1>3, TailsOfWindows, PushKeeps DEF TimesAreNat
<1>5. PICK tick \in Nat : tick = Second * ticks' /\ tick <= now
  BY <1>1 DEF TimesAreNat, PushLog, CallerOnly, TimesAgree
<1> QED BY <1>1, <1>2, <1>3, <1>4, <1>5, TailsOfWindows, RecalculateKeeps
        DEF PushLog, CallerOnly, TimesAreNat

LEMMA WindowsOfPushType ==
  ASSUME TypeOK, TimesAgree, WindowsFollowLogs, NEW u \in Types, PushType(u)
  PROVE  WindowsFollowLogs'
<1>1. TimesAreNat
  BY NatTimes
<1>2. PICK of_type : of_type = [by_type EXCEPT ![u] = Append(@, stamp)]
  OBVIOUS
<1>3. PICK typeds : typeds = [typed EXCEPT ![u] = Append(@, stamp)]
  OBVIOUS
<1>4. \A t \in Types : /\ of_type[t] = IF t = u THEN Append(by_type[t], stamp) ELSE by_type[t]
                       /\ typeds[t] = IF t = u THEN Append(typed[t], stamp) ELSE typed[t]
  BY <1>2, <1>3 DEF TypeOK
<1>5. \A t \in Types : of_type[t] \in Seq(Nat) /\ typeds[t] \in Seq(Nat)
  BY <1>1, <1>4, AppendsNat DEF TimesAreNat
<1>6. \A t \in Types : HasTail(of_type[t], typeds[t], now, stamp)
  BY <1>1, <1>4, TailsOfWindows, PushKeeps DEF TimesAreNat
<1>7. PICK tick \in Nat : tick = Second * ticks' /\ tick <= now
  BY <1>1 DEF TimesAreNat, PushType, CallerOnly, TimesAgree
<1> QED BY <1>1, <1>2, <1>3, <1>5, <1>6, <1>7, TailsOfWindows, RecalculateKeeps
        DEF PushType, CallerOnly, TimesAreNat

LEMMA WindowsOfTick ==
  ASSUME TypeOK, TimesAgree, WindowsFollowLogs, Tick
  PROVE  WindowsFollowLogs'
<1>1. TimesAreNat
  BY NatTimes
<1>2. PICK tick \in Nat : tick = Second * ticks' /\ tick <= now
  <2>1. ticks' = 1 + ticks /\ now >= Second * (1 + ticks)
    BY <1>1 DEF Tick, Deadline, TimesAreNat
  <2>2. Second * (1 + ticks) \in Nat
    BY <1>1, Constants DEF TimesAreNat
  <2> QED BY <1>1, <2>1, <2>2 DEF TimesAreNat
<1> QED BY <1>1, <1>2, TailsOfWindows, RecalculateKeeps DEF Tick, history, TimesAreNat

\* Steps that do not touch the windows.
LEMMA WindowsOfRest ==
  ASSUME TypeOK, WindowsFollowLogs, UNCHANGED <<rates, history, ticks>>,
         now' \in Nat, now <= now', stamp' \in Nat, stamp <= stamp'
  PROVE  WindowsFollowLogs'
<1>1. TimesAreNat
  BY NatTimes
<1>2. UNCHANGED <<total, by_type, logs_per_minute, logs_per_minute_by_type, logged, typed, ticks>>
  BY DEF rates, history
<1>3. PICK at : at = Second * ticks - Window
  OBVIOUS
<1>4. KeptAt(total, logged, at, now', stamp')
  BY <1>1, <1>3, WindowParts, KeptParts, PassKeeps DEF TimesAreNat
<1>5. \A t \in Types : KeptAt(by_type[t], typed[t], at, now', stamp')
  BY <1>1, <1>3, WindowParts, KeptParts, PassKeeps DEF TimesAreNat
<1> QED BY <1>2, <1>3, <1>4, <1>5, WindowParts

-----------------------------------------------------------------------------
(* Types and times *)

\* TypeOK without the gauges of the rates, which are lengths of windows.
PlainTypes ==
  /\ loop \in {"down", "up", "observing", "observed", "typing", "stopping",
               "updater", "server", "ended"}
  /\ stamp \in Times
  /\ ws_connected \in {0, 1}
  /\ last_log_unix_seconds \in Times
  /\ updater \in {"running", "told", "stopped"}
  /\ server \in {"serving", "told", "draining", "stopped"}
  /\ request \in [Clients -> {"idle", "connected", "log", "age", "ok", "unhealthy"}]
  /\ last_log \in [Clients -> Times]
  /\ now \in Times /\ ticks \in Nat

SequenceTypes ==
  /\ total \in Seq(Times) /\ logged \in Seq(Times)
  /\ by_type \in [Types -> Seq(Times)] /\ typed \in [Types -> Seq(Times)]

GaugeTypes ==
  /\ logs_per_minute \in 0 .. MaxLogs
  /\ logs_per_minute_by_type \in [Types -> 0 .. MaxLogs]

LEMMA TypeParts ==
  TypeOK <=> PlainTypes /\ SequenceTypes /\ GaugeTypes /\ witnessed \subseteq Clients
BY DEF TypeOK, PlainTypes, SequenceTypes, GaugeTypes

\* A step that leaves the windows alone.
Quiet == UNCHANGED <<rates, history, ticks>>

LEMMA StepIsQuiet ==
  ASSUME Step
  PROVE  \/ PushLog \/ (\E u \in Types : PushType(u)) \/ Tick
         \/ Quiet
BY DEF Step, LoopStep, ShutdownStep, ServerStep, HandlerStep, Quiet, CallerOnly, ServerOnly,
       Subscribed, StreamEnds, ObserveLog, Ignored, ObserveDecodedType, Stop, ReturnWithout,
       TellUpdater, TellServer, Return, UpdaterBreaks, Drain, ServerEnds, Ask, ReadConnected,
       ReadLastLog, ReadAge, Answered, Pass, rates, history, gauges, requests

LEMMA SecondsOf ==
  ASSUME NEW t \in Nat
  PROVE  /\ t \div Second \in Nat /\ t \div Second <= t
         /\ t \div Second <= (t + 1) \div Second /\ (t + 1) \div Second \in Nat
         /\ Second <= t => t \div Second > 0
<1> USE Constants
<1>1. PICK q \in Nat : q = t \div Second
  OBVIOUS
<1>2. q * Second <= t /\ t < q * Second + Second
  BY <1>1
<1>3. q <= q * Second
  BY <1>1
<1>4. t \div Second <= (t + 1) \div Second /\ (t + 1) \div Second \in Nat
  OBVIOUS
<1>5. Second <= t => q > 0
  <2>1. q = 0 => q * Second = 0
    OBVIOUS
  <2> QED BY <1>2, <2>1
<1>6. q * Second \in Nat
  OBVIOUS
<1>7. q <= t
  BY <1>2, <1>3, <1>6
<1> QED BY <1>1, <1>4, <1>5, <1>7

LEMMA PlainTypesKept ==
  ASSUME TypeOK, Step
  PROVE  PlainTypes'
<1>1. now \in Nat /\ now <= MaxNow /\ now \div Second \in Times /\ 0 \in Times
  BY Constants, SecondsOf DEF TypeOK, Times
<1>2. PlainTypes
  BY TypeParts
<1>3. CASE LoopStep
  BY <1>1, <1>2, <1>3 DEF PlainTypes, LoopStep, CallerOnly, gauges, requests, UnixSeconds,
       Subscribed, StreamEnds, ObserveLog, PushLog, Ignored, ObserveDecodedType, PushType, Stop,
       ReturnWithout
<1>4. CASE ShutdownStep \/ UpdaterBreaks \/ ServerStep
  BY <1>2, <1>4 DEF PlainTypes, ShutdownStep, ServerStep, CallerOnly, ServerOnly, gauges, requests,
       TellUpdater, TellServer, Return, UpdaterBreaks, Drain, ServerEnds
<1>5. CASE Tick
  BY <1>2, <1>5 DEF PlainTypes, Tick, gauges, requests
<1>6. CASE Pass
  BY <1>1, <1>2, <1>6, Constants DEF PlainTypes, Pass, gauges, requests, Times
<1>7. ASSUME NEW c \in Clients, Ask(c) \/ HandlerStep(c) \/ Answered(c)
      PROVE  PlainTypes'
  BY <1>1, <1>2, <1>7 DEF PlainTypes, Ask, HandlerStep, Answered, ServerOnly, gauges,
       ReadConnected, ReadLastLog, ReadAge
<1> QED BY <1>3, <1>4, <1>5, <1>6, <1>7 DEF Step

LEMMA SequenceTypesKept ==
  ASSUME TypeOK, Step
  PROVE  SequenceTypes'
<1>1. SequenceTypes /\ now \in Nat /\ stamp \in Times
  BY TypeParts, NatTimes DEF PlainTypes, TimesAreNat
<1>2. ASSUME NEW all \in Seq(Times), NEW of_type \in [Types -> Seq(Times)], Recalculate(all, of_type)
      PROVE  total' \in Seq(Times) /\ by_type' \in [Types -> Seq(Times)]
  <2>1. total' = Pruned(all) /\ by_type' = [t \in Types |-> Pruned(of_type[t])]
    BY <1>2 DEF Recalculate
  <2>2. Pruned(all) \in Seq(Times)
    BY <1>1, PrunedTimes
  <2>3. \A t \in Types : Pruned(of_type[t]) \in Seq(Times)
    BY <1>1, PrunedTimes
  <2> QED BY <2>1, <2>2, <2>3
<1>3. CASE PushLog
  <2>1. Append(total, stamp) \in Seq(Times) /\ Append(logged, stamp) \in Seq(Times)
    BY <1>1 DEF SequenceTypes
  <2> QED BY <1>1, <1>2, <1>3, <2>1 DEF PushLog, SequenceTypes
<1>4. ASSUME NEW u \in Types, PushType(u) PROVE SequenceTypes'
  <2>1. Append(by_type[u], stamp) \in Seq(Times) /\ Append(typed[u], stamp) \in Seq(Times)
    <3>1. by_type[u] \in Seq(Times) /\ typed[u] \in Seq(Times)
      BY <1>1 DEF SequenceTypes
    <3> QED BY <1>1, <3>1
  <2>2. /\ [by_type EXCEPT ![u] = Append(@, stamp)] \in [Types -> Seq(Times)]
        /\ [typed EXCEPT ![u] = Append(@, stamp)] \in [Types -> Seq(Times)]
    BY <1>1, <2>1 DEF SequenceTypes
  <2> QED BY <1>1, <1>2, <1>4, <2>2 DEF PushType, SequenceTypes
<1>5. CASE Tick
  BY <1>1, <1>2, <1>5 DEF Tick, SequenceTypes, history
<1>6. CASE Quiet
  BY <1>1, <1>6 DEF Quiet, SequenceTypes, rates, history
<1> QED BY <1>3, <1>4, <1>5, <1>6, StepIsQuiet

GaugesAreMaps == logs_per_minute_by_type = [t \in Types |-> logs_per_minute_by_type[t]]

\* The windows are no longer than the model lets the logs be.
LEMMA GaugesAreTyped ==
  SequenceTypes /\ TimesAgree /\ WindowsFollowLogs /\ GaugesAreMaps => GaugeTypes
<1> SUFFICES ASSUME SequenceTypes, TimesAgree, WindowsFollowLogs, GaugesAreMaps PROVE GaugeTypes
  OBVIOUS
<1> USE Constants
<1>1. Len(logged) \in Nat /\ Len(logged) <= MaxLogs
  BY DEF SequenceTypes, TimesAgree
<1>2. Len(total) \in Nat /\ Len(total) <= Len(logged) /\ logs_per_minute = Len(total)
  BY <1>1 DEF SequenceTypes, WindowsFollowLogs, Keeps
<1>3. ASSUME NEW t \in Types PROVE logs_per_minute_by_type[t] \in 0 .. MaxLogs
  <2>1. typed[t] \in Seq(Times) /\ by_type[t] \in Seq(Times)
    BY DEF SequenceTypes
  <2>2. PICK n \in Nat : n = Len(typed[t])
    BY <2>1
  <2>3. PICK m \in Nat : m = Len(by_type[t])
    BY <2>1
  <2>4. n - m >= 0
    BY <2>2, <2>3 DEF WindowsFollowLogs, Keeps
  <2>5. n <= Len(logged)
    <3>1. CASE loop \in {"observed", "typing"}
      <4>1. n + 1 <= Len(logged)
        BY <2>2, <3>1 DEF TimesAgree
      <4> QED BY <1>1, <4>1
    <3>2. CASE loop \notin {"observed", "typing"}
      <4>1. n + 0 <= Len(logged)
        BY <2>2, <3>2 DEF TimesAgree
      <4> QED BY <1>1, <4>1
    <3> QED BY <3>1, <3>2
  <2>6. logs_per_minute_by_type[t] = m
    BY <2>3 DEF WindowsFollowLogs
  <2> QED BY <1>1, <2>4, <2>5, <2>6
<1>4. logs_per_minute \in 0 .. MaxLogs
  BY <1>1, <1>2
<1> QED BY <1>3, <1>4 DEF GaugeTypes, GaugesAreMaps

\* The two parts of TimesAgree.
ClockAgrees ==
  /\ Second <= now /\ stamp <= now
  /\ Second * ticks <= now
  /\ updater # "stopped" => now <= Deadline + MaxDelay
  /\ updater # "running" => loop \in {"updater", "server", "ended"}

LengthsAgree ==
  /\ Len(logged) + (IF loop = "observing" THEN 1 ELSE 0) <= MaxLogs
  /\ \A t \in Types :
       Len(typed[t]) + (IF loop \in {"observed", "typing"} THEN 1 ELSE 0) <= Len(logged)

LEMMA TimesParts == TimesAgree <=> ClockAgrees /\ LengthsAgree
BY DEF TimesAgree, ClockAgrees, LengthsAgree

LEMMA ClockKept ==
  ASSUME TypeOK, TimesAgree, Step
  PROVE  ClockAgrees'
<1> USE Constants
<1>1. /\ now \in Nat /\ stamp \in Nat /\ ticks \in Nat /\ Second * ticks \in Nat
      /\ Second * (1 + ticks) \in Nat /\ Second * (1 + ticks) = Second + Second * ticks
      /\ Second * (1 + (ticks + 1)) = Second + Second * (1 + ticks)
      /\ Second * (ticks + 1) = Second * (1 + ticks)
  <2>1. now \in Nat /\ stamp \in Nat /\ ticks \in Nat /\ Second * ticks \in Nat
    BY NatTimes DEF TimesAreNat
  <2>2. PICK n \in Nat : n = 1 + ticks
    BY <2>1
  <2>3. Second * n \in Nat /\ Second * (1 + n) = Second + Second * n
    OBVIOUS
  <2>4. Second * (1 + ticks) = Second + Second * ticks
    BY <2>1
  <2>5. ticks + 1 = n /\ 1 + (ticks + 1) = 1 + n
    BY <2>1, <2>2
  <2> QED BY <2>1, <2>2, <2>3, <2>4, <2>5
<1>2. ClockAgrees
  BY TimesParts
<1>3. CASE Tick
  <2>1. /\ now >= Second * (1 + ticks) /\ ticks' = ticks + 1
        /\ UNCHANGED <<now, stamp, updater, loop>> /\ updater # "stopped"
    BY <1>3 DEF Tick, Deadline
  <2>2. now <= Second * (1 + ticks) + MaxDelay
    BY <1>2, <2>1 DEF ClockAgrees, Deadline
  <2>3. now <= Second * (1 + ticks') + MaxDelay
    BY <1>1, <2>1, <2>2
  <2> QED BY <1>1, <1>2, <2>1, <2>3 DEF ClockAgrees, Deadline
<1>4. CASE Pass
  <2>1. /\ updater # "stopped" => now < Second * (1 + ticks) + MaxDelay
        /\ now' = now + 1 /\ UNCHANGED <<stamp, ticks, updater, loop>>
    BY <1>4 DEF Pass, Deadline
  <2>2. updater # "stopped" => now' <= Second * (1 + ticks) + MaxDelay
    BY <1>1, <2>1
  <2>3. Second <= now' /\ stamp' <= now' /\ Second * ticks <= now'
    BY <1>1, <1>2, <2>1 DEF ClockAgrees
  <2> QED BY <1>2, <2>1, <2>2, <2>3 DEF ClockAgrees, Deadline
<1>5. ASSUME UNCHANGED <<now, ticks>>, stamp' = stamp \/ stamp' = now,
             updater' # "stopped" => updater # "stopped",
             updater' # "running" => loop' \in {"updater", "server", "ended"}
      PROVE  ClockAgrees'
  BY <1>1, <1>2, <1>5 DEF ClockAgrees, Deadline
<1>6. CASE LoopStep
  <2>1. /\ UNCHANGED <<now, ticks>>
        /\ stamp' = stamp \/ stamp' = now
        /\ loop \notin {"updater", "server", "ended"}
        /\ \/ updater' = updater
           \/ loop' = "ended" /\ updater' = "stopped"
    BY <1>6 DEF LoopStep, CallerOnly,
         Subscribed, StreamEnds, ObserveLog, PushLog, Ignored, ObserveDecodedType, PushType, Stop,
         ReturnWithout
  <2>2. updater = "running"
    BY <1>2, <2>1 DEF ClockAgrees
  <2> QED BY <1>5, <2>1, <2>2
<1>7. CASE ShutdownStep \/ UpdaterBreaks \/ ServerStep
  <2>1. CASE TellUpdater
    <3>1. updater = "running" /\ loop' = "updater"
      BY <1>2, <2>1 DEF TellUpdater, ClockAgrees
    <3> QED BY <1>5, <2>1, <3>1 DEF TellUpdater, CallerOnly
  <2>2. CASE TellServer \/ Return
    BY <1>5, <2>2 DEF CallerOnly, TellServer, Return
  <2>3. CASE UpdaterBreaks
    <3>1. loop \in {"updater", "server", "ended"}
      BY <1>2, <2>3 DEF UpdaterBreaks, ClockAgrees
    <3> QED BY <1>5, <2>3, <3>1 DEF UpdaterBreaks
  <2>4. CASE ServerStep
    <3>1. UNCHANGED <<now, ticks, stamp, updater, loop>>
      BY <2>4 DEF ServerStep, ServerOnly, Drain, ServerEnds
    <3> QED BY <1>2, <1>5, <3>1 DEF ClockAgrees
  <2> QED BY <1>7, <2>1, <2>2, <2>3, <2>4 DEF ShutdownStep
<1>8. ASSUME NEW c \in Clients, Ask(c) \/ HandlerStep(c) \/ Answered(c)
      PROVE  ClockAgrees'
  <2>1. UNCHANGED <<now, ticks, stamp, updater, loop>>
    BY <1>8 DEF Ask, HandlerStep, Answered, ServerOnly, ReadConnected, ReadLastLog, ReadAge
  <2> QED BY <1>2, <1>5, <2>1 DEF ClockAgrees
<1> QED BY <1>3, <1>4, <1>6, <1>7, <1>8 DEF Step

LEMMA LengthsKept ==
  ASSUME TypeOK, TimesAgree, Step
  PROVE  LengthsAgree'
<1> USE Constants
<1>1. LengthsAgree /\ SequenceTypes
  BY TimesParts, TypeParts
<1>2. /\ Len(logged) \in Nat /\ logged \in Seq(Times) /\ stamp \in Times
      /\ \A t \in Types : typed[t] \in Seq(Times) /\ Len(typed[t]) \in Nat
  <2>1. \A t \in Types : typed[t] \in Seq(Times)
    BY <1>1 DEF SequenceTypes
  <2> QED BY <1>1, <2>1 DEF SequenceTypes, TypeOK
<1>3. CASE PushLog
  <2>1. loop = "observing" /\ loop' = "observed" /\ typed' = typed /\ Len(logged') = Len(logged) + 1
    BY <1>2, <1>3 DEF PushLog
  <2> QED BY <1>1, <1>2, <2>1 DEF LengthsAgree
<1>4. ASSUME NEW u \in Types, PushType(u) PROVE LengthsAgree'
  <2>1. /\ loop = "typing" /\ loop' = "up" /\ logged' = logged
        /\ typed' = [typed EXCEPT ![u] = Append(@, stamp)]
    BY <1>4 DEF PushType
  <2>2. \A t \in Types : typed'[t] = IF t = u THEN Append(typed[t], stamp) ELSE typed[t]
    BY <1>1, <2>1 DEF SequenceTypes
  <2>3. \A t \in Types : Len(typed'[t]) <= Len(typed[t]) + 1 /\ Len(typed'[t]) \in Nat
    <3> TAKE t \in Types
    <3>1. PICK s \in Seq(Times) : s = typed[t]
      BY <1>2
    <3>2. Len(Append(s, stamp)) = Len(s) + 1 /\ Len(s) \in Nat
      BY <1>2
    <3>3. typed'[t] = s \/ typed'[t] = Append(s, stamp)
      BY <2>2, <3>1
    <3>4. PICK n \in Nat : n = Len(s)
      BY <3>2
    <3>5. Len(typed'[t]) = n \/ Len(typed'[t]) = n + 1
      BY <3>2, <3>3, <3>4
    <3> QED BY <3>1, <3>4, <3>5
  <2>4. \A t \in Types : Len(typed[t]) + 1 <= Len(logged)
    BY <1>1, <2>1 DEF LengthsAgree
  <2>5. \A t \in Types : Len(typed'[t]) <= Len(logged)
    BY <1>2, <2>3, <2>4
  <2>6. Len(logged) <= MaxLogs
    BY <1>1, <1>2, <2>1 DEF LengthsAgree
  <2> QED BY <1>2, <2>1, <2>3, <2>5, <2>6 DEF LengthsAgree
<1>5. CASE ObserveLog
  BY <1>1, <1>2, <1>5 DEF ObserveLog, LengthsAgree, history
<1>6. ASSUME UNCHANGED <<logged, typed>>, loop' = "observing" => loop = "observing",
             loop' \in {"observed", "typing"} => loop \in {"observed", "typing"}
      PROVE  LengthsAgree'
  <2>1. Len(logged') + (IF loop' = "observing" THEN 1 ELSE 0) <= MaxLogs
    BY <1>1, <1>2, <1>6 DEF LengthsAgree
  <2>2. ASSUME NEW t \in Types
        PROVE  Len(typed'[t]) + (IF loop' \in {"observed", "typing"} THEN 1 ELSE 0) <= Len(logged')
    <3>1. PICK n \in Nat : n = Len(typed[t])
      BY <1>2
    <3>2. n + (IF loop \in {"observed", "typing"} THEN 1 ELSE 0) <= Len(logged)
      BY <1>1, <3>1 DEF LengthsAgree
    <3>3. n + (IF loop' \in {"observed", "typing"} THEN 1 ELSE 0) <= Len(logged)
      BY <1>2, <1>6, <3>2
    <3> QED BY <1>6, <3>1, <3>3
  <2> QED BY <2>1, <2>2 DEF LengthsAgree
<1>7. CASE LoopStep
  <2>1. CASE PushLog \/ ObserveLog \/ \E u \in Types : PushType(u)
    BY <1>3, <1>4, <1>5, <2>1
  <2>2. CASE Subscribed \/ StreamEnds \/ Ignored \/ ObserveDecodedType \/ Stop \/ ReturnWithout
    BY <1>6, <2>2 DEF history, Subscribed, StreamEnds, Ignored, ObserveDecodedType, Stop, ReturnWithout
  <2> QED BY <1>7, <2>1, <2>2 DEF LoopStep
<1>8. CASE ShutdownStep \/ UpdaterBreaks \/ ServerStep \/ Tick \/ Pass
  BY <1>6, <1>8 DEF ShutdownStep, ServerStep, ServerOnly, history,
       TellUpdater, TellServer, Return, UpdaterBreaks, Drain, ServerEnds, Tick, Pass
<1>9. ASSUME NEW c \in Clients, Ask(c) \/ HandlerStep(c) \/ Answered(c)
      PROVE  LengthsAgree'
  BY <1>6, <1>9 DEF Ask, HandlerStep, Answered, ServerOnly, ReadConnected, ReadLastLog, ReadAge, history
<1> QED BY <1>7, <1>8, <1>9 DEF Step

LEMMA TimeMoves ==
  ASSUME Step
  PROVE  /\ now' = now \/ now' = now + 1
         /\ stamp' = stamp \/ stamp' = now
<1>1. CASE LoopStep
  BY <1>1 DEF LoopStep, CallerOnly,
       Subscribed, StreamEnds, ObserveLog, PushLog, Ignored, ObserveDecodedType, PushType, Stop,
       ReturnWithout
<1>2. CASE ShutdownStep \/ UpdaterBreaks \/ ServerStep \/ Tick \/ Pass
  BY <1>2 DEF ShutdownStep, ServerStep, ServerOnly, CallerOnly,
       TellUpdater, TellServer, Return, UpdaterBreaks, Drain, ServerEnds, Tick, Pass
<1>3. ASSUME NEW c \in Clients, Ask(c) \/ HandlerStep(c) \/ Answered(c)
      PROVE  UNCHANGED <<now, stamp>>
  BY <1>3 DEF Ask, HandlerStep, Answered, ServerOnly, ReadConnected, ReadLastLog, ReadAge
<1> QED BY <1>1, <1>2, <1>3 DEF Step

LEMMA WindowsKept ==
  ASSUME TypeOK, TimesAgree, WindowsFollowLogs, Step
  PROVE  WindowsFollowLogs' /\ GaugesAreMaps'
<1>1. ASSUME NEW all, NEW of_type, Recalculate(all, of_type) PROVE GaugesAreMaps'
  BY <1>1 DEF Recalculate, GaugesAreMaps
<1>2. CASE PushLog
  BY <1>1, <1>2, WindowsOfPushLog DEF PushLog
<1>3. CASE \E u \in Types : PushType(u)
  BY <1>1, <1>3, WindowsOfPushType DEF PushType
<1>4. CASE Tick
  BY <1>1, <1>4, WindowsOfTick DEF Tick
<1>5. CASE Quiet
  <2>1. now \in Nat /\ stamp \in Nat /\ stamp <= now
    BY NatTimes DEF TimesAreNat, TimesAgree
  <2>2. now' \in Nat /\ now <= now' /\ stamp' \in Nat /\ stamp <= stamp'
    BY <2>1, TimeMoves
  <2>3. WindowsFollowLogs'
    BY <1>5, <2>2, WindowsOfRest DEF Quiet
  <2>4. logs_per_minute_by_type' = logs_per_minute_by_type
    BY <1>5 DEF Quiet, rates
  <2> QED BY <2>3, <2>4 DEF GaugesAreMaps, TypeOK
<1> QED BY <1>2, <1>3, <1>4, <1>5, StepIsQuiet

-----------------------------------------------------------------------------
(* The handlers *)

ConnectedLoops == {"up", "observing", "observed", "typing"}

LEMMA OlderStill ==
  ASSUME NEW a \in Nat, NEW b \in Nat, NEW x \in Nat, NEW m \in Nat, a <= b, a - x > m
  PROVE  b - x > m
OBVIOUS

\* What was too old stays so.
LEMMA StaleStays ==
  ASSUME TypeOK, Step, NEW x \in Nat, IsStale(x)
  PROVE  IsStale(x)'
<1>1. now \in Nat
  BY NatTimes DEF TimesAreNat
<1>2. PICK a \in Nat : a = UnixSeconds
  BY <1>1, SecondsOf DEF UnixSeconds
<1>3. PICK b \in Nat : b = UnixSeconds' /\ a <= b
  BY <1>1, <1>2, SecondsOf, TimeMoves DEF UnixSeconds
<1>4. IsStale(x) <=> (x > 0 => a - x > MaxStaleness)
  BY <1>2 DEF IsStale
<1>5. IsStale(x)' <=> (x > 0 => b - x > MaxStaleness)
  BY <1>3 DEF IsStale
<1>6. a - x > MaxStaleness => b - x > MaxStaleness
  BY <1>3, Constants, OlderStill
<1> QED BY <1>4, <1>5, <1>6

\* Only observe_log sets the time of the last log, and it is then healthy.
LEMMA LastLogMoves ==
  ASSUME TypeOK, TimesAgree, Step, last_log_unix_seconds' # last_log_unix_seconds
  PROVE  Healthy'
<1>1. ObserveLog
  BY DEF Step, LoopStep, ShutdownStep, ServerStep, HandlerStep, CallerOnly, ServerOnly,
       Subscribed, StreamEnds, PushLog, Ignored, ObserveDecodedType, PushType, Stop, ReturnWithout,
       TellUpdater, TellServer, Return, UpdaterBreaks, Drain, ServerEnds, Ask, ReadConnected,
       ReadLastLog, ReadAge, Answered, Pass, Tick, gauges
<1>2. loop' = "observing" /\ last_log_unix_seconds' = UnixSeconds /\ now' = now
  BY <1>1 DEF ObserveLog, CallerOnly
<1>3. UnixSeconds' = UnixSeconds
  BY <1>2 DEF UnixSeconds
<1>4. PICK a \in Nat : a = UnixSeconds /\ a > 0
  BY NatTimes, SecondsOf DEF TimesAreNat, UnixSeconds, TimesAgree
<1> QED BY <1>2, <1>3, <1>4, Constants DEF Healthy

\* How the handler of a client moves.
LEMMA HandlerMoves ==
  ASSUME TypeOK, Step, NEW c \in Clients, request'[c] \in {"log", "age", "ok"}
  PROVE  \/ request'[c] = request[c] /\ last_log'[c] = last_log[c]
         \/ ReadConnected(c) /\ request'[c] = "log" /\ ws_connected # 0
         \/ ReadLastLog(c) /\ request'[c] = "age" /\ last_log_unix_seconds # 0
            /\ last_log'[c] = last_log_unix_seconds
         \/ ReadAge(c) /\ request'[c] = "ok" /\ IsFresh(last_log[c])
<1>1. DOMAIN request = Clients /\ DOMAIN last_log = Clients
  BY DEF TypeOK
<1>2. CASE LoopStep
  <2>1. CASE ReturnWithout
    BY <2>1 DEF ReturnWithout
  <2>2. CASE ~ReturnWithout
    BY <1>2, <2>2 DEF LoopStep, CallerOnly, requests,
         Subscribed, StreamEnds, ObserveLog, PushLog, Ignored, ObserveDecodedType, PushType, Stop
  <2> QED BY <2>1, <2>2
<1>3. CASE ShutdownStep \/ UpdaterBreaks \/ ServerStep \/ Tick \/ Pass
  BY <1>3 DEF ShutdownStep, ServerStep, ServerOnly, CallerOnly, requests,
       TellUpdater, TellServer, Return, UpdaterBreaks, Drain, ServerEnds, Tick, Pass
<1>4. ASSUME NEW d \in Clients, Ask(d) \/ HandlerStep(d) \/ Answered(d)
      PROVE  \/ request'[c] = request[c] /\ last_log'[c] = last_log[c]
             \/ ReadConnected(c) /\ request'[c] = "log" /\ ws_connected # 0
             \/ ReadLastLog(c) /\ request'[c] = "age" /\ last_log_unix_seconds # 0
                /\ last_log'[c] = last_log_unix_seconds
             \/ ReadAge(c) /\ request'[c] = "ok" /\ IsFresh(last_log[c])
  <2>1. CASE d # c
    BY <1>1, <1>4, <2>1 DEF Ask, HandlerStep, Answered, ReadConnected, ReadLastLog, ReadAge
  <2>2. CASE d = c
    <3>1. CASE Ask(c) \/ Answered(c)
      BY <1>1, <3>1 DEF Ask, Answered
    <3>2. CASE ReadConnected(c)
      BY <1>1, <3>2 DEF ReadConnected
    <3>3. CASE ReadLastLog(c)
      BY <1>1, <3>3 DEF ReadLastLog
    <3>4. CASE ReadAge(c)
      BY <1>1, <3>4 DEF ReadAge
    <3> QED BY <1>4, <2>2, <3>1, <3>2, <3>3, <3>4 DEF HandlerStep
  <2> QED BY <2>1, <2>2
<1> QED BY <1>2, <1>3, <1>4 DEF Step

\* Where the loop and the server are.
LEMMA ServerKept ==
  ASSUME TypeOK, HandlersFindStale, Step
  PROVE  /\ ws_connected' = 1 => loop' \in ConnectedLoops \/ server' = "stopped"
         /\ server' # "serving" => loop' \in {"server", "ended"}
         /\ server' = "stopped" => Asking' = {}
<1>1. /\ ws_connected = 1 => loop \in ConnectedLoops \/ server = "stopped"
      /\ server # "serving" => loop \in {"server", "ended"}
      /\ server = "stopped" => \A c \in Clients : request[c] = "idle"
  BY DEF HandlersFindStale, ConnectedLoops, Asking
<1>2. DOMAIN request = Clients
  BY DEF TypeOK
<1> SUFFICES /\ ws_connected' = 1 => loop' \in ConnectedLoops \/ server' = "stopped"
             /\ server' # "serving" => loop' \in {"server", "ended"}
             /\ server' = "stopped" => \A c \in Clients : request'[c] = "idle"
  BY DEF Asking
<1>3. CASE LoopStep
  <2>1. CASE ReturnWithout
    BY <2>1 DEF ReturnWithout
  <2>2. CASE ~ReturnWithout
    <3>1. /\ UNCHANGED <<server, request>> /\ loop \notin {"server", "ended"}
          /\ \/ loop' \in ConnectedLoops
             \/ ws_connected' = 0
      BY <1>3, <2>2 DEF LoopStep, CallerOnly, requests, ConnectedLoops,
           Subscribed, StreamEnds, ObserveLog, PushLog, Ignored, ObserveDecodedType, PushType, Stop
    <3> QED BY <1>1, <3>1
  <2> QED BY <2>1, <2>2
<1>4. CASE ShutdownStep
  BY <1>1, <1>4 DEF ShutdownStep, CallerOnly, requests, gauges, ConnectedLoops,
       TellUpdater, TellServer, Return
<1>5. CASE ServerStep
  BY <1>1, <1>5 DEF ServerStep, ServerOnly, requests, gauges, Drain, ServerEnds
<1>6. CASE Tick \/ UpdaterBreaks \/ Pass
  BY <1>1, <1>6 DEF Tick, UpdaterBreaks, Pass, requests, gauges
<1>7. ASSUME NEW d \in Clients, Ask(d) \/ HandlerStep(d) \/ Answered(d)
      PROVE  /\ ws_connected' = 1 => loop' \in ConnectedLoops \/ server' = "stopped"
             /\ server' # "serving" => loop' \in {"server", "ended"}
             /\ server' = "stopped" => \A c \in Clients : request'[c] = "idle"
  BY <1>1, <1>2, <1>7 DEF Ask, HandlerStep, Answered, ServerOnly, gauges, ReadConnected, ReadLastLog, ReadAge
<1> QED BY <1>3, <1>4, <1>5, <1>6, <1>7 DEF Step

LEMMA HandlersKept ==
  ASSUME TypeOK, TimesAgree, HandlersFindStale, OkIsOfOneMoment, Step,
         witnessed' = {c \in Asking' : c \in witnessed \/ Healthy'}
  PROVE  HandlersFindStale' /\ OkIsOfOneMoment'
<1>1. ASSUME NEW c \in Clients, c \notin witnessed', request'[c] \in {"log", "age", "ok"}
      PROVE  /\ request'[c] = "log" => IsStale(last_log_unix_seconds)'
             /\ request'[c] = "age" => last_log'[c] > 0 /\ IsStale(last_log[c])'
             /\ request'[c] # "ok"
  <2>1. c \in Asking'
    BY <1>1 DEF Asking
  <2>2. c \notin witnessed /\ ~Healthy'
    BY <1>1, <2>1
  <2>3. last_log_unix_seconds' = last_log_unix_seconds
    BY <2>2, LastLogMoves
  <2>4. /\ request[c] = "log" => IsStale(last_log_unix_seconds)
        /\ request[c] = "age" => last_log[c] > 0 /\ IsStale(last_log[c])
        /\ request[c] # "ok"
    BY <2>2 DEF HandlersFindStale, OkIsOfOneMoment
  <2>5. last_log_unix_seconds \in Nat /\ last_log[c] \in Nat
    BY Constants DEF TypeOK, Times
  <2>6. PICK x \in Nat : x = last_log_unix_seconds
    BY <2>5
  <2>7. PICK y \in Nat : y = last_log[c]
    BY <2>5
  <2>8. /\ IsStale(last_log_unix_seconds) => IsStale(last_log_unix_seconds)'
        /\ IsStale(last_log_unix_seconds) <=> IsStale(x)
        /\ IsStale(x) => IsStale(x)'
    <3>1. IsStale(x) => IsStale(x)'
      BY StaleStays
    <3> QED BY <2>3, <2>6, <3>1 DEF IsStale
  <2>9. CASE request'[c] = request[c] /\ last_log'[c] = last_log[c]
    <3>1. IsStale(y) => IsStale(y)'
      BY StaleStays
    <3>2. IsStale(last_log[c]) => IsStale(last_log[c])'
      BY <2>7, <2>9, <3>1 DEF IsStale
    <3> QED BY <2>4, <2>8, <2>9, <3>2
  <2>10. CASE ReadConnected(c) /\ request'[c] = "log" /\ ws_connected # 0
    <3>1. ws_connected = 1 /\ request[c] = "connected" /\ loop' = loop
      BY <2>10 DEF ReadConnected, ServerOnly, TypeOK
    <3>2. server # "stopped"
      BY <3>1 DEF HandlersFindStale, Asking
    <3>3. loop' \in ConnectedLoops
      BY <3>1, <3>2 DEF HandlersFindStale, ConnectedLoops
    <3>4. ~(last_log_unix_seconds' > 0 /\ UnixSeconds' - last_log_unix_seconds' <= MaxStaleness)
      BY <2>2, <3>3 DEF Healthy, ConnectedLoops
    <3>5. UnixSeconds' \in Nat
      BY <3>1, <2>10, NatTimes, SecondsOf DEF TimesAreNat, UnixSeconds, ReadConnected, ServerOnly
    <3>6. IsStale(last_log_unix_seconds)'
      <4>1. PICK b \in Nat : b = UnixSeconds'
        BY <3>5
      <4>2. IsStale(last_log_unix_seconds)' <=> (x > 0 => b - x > MaxStaleness)
        BY <2>3, <2>6, <4>1 DEF IsStale
      <4>3. ~(x > 0 /\ b - x <= MaxStaleness)
        BY <2>3, <2>6, <3>4, <4>1
      <4> QED BY <4>2, <4>3, Constants
    <3> QED BY <2>10, <3>6
  <2>11. CASE ReadLastLog(c) /\ request'[c] = "age" /\ last_log_unix_seconds # 0
              /\ last_log'[c] = last_log_unix_seconds
    <3>1. request[c] = "log"
      BY <2>11 DEF ReadLastLog
    <3>2. IsStale(x)'
      BY <2>4, <2>8, <3>1
    <3>3. IsStale(last_log[c])'
      BY <2>6, <2>11, <3>2 DEF IsStale
    <3> QED BY <2>5, <2>11, <3>3
  <2>12. ~(ReadAge(c) /\ request'[c] = "ok" /\ IsFresh(last_log[c]))
    <3> SUFFICES ASSUME ReadAge(c), IsFresh(last_log[c]) PROVE FALSE
      OBVIOUS
    <3>1. last_log[c] > 0 /\ IsStale(last_log[c])
      BY <2>4 DEF ReadAge
    <3>2. PICK a \in Nat : a = UnixSeconds
      BY NatTimes, SecondsOf DEF TimesAreNat, UnixSeconds
    <3> QED BY <2>7, <3>1, <3>2, Constants DEF IsStale, IsFresh
  <2> QED BY <1>1, <2>9, <2>10, <2>11, <2>12, HandlerMoves
<1>2. HandlersFindStale'
  <2>1. \A c \in Clients \ witnessed' :
          /\ request'[c] = "log" => IsStale(last_log_unix_seconds)'
          /\ request'[c] = "age" => last_log'[c] > 0 /\ IsStale(last_log[c])'
    BY <1>1
  <2> QED BY <2>1, ServerKept DEF HandlersFindStale, ConnectedLoops
<1>3. OkIsOfOneMoment'
  BY <1>1 DEF OkIsOfOneMoment
<1> QED BY <1>2, <1>3

-----------------------------------------------------------------------------
(* The invariant *)

LEMMA InvHolds == Init => RuntimeInv
<1> SUFFICES ASSUME Init PROVE RuntimeInv
  OBVIOUS
<1> USE Constants
<1>1. now = Second /\ ticks = 0 /\ stamp = 0 /\ Second * ticks = 0 /\ Second * (1 + ticks) = Second
  BY DEF Init
<1>2. PlainTypes
  BY <1>1 DEF Init, PlainTypes, Times
<1>3. SequenceTypes
  BY DEF Init, SequenceTypes
<1>4. WindowsFollowLogs
  <2>1. Keeps(<<>>, <<>>)
    <3>1. Len(<<>>) = 0 /\ Len(<<>>) - Len(<<>>) = 0 /\ DOMAIN <<>> = {} /\ 1 .. 0 = {}
      OBVIOUS
    <3> QED BY <3>1 DEF Keeps
  <2>2. /\ total = <<>> /\ logged = <<>> /\ logs_per_minute = 0
        /\ \A t \in Types : by_type[t] = <<>> /\ typed[t] = <<>> /\ logs_per_minute_by_type[t] = 0
    BY DEF Init
  <2>3. Len(<<>>) = 0
    OBVIOUS
  <2> QED BY <2>1, <2>2, <2>3 DEF WindowsFollowLogs
<1>5. TimesAgree
  <2>1. ClockAgrees
    BY <1>1 DEF Init, ClockAgrees, Deadline
  <2>2. LengthsAgree
    BY DEF Init, LengthsAgree
  <2> QED BY <2>1, <2>2, TimesParts
<1>6. GaugeTypes /\ witnessed \subseteq Clients
  BY DEF Init, GaugeTypes
<1>7. OkIsOfOneMoment /\ HandlersFindStale
  BY DEF Init, OkIsOfOneMoment, HandlersFindStale, Asking
<1> QED BY <1>2, <1>3, <1>4, <1>5, <1>6, <1>7, TypeParts DEF RuntimeInv

LEMMA InvOfStutter == RuntimeInv /\ UNCHANGED vars => RuntimeInv'
<1> SUFFICES ASSUME RuntimeInv, UNCHANGED vars PROVE RuntimeInv'
  OBVIOUS
<1>1. UNCHANGED <<loop, stamp, ws_connected, last_log_unix_seconds, logs_per_minute,
        logs_per_minute_by_type, total, by_type, updater, server, request, last_log, now, ticks,
        logged, typed, witnessed>>
  BY DEF vars, steps, gauges, rates, requests, history
<1>2. TypeOK'
  BY <1>1 DEF RuntimeInv, TypeOK
<1>3. OkIsOfOneMoment' /\ HandlersFindStale'
  BY <1>1 DEF RuntimeInv, OkIsOfOneMoment, HandlersFindStale, Asking, IsStale, UnixSeconds
<1>4. TimesAgree'
  BY <1>1 DEF RuntimeInv, TimesAgree, Deadline
<1>5. WindowsFollowLogs'
  BY <1>1, WindowParts DEF RuntimeInv
<1> QED BY <1>2, <1>3, <1>4, <1>5 DEF RuntimeInv

LEMMA InvKept == RuntimeInv /\ [Next]_vars => RuntimeInv'
<1> SUFFICES ASSUME RuntimeInv, [Next]_vars PROVE RuntimeInv'
  OBVIOUS
<1>1. CASE UNCHANGED vars
  BY <1>1, InvOfStutter
<1>2. ASSUME Step, witnessed' = {c \in Asking' : c \in witnessed \/ Healthy'}
      PROVE  RuntimeInv'
  <2>1. TypeOK /\ OkIsOfOneMoment /\ HandlersFindStale /\ TimesAgree /\ WindowsFollowLogs
    BY DEF RuntimeInv
  <2>2. PlainTypes' /\ SequenceTypes'
    BY <1>2, <2>1, PlainTypesKept, SequenceTypesKept
  <2>3. TimesAgree'
    BY <1>2, <2>1, ClockKept, LengthsKept, TimesParts, PTL
  <2>4. WindowsFollowLogs' /\ GaugesAreMaps'
    BY <1>2, <2>1, WindowsKept
  <2>5. GaugeTypes'
    BY <2>2, <2>3, <2>4, GaugesAreTyped, PTL
  <2>6. witnessed' \subseteq Clients
    BY <1>2 DEF Asking
  <2>7. TypeOK'
    BY <2>2, <2>5, <2>6 DEF TypeOK, PlainTypes, SequenceTypes, GaugeTypes
  <2>8. HandlersFindStale' /\ OkIsOfOneMoment'
    BY <1>2, <2>1, HandlersKept
  <2> QED BY <2>3, <2>4, <2>7, <2>8 DEF RuntimeInv
<1> QED BY <1>1, <1>2 DEF Next

\* A handler that has met no healthy moment has found or will find a last log
\* that is too old, and a window is what pruning leaves of the logs so far.
THEOREM RuntimeInvariance == Spec => []RuntimeInv
BY InvHolds, InvKept, PTL DEF Spec

\* The state of the metrics runtime has its type.
THEOREM RuntimeTypeCorrect == Spec => []TypeOK
<1>1. RuntimeInv => TypeOK
  BY DEF RuntimeInv
<1> QED BY <1>1, RuntimeInvariance, PTL

\* is_healthy reads two gauges and the clock at three moments, and yet its "ok"
\* is true of one moment of the request, however the loop moves in between.
THEOREM OkMoment == Spec => []OkIsOfOneMoment
<1>1. RuntimeInv => OkIsOfOneMoment
  BY DEF RuntimeInv
<1> QED BY <1>1, RuntimeInvariance, PTL

-----------------------------------------------------------------------------
(* The rates *)

\* The length of a window, against the stamps of all logs.
LEMMA WindowCounts ==
  ASSUME NEW entries \in Seq(Nat), NEW stamps \in Seq(Nat), NEW at \in Int, NEW t \in Nat,
         NEW last, KeptAt(entries, stamps, at, t, last)
  PROVE  /\ Len(entries) >= Since(t - Window, stamps)
         /\ \A low \in Int : low <= at => Len(entries) <= Since(low, stamps)
<1> USE Constants
<1>1. PICK n \in Nat : n = Len(entries) /\ DOMAIN entries = 1 .. n
  OBVIOUS
<1>2. PICK l \in Nat : l = Len(stamps) /\ DOMAIN stamps = 1 .. l
  OBVIOUS
<1>3. PICK d \in Nat : IsTail(entries, stamps, d, t, last)
  BY KeptParts DEF HasTail
<1>4. /\ l = d + n
      /\ \A k \in 1 .. n : entries[k] = stamps[d + k]
      /\ \A i \in 1 .. d : stamps[i] < t - Window
  BY <1>1, <1>2, <1>3 DEF IsTail
<1>5. \A k \in 1 .. n : entries[k] >= at
  BY <1>1, KeptParts DEF NotBefore
<1>6. \A i \in 1 .. l : stamps[i] \in Nat
  BY <1>2
<1>7. PICK kept : kept = (d + 1) .. l
  OBVIOUS
<1>8. IsFiniteSet(kept) /\ Cardinality(kept) = n
  <2>1. d + 1 \in Int /\ l \in Int
    OBVIOUS
  <2>2. IsFiniteSet(kept) /\ Cardinality(kept) = IF d + 1 > l THEN 0 ELSE l - (d + 1) + 1
    BY <1>7, <2>1, FS_Interval
  <2> QED BY <1>4, <2>2
<1>9. Len(entries) >= Since(t - Window, stamps)
  <2>1. PICK recent : recent = {i \in DOMAIN stamps : stamps[i] >= t - Window}
    OBVIOUS
  <2>2. recent \subseteq kept
    <3> SUFFICES ASSUME NEW i \in recent PROVE i \in kept
      OBVIOUS
    <3>1. i \in 1 .. l /\ stamps[i] >= t - Window
      BY <1>2, <2>1
    <3>2. i \notin 1 .. d
      BY <1>4, <1>6, <3>1
    <3> QED BY <1>7, <3>1, <3>2
  <2>3. IsFiniteSet(recent) /\ Cardinality(recent) <= Cardinality(kept)
    BY <1>8, <2>2, FS_Subset
  <2>4. Cardinality(recent) \in Nat
    BY <2>3, FS_CardinalityType
  <2> QED BY <1>1, <1>8, <2>1, <2>3, <2>4 DEF Since
<1>10. ASSUME NEW low \in Int, low <= at PROVE Len(entries) <= Since(low, stamps)
  <2>1. PICK recent : recent = {i \in DOMAIN stamps : stamps[i] >= low}
    OBVIOUS
  <2>2. kept \subseteq recent
    <3> SUFFICES ASSUME NEW i \in kept PROVE i \in recent
      OBVIOUS
    <3>1. PICK k \in 1 .. n : i = d + k
      BY <1>4, <1>7
    <3>2. i \in 1 .. l /\ stamps[i] = entries[k]
      BY <1>4, <3>1
    <3>3. PICK a \in Nat : a = stamps[i]
      BY <1>6, <3>2
    <3>4. a >= at
      BY <1>5, <3>2, <3>3
    <3>5. a >= low
      BY <1>10, <3>4
    <3> QED BY <1>2, <2>1, <3>2, <3>3, <3>5
  <2>3. IsFiniteSet(recent)
    <3>1. IsFiniteSet(1 .. l)
      BY FS_Interval
    <3>2. recent \subseteq 1 .. l
      BY <1>2, <2>1
    <3> QED BY <3>1, <3>2, FS_Subset
  <2>4. Cardinality(kept) <= Cardinality(recent)
    BY <2>2, <2>3, FS_Subset
  <2> QED BY <1>1, <1>8, <2>1, <2>4 DEF Since
<1> QED BY <1>9, <1>10

LEMMA RatesOfInv == RuntimeInv => RatesAreOfLastMinute
<1> SUFFICES ASSUME RuntimeInv PROVE RatesAreOfLastMinute
  OBVIOUS
<1> USE Constants
<1>1. TypeOK /\ TimesAgree /\ WindowsFollowLogs
  BY DEF RuntimeInv
<1>2. TimesAreNat
  BY <1>1, NatTimes
<1>3. PICK at \in Int : at = Second * ticks - Window
  BY <1>2 DEF TimesAreNat
<1>4. PICK low \in Int : low = now - Window - Second - MaxDelay
  BY <1>2 DEF TimesAreNat
<1>5. updater = "running" => low <= at
  <2> SUFFICES ASSUME updater = "running" PROVE low <= at
    OBVIOUS
  <2>1. Second * (1 + ticks) = Second + Second * ticks
    BY <1>2 DEF TimesAreNat
  <2>2. PICK s \in Nat : s = Second * ticks
    BY <1>2 DEF TimesAreNat
  <2>3. now <= Second + s + MaxDelay
    BY <1>1, <2>1, <2>2 DEF TimesAgree, Deadline
  <2> QED BY <1>2, <1>3, <1>4, <2>2, <2>3 DEF TimesAreNat
<1>6. /\ logs_per_minute >= Since(now - Window, logged)
      /\ updater = "running" => logs_per_minute <= Since(low, logged)
  BY <1>1, <1>2, <1>3, <1>5, WindowParts, WindowCounts DEF TimesAreNat
<1>7. ASSUME NEW t \in Types
      PROVE  /\ logs_per_minute_by_type[t] >= Since(now - Window, typed[t])
             /\ updater = "running" => logs_per_minute_by_type[t] <= Since(low, typed[t])
  BY <1>1, <1>2, <1>3, <1>5, WindowParts, WindowCounts DEF TimesAreNat
<1> QED BY <1>4, <1>6, <1>7, Zenon DEF RatesAreOfLastMinute

\* The rates show every log of the last minute, and while the updater runs none
\* that is older by more than a tick and its delay, whoever pruned last.
THEOREM RatesCorrect == Spec => []RatesAreOfLastMinute
BY RuntimeInvariance, RatesOfInv, PTL
=============================================================================
