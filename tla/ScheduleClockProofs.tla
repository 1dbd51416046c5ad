------------------------- MODULE ScheduleClockProofs -------------------------
(***************************************************************************)
(* Proofs about ScheduleClock, for every length of the minute and the day  *)
(* and every valid schedule.                                               *)
(***************************************************************************)
EXTENDS ScheduleClock, TLAPS

\* What the floor division of seconds_until_next_run leaves.
LEMMA Remainder ==
    ASSUME NEW a \in Nat, NEW b \in Nat \ {0}
    PROVE  /\ a % b \in Nat /\ a % b < b /\ a % b <= a
           /\ a \div b \in Nat
           /\ a = b * (a \div b) + (a % b)
OBVIOUS

LEMMA Times ==
    ASSUME NEW a \in Nat, NEW b \in Nat, NEW c \in Nat
    PROVE  /\ a * c \in Nat
           /\ a <= b => a * c <= b * c
           /\ (a + b) * c = a * c + b * c
OBVIOUS

\* The slot of the interval that the current time is in lies less than one
\* interval away, on either side.
LEMMA SlotIsNear ==
    ASSUME NEW s \in Schedule, Valid(s), NEW t \in Nat
    PROVE  /\ Slot(s, t) \in Nat
           /\ s.interval * Minute \in Nat
           /\ Slot(s, t) > t - s.interval * Minute
           /\ Slot(s, t) < t + s.interval * Minute
<1> DEFINE d == Day * Minute
           r == t % d
           m == r \div Minute
           i == s.interval
           k == m % i
<1>1. d \in Nat \ {0} /\ Minute \in Nat \ {0} /\ i \in Nat \ {0} /\ s.offset \in Nat /\ s.second \in Nat
  BY DayAssumption, MinuteAssumption DEF Schedule, Valid
<1>2. r \in Nat /\ r <= t
  BY <1>1, Remainder
<1>3. m \in Nat /\ r = Minute * m + (r % Minute) /\ r % Minute \in Nat /\ r % Minute < Minute
  BY <1>1, <1>2, Remainder
<1>4. k \in Nat /\ k < i /\ k <= m
  BY <1>1, <1>3, Remainder
<1>5. Slot(s, t) = (t - r) + ((m - k) + s.offset) * Minute + s.second
  BY DEF Slot, DayStart, MinuteBase, ElapsedMinutes
<1>6. s.offset + 1 <= i /\ s.second < Minute
  BY <1>1 DEF Valid
<1> HIDE DEF d, r, m, i, k
<1>7. ((m - k) + s.offset) * Minute = (m - k) * Minute + s.offset * Minute
  BY <1>1, <1>3, <1>4, Times
<1>8. (m - k) * Minute = m * Minute - k * Minute
  BY <1>1, <1>3, <1>4
<1>9. k * Minute \in Nat /\ k * Minute + Minute <= i * Minute
  <2>1. (k + 1) * Minute <= i * Minute /\ (k + 1) * Minute = k * Minute + Minute
    BY <1>1, <1>4, Times
  <2> QED BY <1>1, <1>4, <2>1, Times
<1>10. s.offset * Minute \in Nat /\ s.offset * Minute + Minute <= i * Minute
  <2>1. (s.offset + 1) * Minute <= i * Minute /\ (s.offset + 1) * Minute = s.offset * Minute + Minute
    BY <1>1, <1>6, Times
  <2> QED BY <1>1, <2>1, Times
<1>11. m * Minute \in Nat /\ k * Minute <= m * Minute /\ Minute * m = m * Minute
  BY <1>1, <1>3, <1>4, Times
<1>12. i * Minute \in Nat
  BY <1>1, Times
<1> DEFINE mm == m * Minute
           km == k * Minute
           om == s.offset * Minute
           im == i * Minute
<1>13. Slot(s, t) = (t - r) + ((mm - km) + om) + s.second
  BY <1>5, <1>7, <1>8
<1>14. /\ mm \in Nat /\ km \in Nat /\ om \in Nat /\ im \in Nat
       /\ km <= mm /\ km + Minute <= im /\ om + Minute <= im
       /\ r = mm + (r % Minute)
  BY <1>3, <1>9, <1>10, <1>11, <1>12
<1> HIDE DEF mm, km, om, im
<1>15. /\ Slot(s, t) \in Nat
       /\ Slot(s, t) > t - im
       /\ Slot(s, t) < t + im
  BY <1>1, <1>2, <1>3, <1>6, <1>13, <1>14
<1> QED BY <1>14, <1>15 DEF im, i

\* seconds_until_next_run is positive and at most one interval, for every
\* valid schedule and every time of the day, whether or not the interval
\* divides the day.
THEOREM WaitIsShort ==
    ASSUME NEW s \in Schedule, Valid(s), NEW t \in Nat
    PROVE  /\ NextRun(s, t) \in Nat
           /\ NextRun(s, t) > t
           /\ NextRun(s, t) <= t + s.interval * Minute
<1>1. /\ Slot(s, t) \in Nat
      /\ s.interval * Minute \in Nat
      /\ Slot(s, t) > t - s.interval * Minute
      /\ Slot(s, t) < t + s.interval * Minute
  BY SlotIsNear
<1> DEFINE x == Slot(s, t)
           y == s.interval * Minute
<1>2. NextRun(s, t) = IF x <= t THEN x + y ELSE x
  BY DEF NextRun
<1> HIDE DEF x, y
<1>3. x \in Nat /\ y \in Nat /\ x > t - y /\ x < t + y
  BY <1>1 DEF x, y
<1>4. NextRun(s, t) \in Nat /\ NextRun(s, t) > t /\ NextRun(s, t) <= t + y
  BY <1>2, <1>3
<1> QED BY <1>4 DEF y

LEMMA InitType == Init => TypeOK
<1> SUFFICES ASSUME Init PROVE TypeOK
  OBVIOUS
<1>1. sched \in Schedule /\ Valid(sched) /\ now \in Nat
  BY MinuteAssumption, DayAssumption DEF Init, Schedule
<1>2. target \in Nat
  BY <1>1, WaitIsShort DEF Init
<1> QED BY <1>1, <1>2 DEF Init, TypeOK

LEMMA NextType == TypeOK /\ [Next]_clockvars => TypeOK'
<1> SUFFICES ASSUME TypeOK, [Next]_clockvars PROVE TypeOK'
  OBVIOUS
<1>1. CASE WakeUp
  BY <1>1 DEF TypeOK, WakeUp
<1>2. CASE RoundEnds
  BY <1>2, WaitIsShort DEF TypeOK, RoundEnds
<1>3. CASE Tick
  BY <1>3 DEF TypeOK, Tick
<1>4. CASE AtHorizon \/ UNCHANGED clockvars
  BY <1>4 DEF TypeOK, AtHorizon, clockvars
<1> QED BY <1>1, <1>2, <1>3, <1>4 DEF Next

\* The task keeps the valid schedule it was created with, and its target is
\* a time (TypeOK).
THEOREM TypeCorrect == Spec => []TypeOK
BY InitType, NextType, PTL DEF Spec

\* A task that goes to sleep wakes up within one interval, and never for the
\* slot it has just run: no round is followed by a round of the same slot
\* however short it was (SleepIsShort).
THEOREM SleepEnds == Spec => SleepIsShort
<1>1. TypeOK /\ [Next]_clockvars =>
        [mode = "running" /\ mode' = "sleeping" =>
            target' > now /\ target' <= now + sched.interval * Minute]_clockvars
  <2> SUFFICES ASSUME TypeOK, Next, mode = "running", mode' = "sleeping"
               PROVE  target' > now /\ target' <= now + sched.interval * Minute
    OBVIOUS
  <2>1. RoundEnds
    BY DEF Next, WakeUp, Tick, AtHorizon, clockvars
  <2> QED BY <2>1, WaitIsShort DEF RoundEnds, TypeOK
<1> QED BY <1>1, TypeCorrect, PTL DEF Spec, SleepIsShort

-----------------------------------------------------------------------------
(* An interval that divides the day: the grid does not break off at         *)
(* midnight, and its slots are an arithmetic progression.                   *)

Period(s) == s.interval * Minute

\* Where in an interval the slot is.
Phase(s) == s.offset * Minute + s.second

\* Quotient and remainder are determined by their equation.
LEMMA DivisionIsUnique ==
    ASSUME NEW b \in Nat \ {0}, NEW q \in Nat, NEW c \in Nat, c < b,
           NEW a \in Nat, a = b * q + c
    PROVE  a % b = c
<1> DEFINE p == a \div b
           r == a % b
<1>1. r \in Nat /\ r < b /\ p \in Nat /\ a = b * p + r
  BY Remainder
<1> HIDE DEF p, r
<1>2. CASE p < q
  <2>1. b * (p + 1) <= b * q /\ b * (p + 1) = b * p + b /\ b * p \in Nat /\ b * q \in Nat
    BY <1>1, <1>2
  <2> DEFINE bp == b * p
             bq == b * q
  <2>2. bp \in Nat /\ bq \in Nat /\ bp + b <= bq /\ a = bp + r /\ a = bq + c
    BY <1>1, <2>1
  <2> HIDE DEF bp, bq
  <2> QED BY <1>1, <2>2
<1>3. CASE q < p
  <2>1. b * (q + 1) <= b * p /\ b * (q + 1) = b * q + b /\ b * p \in Nat /\ b * q \in Nat
    BY <1>1, <1>3
  <2> DEFINE bp == b * p
             bq == b * q
  <2>2. bp \in Nat /\ bq \in Nat /\ bq + b <= bp /\ a = bp + r /\ a = bq + c
    BY <1>1, <2>1
  <2> HIDE DEF bp, bq
  <2> QED BY <1>1, <2>2
<1>4. CASE p = q
  <2>1. b * q \in Nat /\ b * q + r = b * q + c
    BY <1>1, <1>4
  <2>2. r = c
    BY <1>1, <2>1
  <2> QED BY <2>2 DEF r
<1> QED BY <1>1, <1>2, <1>3, <1>4

\* The parts of a schedule and of its period.
LEMMA PeriodOf ==
    ASSUME NEW s \in Schedule, Valid(s)
    PROVE  /\ s.interval \in Nat \ {0} /\ s.offset \in Nat /\ s.second \in Nat
           /\ Period(s) \in Nat \ {0}
           /\ Phase(s) \in Nat /\ Phase(s) < Period(s)
<1>1. /\ s.interval \in Nat \ {0} /\ s.offset \in Nat /\ s.second \in Nat
      /\ s.offset + 1 <= s.interval /\ s.second < Minute /\ Minute \in Nat \ {0}
  BY MinuteAssumption DEF Schedule, Valid
<1>2. s.interval * Minute \in Nat \ {0}
  BY <1>1
<1>3. (s.offset + 1) * Minute <= s.interval * Minute /\ s.offset * Minute \in Nat
      /\ (s.offset + 1) * Minute = s.offset * Minute + Minute
  BY <1>1, Times
<1> DEFINE om == s.offset * Minute
           im == s.interval * Minute
<1>4. om \in Nat /\ im \in Nat /\ om + Minute <= im
  BY <1>2, <1>3
<1> HIDE DEF om, im
<1>5. om + s.second \in Nat /\ om + s.second < im
  BY <1>1, <1>4
<1> QED BY <1>1, <1>2, <1>5 DEF Period, Phase, om, im

\* The day holds a whole number of intervals.
LEMMA DayIsWhole ==
    ASSUME NEW s \in Schedule, Valid(s), Daily(s)
    PROVE  \E n \in Nat \ {0} : /\ Day = s.interval * n
                                /\ Day * Minute = Period(s) * n
<1>1. s.interval \in Nat \ {0} /\ Day \in Nat \ {0} /\ Minute \in Nat \ {0}
  BY PeriodOf, DayAssumption, MinuteAssumption
<1> DEFINE n == Day \div s.interval
<1>2. n \in Nat /\ Day = s.interval * n + (Day % s.interval) /\ Day % s.interval = 0
  BY <1>1, Remainder DEF Daily
<1> HIDE DEF n
<1>3. Day = s.interval * n /\ n # 0
  BY <1>1, <1>2
<1>4. (s.interval * n) * Minute = (s.interval * Minute) * n
  BY <1>1, <1>2
<1> QED BY <1>2, <1>3, <1>4 DEF Period

\* The slot that seconds_until_next_run starts from is the one of the period
\* that the current time is in.
LEMMA SlotInPeriod ==
    ASSUME NEW s \in Schedule, Valid(s), Daily(s), NEW t \in Nat
    PROVE  \E g \in Nat : /\ Slot(s, t) = Period(s) * g + Phase(s)
                          /\ Period(s) * g <= t
                          /\ t < Period(s) * g + Period(s)
<1> DEFINE i == s.interval
           p == Period(s)
           r == t % (Day * Minute)
           d == t \div (Day * Minute)
           m == r \div Minute
           k == m % i
           e == m \div i
<1>1. /\ i \in Nat \ {0} /\ p \in Nat \ {0} /\ s.offset \in Nat /\ s.second \in Nat
      /\ Day \in Nat \ {0} /\ Minute \in Nat \ {0} /\ p = i * Minute
  BY PeriodOf, DayAssumption, MinuteAssumption DEF Period
<1>2. PICK n \in Nat \ {0} : Day * Minute = p * n
  BY DayIsWhole
<1>3. Day * Minute \in Nat \ {0}
  BY <1>1
<1>4. r \in Nat /\ d \in Nat /\ t = (Day * Minute) * d + r
  BY <1>3, Remainder
<1>5. m \in Nat /\ r % Minute \in Nat /\ r % Minute < Minute /\ r = Minute * m + (r % Minute)
  BY <1>1, <1>4, Remainder
<1>6. Slot(s, t) = (t - r) + ((m - k) + s.offset) * Minute + s.second
  BY DEF Slot, DayStart, MinuteBase, ElapsedMinutes
<1> DEFINE x == r % Minute
<1> HIDE DEF i, r, d, m, p
<1>7. e \in Nat /\ k \in Nat /\ k + 1 <= i /\ m = i * e + k
  <2>1. e \in Nat /\ k \in Nat /\ k < i /\ m = i * e + k
    BY <1>1, <1>5, Remainder
  <2> QED BY <1>1, <2>1
<1> HIDE DEF k, e, x
<1> DEFINE g == n * d + e
<1>8. g \in Nat /\ p * g = p * (n * d) + p * e /\ p * (n * d) = (Day * Minute) * d
  BY <1>1, <1>2, <1>4, <1>7
<1>9. ((m - k) + s.offset) * Minute = p * e + s.offset * Minute
  <2>1. m - k = i * e /\ i * e \in Nat
    BY <1>1, <1>7
  <2>2. (i * e + s.offset) * Minute = (i * e) * Minute + s.offset * Minute
    BY <1>1, <2>1, Times
  <2>3. (i * e) * Minute = p * e
    BY <1>1, <1>7
  <2> QED BY <2>1, <2>2, <2>3
<1>10. Minute * m = p * e + Minute * k
  BY <1>1, <1>7
<1>11. Minute * k + Minute <= p /\ Minute * k \in Nat
  <2>1. (k + 1) * Minute <= i * Minute /\ (k + 1) * Minute = k * Minute + Minute
    BY <1>1, <1>7, Times
  <2>2. k * Minute = Minute * k
    BY <1>1, <1>7
  <2> QED BY <1>1, <1>7, <2>1, <2>2
<1>12. p * g \in Nat /\ p * (n * d) \in Nat /\ p * e \in Nat /\ s.offset * Minute \in Nat
  BY <1>1, <1>4, <1>7, <1>8
<1> DEFINE pg == p * g
           pd == p * (n * d)
           pe == p * e
           mk == Minute * k
           om == s.offset * Minute
<1>13. /\ pg \in Nat /\ pd \in Nat /\ pe \in Nat /\ mk \in Nat /\ om \in Nat
       /\ pg = pd + pe
       /\ t = pd + r /\ r = (pe + mk) + x /\ x \in Nat /\ x < Minute /\ mk + Minute <= p
       /\ Slot(s, t) = (t - r) + (pe + om) + s.second
  BY <1>4, <1>5, <1>6, <1>8, <1>9, <1>10, <1>11, <1>12 DEF x
<1> HIDE DEF pg, pd, pe, mk, om, g
<1>14. Slot(s, t) = pg + (om + s.second) /\ pg <= t /\ t < pg + p
  BY <1>1, <1>4, <1>13
<1>15. g \in Nat /\ Slot(s, t) = p * g + Phase(s) /\ p * g <= t /\ t < p * g + p
  BY <1>8, <1>14 DEF pg, om, Phase
<1> QED BY <1>15 DEF p

\* The slots of such a schedule are the times of its phase in every period.
LEMMA GridIsPeriodic ==
    ASSUME NEW s \in Schedule, Valid(s), Daily(s), NEW u \in Nat
    PROVE  OnGrid(s, u) <=> \E g \in Nat : u = Period(s) * g + Phase(s)
<1> DEFINE p == Period(s)
           i == s.interval
           day == Day * Minute
<1>1. /\ i \in Nat \ {0} /\ p \in Nat \ {0} /\ s.offset \in Nat /\ s.second \in Nat
      /\ Phase(s) \in Nat /\ Phase(s) < p
      /\ Day \in Nat \ {0} /\ Minute \in Nat \ {0} /\ p = i * Minute
  BY PeriodOf, DayAssumption, MinuteAssumption DEF Period
<1>2. PICK n \in Nat \ {0} : Day = i * n /\ day = p * n
  BY DayIsWhole
<1>3. day \in Nat \ {0}
  BY <1>1
<1>4. \A k \in Nat : (k * i + s.offset) * Minute + s.second = p * k + Phase(s)
  <2> SUFFICES ASSUME NEW k \in Nat
               PROVE  (k * i + s.offset) * Minute + s.second = p * k + Phase(s)
    OBVIOUS
  <2>1. k * i \in Nat /\ (k * i) * Minute = p * k
    BY <1>1
  <2>2. (k * i + s.offset) * Minute = (k * i) * Minute + s.offset * Minute
    BY <1>1, <2>1, Times
  <2>3. s.offset * Minute \in Nat /\ p * k \in Nat
    BY <1>1
  <2> QED BY <1>1, <2>1, <2>2, <2>3 DEF Phase
<1> HIDE DEF p, day, i
<1>5. ASSUME OnGrid(s, u)
      PROVE  \E g \in Nat : u = p * g + Phase(s)
  <2>1. PICK k \in 0..Day - 1 : (k * i + s.offset) * Minute + s.second = u % day
    BY <1>5 DEF OnGrid, day, i
  <2>2. k \in Nat /\ u % day = p * k + Phase(s) /\ p * k \in Nat
    BY <1>1, <1>4, <2>1
  <2> DEFINE d == u \div day
  <2>3. d \in Nat /\ u = day * d + (u % day)
    BY <1>3, Remainder
  <2> HIDE DEF d
  <2>4. n * d + k \in Nat /\ p * (n * d + k) = (p * n) * d + p * k /\ (p * n) * d \in Nat
    BY <1>1, <1>2, <2>2, <2>3
  <2>5. u = p * (n * d + k) + Phase(s)
    BY <1>1, <1>2, <2>2, <2>3, <2>4
  <2> QED BY <2>4, <2>5
<1>6. ASSUME NEW g \in Nat, u = p * g + Phase(s)
      PROVE  OnGrid(s, u)
  <2> DEFINE d == g \div n
             k == g % n
  <2>1. d \in Nat /\ k \in Nat /\ k < n /\ g = n * d + k
    BY <1>2, Remainder
  <2> HIDE DEF d, k
  <2>2. k + 1 <= n
    BY <1>2, <2>1
  <2>3. p * (k + 1) <= p * n /\ p * (k + 1) = p * k + p /\ p * k \in Nat
    BY <1>1, <1>2, <2>1, <2>2
  <2>4. p * k + Phase(s) \in Nat /\ p * k + Phase(s) < day
    BY <1>1, <1>2, <1>3, <2>3
  <2>5. p * g = day * d + p * k /\ day * d \in Nat
    BY <1>1, <1>2, <1>3, <2>1
  <2>6. u = day * d + (p * k + Phase(s))
    BY <1>1, <1>6, <2>3, <2>5
  <2>7. u % day = p * k + Phase(s)
    <3> DEFINE rest == p * k + Phase(s)
    <3>1. rest \in Nat /\ rest < day /\ u = day * d + rest
      BY <2>4, <2>6
    <3> HIDE DEF rest
    <3>2. u % day = rest
      BY <1>3, <2>1, <3>1, DivisionIsUnique
    <3> QED BY <3>2 DEF rest
  <2>8. k * i < Day /\ k \in 0..Day - 1
    <3>1. (k + 1) * i <= n * i /\ (k + 1) * i = k * i + i /\ k * i \in Nat
      BY <1>1, <1>2, <2>1, <2>2, Times
    <3>2. n * i = Day
      BY <1>1, <1>2
    <3>3. k * i < Day
      BY <1>1, <3>1, <3>2
    <3>4. k <= k * i
      BY <1>1, <2>1
    <3>5. k < Day
      BY <1>1, <2>1, <3>1, <3>3, <3>4
    <3> QED BY <1>1, <2>1, <3>3, <3>5
  <2>9. (k * i + s.offset) * Minute + s.second = u % day
    BY <1>4, <2>1, <2>7
  <2> QED BY <2>8, <2>9 DEF OnGrid, day, i
<1> QED BY <1>5, <1>6 DEF p

\* seconds_until_next_run returns the time until the first slot that is still
\* to come, for every valid schedule whose interval divides the day.
THEOREM FirstSlotIsNext ==
    ASSUME NEW s \in Schedule, Valid(s), Daily(s), NEW t \in Nat
    PROVE  /\ NextRun(s, t) > t
           /\ OnGrid(s, NextRun(s, t))
           /\ \A u \in t + 1..NextRun(s, t) - 1 : ~OnGrid(s, u)
<1> DEFINE p == Period(s)
           a == Phase(s)
<1>1. p \in Nat \ {0} /\ a \in Nat /\ a < p
  BY PeriodOf
<1>2. PICK g \in Nat : Slot(s, t) = p * g + a /\ p * g <= t /\ t < p * g + p
  BY SlotInPeriod
<1>3. NextRun(s, t) = IF p * g + a <= t THEN (p * g + a) + p ELSE p * g + a
  BY <1>2 DEF NextRun, Period
<1>4. NextRun(s, t) \in Nat /\ NextRun(s, t) > t
  BY WaitIsShort
<1>5. \A u \in Nat : OnGrid(s, u) <=> \E h \in Nat : u = p * h + a
  BY GridIsPeriodic
<1> HIDE DEF p, a
<1>6. p * g \in Nat /\ p * (g + 1) = p * g + p /\ g + 1 \in Nat
  BY <1>1
<1>7. OnGrid(s, NextRun(s, t))
  <2>1. CASE p * g + a <= t
    <3>1. NextRun(s, t) = p * (g + 1) + a
      BY <1>1, <1>3, <1>6, <2>1
    <3> QED BY <1>4, <1>5, <1>6, <3>1
  <2>2. CASE ~(p * g + a <= t)
    BY <1>3, <1>4, <1>5, <2>2
  <2> QED BY <2>1, <2>2
<1>8. ASSUME NEW u \in t + 1..NextRun(s, t) - 1, OnGrid(s, u)
      PROVE  FALSE
  <2>1. u \in Nat /\ t < u /\ u < NextRun(s, t)
    BY <1>4
  <2>2. PICK h \in Nat : u = p * h + a
    BY <1>5, <1>8, <2>1
  <2>3. p * h \in Nat
    BY <1>1, <2>2
  <2>4. CASE h < g
    <3>1. p * (h + 1) <= p * g /\ p * (h + 1) = p * h + p
      BY <1>1, <2>2, <2>4
    <3> QED BY <1>1, <1>2, <1>6, <2>1, <2>2, <2>3, <3>1
  <2>5. CASE h = g
    BY <1>1, <1>3, <1>6, <2>1, <2>2, <2>5
  <2>6. CASE h > g
    <3>1. p * (g + 1) <= p * h
      BY <1>1, <2>2, <2>6
    <3>2. p * g + p <= p * h
      BY <1>6, <3>1
    <3>3. NextRun(s, t) <= p * g + p + a
      BY <1>1, <1>3, <1>6
    <3> QED BY <1>1, <1>4, <1>6, <2>1, <2>2, <2>3, <3>2, <3>3
  <2> QED BY <2>4, <2>5, <2>6
<1> QED BY <1>4, <1>7, <1>8

\* Whenever a task asks, seconds_until_next_run finds the first slot after the
\* current time (NextRunIsFirstSlot).
THEOREM FirstSlotIsFound == Spec => []NextRunIsFirstSlot
<1>1. TypeOK => NextRunIsFirstSlot
  BY FirstSlotIsNext DEF TypeOK, NextRunIsFirstSlot
<1> QED BY <1>1, TypeCorrect, PTL

\* After the current time no slot is passed over, whatever slot was the last.
LEMMA SlotsPassed ==
    ASSUME NEW s \in Schedule, Valid(s), Daily(s), NEW t \in Nat, NEW x \in Nat
    PROVE  \A u \in x + 1..NextRun(s, t) - 1 : OnGrid(s, u) => u <= t
<1> DEFINE n == NextRun(s, t)
<1>1. n \in Nat /\ \A u \in t + 1..n - 1 : ~OnGrid(s, u)
  BY WaitIsShort, FirstSlotIsNext
<1> HIDE DEF n
<1>2. \A u \in x + 1..n - 1 : OnGrid(s, u) => u <= t
  BY <1>1
<1> QED BY <1>2 DEF n

\* A round runs no earlier than the slot it is for.
RoundAfterSlot == mode = "running" => target <= now

\* No slot is run twice, and none is passed over but by a round that lasts past
\* it or by a timer that is late (EverySlotOnce).
THEOREM SlotsAreRunOnce == Spec => EverySlotOnce
<1>1. Init => RoundAfterSlot
  BY DEF Init, RoundAfterSlot
<1>2. TypeOK /\ RoundAfterSlot /\ [Next]_clockvars => RoundAfterSlot'
  BY DEF TypeOK, RoundAfterSlot, Next, WakeUp, RoundEnds, Tick, AtHorizon, clockvars
<1>3. TypeOK /\ RoundAfterSlot /\ [Next]_clockvars =>
        [mode = "running" /\ mode' = "sleeping" =>
            /\ target' > target
            /\ Daily(sched) =>
                  \A u \in target + 1..target' - 1 : OnGrid(sched, u) => u <= now]_clockvars
  <2> SUFFICES ASSUME TypeOK, RoundAfterSlot, Next, mode = "running", mode' = "sleeping"
               PROVE  /\ target' > target
                      /\ Daily(sched) =>
                            \A u \in target + 1..target' - 1 : OnGrid(sched, u) => u <= now
    OBVIOUS
  <2>1. target' = NextRun(sched, now)
    BY DEF Next, WakeUp, RoundEnds, Tick, AtHorizon, clockvars
  <2>2. /\ sched \in Schedule /\ Valid(sched) /\ now \in Nat /\ target \in Nat
        /\ target <= now
    BY DEF TypeOK, RoundAfterSlot
  <2>3. target' \in Nat /\ target' > now
    BY <2>1, <2>2, WaitIsShort
  <2>4. ASSUME Daily(sched) PROVE \A u \in target + 1..target' - 1 : OnGrid(sched, u) => u <= now
    BY <2>1, <2>2, <2>4, SlotsPassed
  <2>5. target' > target
    BY <2>2, <2>3
  <2> QED BY <2>4, <2>5
<1> QED BY <1>1, <1>2, <1>3, TypeCorrect, PTL DEF Spec, EverySlotOnce
=============================================================================
