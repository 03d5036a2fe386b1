-------------------------- MODULE WheelTicksProofs --------------------------
(***************************************************************************)
(* Theorems about WheelTicks, for every period, width of the clock and of  *)
(* the counters, and speed of the wheels within the assumptions.           *)
(***************************************************************************)
EXTENDS WheelTicks, TLAPS

(* The clock.                                                              *)

LEMMA Euclid ==
  ASSUME NEW n \in Nat \ {0}, NEW x \in Int
  PROVE  (x % n) \in 0..(n - 1) /\ x = n * (x \div n) + (x % n) /\ x \div n \in Int
OBVIOUS

\* The remainder is what is left over, however it was found.
LEMMA Remainder ==
  ASSUME NEW n \in Nat \ {0}, NEW x \in Int, NEW q \in Int, NEW r \in 0..(n - 1), x = n * q + r
  PROVE  (x % n) = r
<1> DEFINE d == x \div n
           m == (x % n)
<1>1. m \in 0..(n - 1) /\ x = n * d + m /\ d \in Int
  BY Euclid
<1>2. n * (d - q) = r - m
  BY <1>1
<1>3. d - q = 0
  <2>1. CASE d - q >= 1
    <3>1. n * (d - q) >= n
      BY <1>1, <2>1
    <3> QED
      BY <1>1, <1>2, <3>1
  <2>2. CASE d - q <= -1
    <3>1. n * (d - q) <= -n
      BY <1>1, <2>2
    <3> QED
      BY <1>1, <1>2, <3>1
  <2> QED
    BY <1>1, <2>1, <2>2
<1> QED
  BY <1>1, <1>2, <1>3

LEMMA NextReading ==
  ASSUME NEW n \in Nat \ {0}, NEW x \in Nat
  PROVE  (x + 1) % n = IF (x % n) + 1 = n THEN 0 ELSE (x % n) + 1
<1>1. /\ x \in Int /\ x + 1 \in Int /\ (x % n) \in 0..(n - 1)
      /\ x = n * (x \div n) + (x % n) /\ x \div n \in Int
  BY Euclid
<1>2. CASE (x % n) + 1 = n
  <2>1. x + 1 = n * (x \div n + 1) + 0 /\ 0 \in 0..(n - 1) /\ x \div n + 1 \in Int
    BY <1>1, <1>2
  <2>2. (x + 1) % n = 0
    BY <1>1, <2>1, Remainder
  <2> QED
    BY <1>2, <2>2
<1>3. CASE (x % n) + 1 # n
  <2>1. x + 1 = n * (x \div n) + ((x % n) + 1) /\ (x % n) + 1 \in 0..(n - 1)
    BY <1>1, <1>3
  <2>2. (x + 1) % n = (x % n) + 1
    BY <1>1, <2>1, Remainder
  <2> QED
    BY <1>3, <2>2
<1> QED
  BY <1>2, <1>3

LEMMA Difference ==
  ASSUME NEW w \in Nat \ {0}, NEW x \in 0..(w - 1), NEW y \in 0..(w - 1)
  PROVE  (x - y) % w = IF x >= y THEN x - y ELSE x - y + w
OBVIOUS

\* What Due compares with Period.
Since == (ms - last_ticks_ms) % Wrap

ClockType == t \in Nat /\ last_ticks_ms \in 0..(Wrap - 1)

LEMMA Constants ==
  /\ Period \in Nat \ {0} /\ Wrap \in Nat \ {0} /\ CountLim \in Nat \ {0} /\ LoopGap \in Nat \ {0}
  /\ Rate \in Nat \ {0} /\ BootTime \in Nat
  /\ TotalLim \in Nat \ {0} /\ CountLim <= 2 * TotalLim
  /\ Period + LoopGap < Wrap /\ BootTime + LoopGap < Wrap /\ LoopGap <= Period
  BY TicksAssumption, CounterAssumption

LEMMA SinceValue ==
  ASSUME ClockType
  PROVE  /\ ms \in 0..(Wrap - 1) /\ Since \in 0..(Wrap - 1)
         /\ Since = IF ms >= last_ticks_ms THEN ms - last_ticks_ms ELSE ms - last_ticks_ms + Wrap
<1>1. ms \in 0..(Wrap - 1)
  BY Constants DEF ms, ClockType
<1>2. Since = IF ms >= last_ticks_ms THEN ms - last_ticks_ms ELSE ms - last_ticks_ms + Wrap
  BY <1>1, Constants, Difference DEF Since, ClockType
<1> QED
  BY <1>1, <1>2, Constants DEF ClockType

LEMMA SinceGrows ==
  ASSUME ClockType, t' = t + 1, UNCHANGED last_ticks_ms, Since + 1 < Wrap
  PROVE  ClockType' /\ Since' = Since + 1
<1>1. ClockType'
  BY DEF ClockType
<1>2. ms' = IF ms + 1 = Wrap THEN 0 ELSE ms + 1
  BY NextReading, Constants DEF ms, ClockType
<1>3. Since' = IF ms' >= last_ticks_ms' THEN ms' - last_ticks_ms' ELSE ms' - last_ticks_ms' + Wrap
  <2>1. ms' \in 0..(Wrap - 1)
    BY <1>2, SinceValue, Constants
  <2> QED
    BY <1>1, <2>1, Constants, Difference DEF Since, ClockType
<1> QED
  BY <1>1, <1>2, <1>3, SinceValue, Constants DEF ClockType

LEMMA SinceFalls ==
  ASSUME ClockType, UNCHANGED t, Since >= Period, last_ticks_ms' = (last_ticks_ms + Period) % Wrap
  PROVE  ClockType' /\ Since' = Since - Period
<1>1. last_ticks_ms' = IF last_ticks_ms + Period >= Wrap THEN last_ticks_ms + Period - Wrap
                                                        ELSE last_ticks_ms + Period
  BY Constants DEF ClockType
<1>2. ClockType'
  BY <1>1, Constants DEF ClockType
<1>3. ms' = ms
  BY DEF ms
<1>4. Since' = IF ms' >= last_ticks_ms' THEN ms' - last_ticks_ms' ELSE ms' - last_ticks_ms' + Wrap
  BY <1>2, <1>3, SinceValue, Constants, Difference DEF Since, ClockType
<1> QED
  BY <1>1, <1>2, <1>3, <1>4, SinceValue, Constants DEF ClockType

-----------------------------------------------------------------------------
(* The counters.  A wheel makes Rate steps a unit of time at most, and the   *)
(* time since its counter was emptied is Since, and a period more while it   *)
(* waits to be read.                                                         *)

LEMMA Rates ==
  ASSUME NEW d \in Nat, NEW e \in Nat
  PROVE  /\ Rate * d \in Nat
         /\ Rate * (d + 1) = Rate * d + Rate
         /\ d <= e => Rate * d <= Rate * e
  BY Constants

Waiting(w) == pc \in {"read", "clear"} /\ (wheel = "left" \/ w = "right")

Age(w) == IF Waiting(w) THEN Since + Period ELSE Since

\* The longest that Since may be when a round of loop begins.
Behind == IF BootTime > Period - 1 THEN BootTime ELSE Period - 1

Types ==
  /\ ClockType
  /\ pc \in {"boot", "spin", "read", "clear", "publish"}
  /\ wheel \in Wheel
  /\ v \in (-CountLim)..(CountLim - 1)
  /\ a \in [Wheel -> 0..1] /\ b \in [Wheel -> 0..1]
  /\ counter \in [Wheel -> Int]
  /\ total \in [Wheel -> (-TotalLim)..(TotalLim - 1)]
  /\ pos \in [Wheel -> Int] /\ carried \in [Wheel -> Int]
  /\ moved \in [Wheel -> 0..Rate]
  /\ between \in BOOLEAN
  /\ lap \in 0..LoopGap
  /\ reads \in Nat

OnTime ==
  /\ pc = "boot" => Since = t /\ t <= BootTime /\ lap = 0
  /\ pc = "spin" => Since <= Behind + lap
  /\ pc \in {"read", "clear", "publish"} => Since + Period <= Behind + lap

Slow == \A w \in Wheel : Size(counter[w]) <= Rate * Age(w) + moved[w]

CounterInv == Types /\ OnTime /\ Slow

LEMMA BehindValue == Behind \in Nat /\ Behind + LoopGap < Wrap
                     /\ Period <= Behind + 1 /\ BootTime <= Behind
                     /\ Rate * (Behind + LoopGap + 1) < CountLim - 1
<1>1. CASE Behind = BootTime
  BY <1>1, Constants, CounterAssumption DEF Behind
<1>2. CASE Behind = Period - 1 /\ Behind # BootTime
  <2>1. Behind + LoopGap + 1 = Period + LoopGap
    BY <1>2, Constants
  <2> QED
    BY <1>2, <2>1, Constants, CounterAssumption DEF Behind
<1> QED
  BY <1>1, <1>2 DEF Behind

LEMMA AgeBound ==
  ASSUME CounterInv, NEW w \in Wheel
  PROVE  Since \in Nat /\ Age(w) \in Nat /\ Age(w) <= Behind + LoopGap
<1>1. Since \in Nat
  BY SinceValue, Constants DEF CounterInv, Types
<1>2. /\ lap \in 0..LoopGap /\ pc \in {"boot", "spin", "read", "clear", "publish"}
      /\ Period \in Nat /\ LoopGap \in Nat /\ BootTime \in Nat /\ Behind \in Nat
      /\ BootTime <= Behind
  BY Constants, BehindValue DEF CounterInv, Types
<1>3. Since <= Behind + LoopGap
  BY <1>1, <1>2 DEF CounterInv, OnTime
<1>4. Waiting(w) => Since + Period <= Behind + LoopGap
  BY <1>1, <1>2 DEF CounterInv, OnTime, Waiting
<1> QED
  BY <1>1, <1>2, <1>3, <1>4 DEF Age

\* A counter keeps away from its limits, by a step and more.
LEMMA FarFromLimit ==
  ASSUME CounterInv, NEW w \in Wheel
  PROVE  /\ Size(counter[w]) < CountLim - 1
         /\ counter[w] \in (-CountLim)..(CountLim - 1)
         /\ moved[w] < Rate => Size(counter[w]) + 1 < CountLim - 1
<1>1. /\ counter[w] \in Int /\ moved[w] \in 0..Rate /\ Rate \in Nat \ {0} /\ CountLim \in Nat
      /\ Age(w) \in Nat /\ Behind + LoopGap \in Nat /\ Age(w) <= Behind + LoopGap
      /\ Rate * (Behind + LoopGap + 1) < CountLim - 1
  BY AgeBound, BehindValue, Constants DEF CounterInv, Types
<1>2. /\ Rate * Age(w) \in Nat /\ Rate * (Behind + LoopGap) \in Nat
      /\ Rate * Age(w) <= Rate * (Behind + LoopGap)
      /\ Rate * (Behind + LoopGap + 1) = Rate * (Behind + LoopGap) + Rate
  BY <1>1, Rates
<1>3. Size(counter[w]) <= Rate * Age(w) + moved[w] /\ Size(counter[w]) \in Nat
  BY <1>1 DEF CounterInv, Slow, Size
<1>4. /\ Size(counter[w]) < CountLim - 1
      /\ moved[w] < Rate => Size(counter[w]) + 1 < CountLim - 1
  BY <1>1, <1>2, <1>3
<1>5. counter[w] \in (-CountLim)..(CountLim - 1)
  BY <1>1, <1>4 DEF Size
<1> QED
  BY <1>4, <1>5

\* A quarter step of the sensors is counted as one, in the direction the wheel
\* turned in.
LEMMA QuarterStep ==
  ASSUME NEW w \in Wheel, NEW dir \in {-1, 1},
         NEW a1 \in 0..1, NEW b1 \in 0..1, a[w] = a1, b[w] = b1,
         NEW a2, NEW b2,
         a2 = IF (dir * Sign(w) = 1) = (a1 = b1) THEN 1 - a1 ELSE a1,
         b2 = IF (dir * Sign(w) = 1) = (a1 = b1) THEN b1 ELSE 1 - b1
  PROVE  a2 \in 0..1 /\ b2 \in 0..1 /\ Count(w, a2, b2) = dir * Sign(w)
<1>1. /\ dir = -1 \/ dir = 1
      /\ w = "left" \/ w = "right"
      /\ a1 = 0 \/ a1 = 1
      /\ b1 = 0 \/ b1 = 1
  BY DEF Wheel
<1>2. Sign(w) = (IF w = "left" THEN -1 ELSE 1) /\ dir * Sign(w) = (IF (dir = 1) = (w = "left") THEN -1 ELSE 1)
  BY <1>1 DEF Sign
<1>3. Count(w, a2, b2) = (IF b1 = 1 THEN -(a2 - a1) ELSE a2 - a1)
                           + (IF a1 = 1 THEN b2 - b1 ELSE -(b2 - b1))
  BY DEF Count, Edge
<1>4. CASE dir * Sign(w) = 1
  <2>1. CASE a1 = b1
    BY <1>1, <1>3, <1>4, <2>1
  <2>2. CASE a1 # b1
    BY <1>1, <1>3, <1>4, <2>2
  <2> QED
    BY <2>1, <2>2
<1>5. CASE dir * Sign(w) = -1
  <2>1. CASE a1 = b1
    BY <1>1, <1>3, <1>5, <2>1
  <2>2. CASE a1 # b1
    BY <1>1, <1>3, <1>5, <2>2
  <2> QED
    BY <2>1, <2>2
<1> QED
  BY <1>2, <1>4, <1>5

\* What a step of a wheel does, its counter being far from its limits.
LEMMA StepEffect ==
  ASSUME CounterInv, NEW w \in Wheel, NEW dir \in {-1, 1}, Step(w, dir)
  PROVE  /\ a' \in [Wheel -> 0..1] /\ b' \in [Wheel -> 0..1]
         /\ moved[w] < Rate /\ moved' = [moved EXCEPT ![w] = moved[w] + 1]
         /\ counter' = [counter EXCEPT ![w] = counter[w] + dir * Sign(w)]
         /\ pos' = [pos EXCEPT ![w] = pos[w] + dir]
         /\ dir * Sign(w) \in {-1, 1}
         /\ UNCHANGED <<t, thread>>
<1> DEFINE a2 == IF (dir * Sign(w) = 1) = (a[w] = b[w]) THEN 1 - a[w] ELSE a[w]
           b2 == IF (dir * Sign(w) = 1) = (a[w] = b[w]) THEN b[w] ELSE 1 - b[w]
<1>1. /\ moved[w] < Rate
      /\ counter' = [counter EXCEPT ![w] = Counted(counter[w] + Count(w, a2, b2))]
      /\ a' = [a EXCEPT ![w] = a2] /\ b' = [b EXCEPT ![w] = b2]
      /\ pos' = [pos EXCEPT ![w] = pos[w] + dir]
      /\ moved' = [moved EXCEPT ![w] = moved[w] + 1]
      /\ UNCHANGED <<t, thread>>
  BY DEF Step
<1>2. a[w] \in 0..1 /\ b[w] \in 0..1
  BY DEF CounterInv, Types
<1>3. a2 \in 0..1 /\ b2 \in 0..1 /\ Count(w, a2, b2) = dir * Sign(w)
  BY <1>2, QuarterStep
<1>4. dir * Sign(w) \in {-1, 1}
  BY DEF Sign
<1> HIDE DEF a2, b2
<1>5. Counted(counter[w] + dir * Sign(w)) = counter[w] + dir * Sign(w)
  <2>1. /\ counter[w] \in Int /\ Size(counter[w]) + 1 < CountLim - 1 /\ CountLim \in Nat
    BY <1>1, FarFromLimit, Constants DEF CounterInv, Types
  <2> QED
    BY <1>4, <2>1 DEF Counted, Size
<1>6. a' \in [Wheel -> 0..1] /\ b' \in [Wheel -> 0..1]
  BY <1>1, <1>3 DEF CounterInv, Types
<1> QED
  BY <1>1, <1>3, <1>4, <1>5, <1>6

\* A total that overflows is in its range again, since one counter is less than that.
LEMMA SumFits ==
  ASSUME CounterInv
  PROVE  /\ Sum \in Int /\ Carry(Sum) \in Int
         /\ Sum - Carry(Sum) \in (-TotalLim)..(TotalLim - 1)
<1>1. /\ wheel \in Wheel /\ v \in (-CountLim)..(CountLim - 1)
      /\ total[wheel] \in (-TotalLim)..(TotalLim - 1)
      /\ Sign(wheel) = 1 \/ Sign(wheel) = -1
  BY DEF CounterInv, Types, Sign
<1>2. Sum \in (-TotalLim - CountLim)..(TotalLim - 1 + CountLim)
  BY <1>1, Constants DEF Sum
<1> QED
  BY <1>2, Constants DEF Carry

LEMMA InitCounter == Init => CounterInv
<1> SUFFICES ASSUME Init PROVE CounterInv
  OBVIOUS
<1>1. ClockType
  BY Constants DEF Init, ClockType
<1>2. ms = 0 /\ Since = 0
  BY <1>1, SinceValue, Constants DEF Init, ms
<1>3. Types
  <2>1. /\ 0 \in (-CountLim)..(CountLim - 1) /\ 0 \in 0..Rate /\ 0 \in 0..LoopGap /\ 0 \in 0..1
        /\ 0 \in (-TotalLim)..(TotalLim - 1)
    BY Constants
  <2>2. /\ a \in [Wheel -> 0..1] /\ b \in [Wheel -> 0..1] /\ counter \in [Wheel -> Int]
        /\ total \in [Wheel -> (-TotalLim)..(TotalLim - 1)] /\ carried \in [Wheel -> Int]
        /\ pos \in [Wheel -> Int] /\ moved \in [Wheel -> 0..Rate]
    BY <2>1 DEF Init
  <2> QED
    BY <1>1, <2>1, <2>2 DEF Init, Types, Wheel
<1>4. OnTime
  BY <1>2, Constants DEF Init, OnTime
<1>5. Slow
  <2>1. ASSUME NEW w \in Wheel PROVE Size(counter[w]) = 0 /\ moved[w] = 0 /\ Age(w) = 0
    BY <1>2, <2>1 DEF Init, Size, Age, Waiting
  <2>2. Rate * 0 = 0
    BY Constants
  <2> QED
    BY <2>1, <2>2 DEF Slow
<1> QED
  BY <1>3, <1>4, <1>5 DEF CounterInv

LEMMA StepCounter ==
  ASSUME CounterInv, NEW w \in Wheel, NEW dir \in {-1, 1}, Step(w, dir)
  PROVE  CounterInv'
<1>1. /\ a' \in [Wheel -> 0..1] /\ b' \in [Wheel -> 0..1]
      /\ moved[w] < Rate /\ moved' = [moved EXCEPT ![w] = moved[w] + 1]
      /\ counter' = [counter EXCEPT ![w] = counter[w] + dir * Sign(w)]
      /\ pos' = [pos EXCEPT ![w] = pos[w] + dir]
      /\ dir * Sign(w) \in {-1, 1}
      /\ UNCHANGED <<t, last_ticks_ms, pc, wheel, v, total, carried, lap, reads>>
  BY StepEffect DEF thread
<1>2. between' \in BOOLEAN
  BY DEF Step
<1>3. Types'
  <2>1. moved[w] + 1 \in 0..Rate
    BY <1>1, Constants DEF CounterInv, Types
  <2>2. counter[w] + dir * Sign(w) \in Int /\ pos[w] + dir \in Int
    BY <1>1 DEF CounterInv, Types
  <2> QED
    BY <1>1, <1>2, <2>1, <2>2 DEF CounterInv, Types, ClockType
<1>4. Since' = Since /\ \A u \in Wheel : Age(u)' = Age(u)
  BY <1>1 DEF Since, ms, Age, Waiting
<1>5. OnTime'
  BY <1>1, <1>4 DEF CounterInv, OnTime
<1>6. Slow'
  <2> SUFFICES ASSUME NEW u \in Wheel PROVE Size(counter'[u]) <= Rate * Age(u) + moved'[u]
    BY <1>4 DEF Slow
  <2>1. Size(counter[u]) <= Rate * Age(u) + moved[u]
    BY DEF CounterInv, Slow
  <2>2. counter[u] \in Int /\ moved[u] \in Nat /\ Rate * Age(u) \in Nat
    BY AgeBound, Rates DEF CounterInv, Types
  <2>3. CASE u = w
    <3>1. counter'[u] = counter[u] + dir * Sign(w) /\ moved'[u] = moved[u] + 1
      BY <1>1, <2>3 DEF CounterInv, Types
    <3>2. /\ Size(counter[u] + dir * Sign(w)) <= Size(counter[u]) + 1
          /\ Size(counter[u]) \in Nat /\ Size(counter[u] + dir * Sign(w)) \in Nat
      BY <1>1, <2>2 DEF Size
    <3> QED
      BY <2>1, <2>2, <3>1, <3>2
  <2>4. CASE u # w
    BY <1>1, <2>1, <2>4 DEF CounterInv, Types
  <2> QED
    BY <2>3, <2>4
<1> QED
  BY <1>3, <1>5, <1>6 DEF CounterInv

\* A step of loop or of the clock that leaves the counters alone: no counter gets
\* younger, but one that waits to be read.
LEMMA SlowStays ==
  ASSUME CounterInv, UNCHANGED <<counter, moved>>, \A w \in Wheel : Age(w)' = Age(w)
  PROVE  Slow'
  BY DEF CounterInv, Slow

LEMMA AdvanceCounter ==
  ASSUME CounterInv, Advance
  PROVE  CounterInv'
<1>0. /\ Since \in Nat /\ BootTime \in Nat /\ LoopGap \in Nat /\ Behind \in Nat /\ Wrap \in Nat
      /\ BootTime <= Behind /\ Behind + LoopGap < Wrap /\ Rate \in Nat /\ t \in Nat
      /\ lap \in 0..LoopGap
  BY SinceValue, Constants, BehindValue DEF CounterInv, Types, ClockType
<1>1. /\ t' = t + 1
      /\ UNCHANGED <<last_ticks_ms, pc, wheel, v, a, b, counter, total, pos, carried, between, reads>>
      /\ moved' = [w \in Wheel |-> 0]
      /\ pc = "boot" \/ pc = "spin"
      /\ pc = "boot" => t < BootTime /\ lap' = 0
      /\ pc = "spin" => lap < LoopGap /\ lap' = lap + 1
  BY DEF Advance, MayWait
<1>2. Since + 1 < Wrap /\ (pc = "boot" => Since = t) /\ (pc = "spin" => Since <= Behind + lap)
  BY <1>0, <1>1 DEF CounterInv, OnTime
<1>3. ClockType' /\ Since' = Since + 1
  BY <1>1, <1>2, SinceGrows DEF CounterInv, Types
<1>4. Types'
  <2>1. lap' \in 0..LoopGap
    BY <1>0, <1>1
  <2>2. moved' \in [Wheel -> 0..Rate]
    BY <1>0, <1>1
  <2> QED
    BY <1>1, <1>3, <2>1, <2>2 DEF CounterInv, Types
<1>5. OnTime'
  BY <1>0, <1>1, <1>2, <1>3 DEF OnTime
<1>6. Slow'
  <2> SUFFICES ASSUME NEW w \in Wheel PROVE Size(counter[w]) <= Rate * Age(w)' + moved'[w]
    BY <1>1 DEF Slow
  <2>1. Age(w) = Since /\ Age(w)' = Since + 1
    BY <1>1, <1>3 DEF Age, Waiting
  <2>2. Size(counter[w]) <= Rate * Since + moved[w] /\ moved[w] \in 0..Rate /\ moved'[w] = 0
    BY <1>1, <2>1 DEF CounterInv, Slow, Types
  <2>3. Rate * (Since + 1) = Rate * Since + Rate /\ Rate * Since \in Nat
    BY <1>0, Rates
  <2>4. Size(counter[w]) \in Int
    BY DEF CounterInv, Types, Size
  <2> QED
    BY <1>0, <2>1, <2>2, <2>3, <2>4
<1> QED
  BY <1>4, <1>5, <1>6 DEF CounterInv

LEMMA LoopCounter ==
  ASSUME CounterInv, Loop \/ Boot
  PROVE  CounterInv'
<1>0. /\ Since \in Nat /\ Period \in Nat \ {0} /\ LoopGap \in Nat /\ Behind \in Nat
      /\ LoopGap <= Period /\ Period <= Behind + 1 /\ BootTime \in Nat /\ BootTime <= Behind
      /\ 0 \in 0..LoopGap /\ lap \in 0..LoopGap
  BY SinceValue, Constants, BehindValue DEF CounterInv, Types
<1>1. CASE Boot \/ SpinQuiet \/ Publish
  <2>1. UNCHANGED <<t, last_ticks_ms, wheel, v, a, b, counter, total, pos, carried, moved,
                    between, reads>>
        /\ pc' = "spin" /\ lap' = 0 /\ pc \in {"boot", "spin", "publish"}
    BY <1>1 DEF Boot, SpinQuiet, Publish, hardware
  <2>2. ClockType' /\ Since' = Since
    BY <2>1 DEF CounterInv, Types, ClockType, Since, ms
  <2>3. \A w \in Wheel : Age(w)' = Age(w)
    BY <2>1, <2>2 DEF Age, Waiting
  <2>4. Since <= Behind
    <3>1. CASE Boot
      BY <1>0, <3>1 DEF Boot, CounterInv, OnTime
    <3>2. CASE SpinQuiet
      BY <1>0, <3>2 DEF SpinQuiet, Due, Since
    <3>3. CASE Publish
      BY <1>0, <3>3 DEF Publish, CounterInv, OnTime
    <3> QED
      BY <1>1, <3>1, <3>2, <3>3
  <2>5. Types' /\ OnTime'
    BY <1>0, <2>1, <2>2, <2>4 DEF CounterInv, Types, OnTime
  <2> QED
    BY <2>1, <2>3, <2>5, SlowStays DEF CounterInv
<1>2. CASE SpinDue
  <2>1. /\ UNCHANGED <<t, v, a, b, counter, total, pos, carried, moved, between, lap, reads>>
        /\ pc = "spin" /\ pc' = "read" /\ wheel' = "left" /\ Since >= Period
        /\ last_ticks_ms' = (last_ticks_ms + Period) % Wrap
    BY <1>2 DEF SpinDue, hardware, Due, Since
  <2>2. ClockType' /\ Since' = Since - Period
    BY <2>1, SinceFalls DEF CounterInv, Types
  <2>3. \A w \in Wheel : Age(w)' = Age(w)
    BY <1>0, <2>1, <2>2 DEF Age, Waiting
  <2>4. Types' /\ OnTime'
    BY <1>0, <2>1, <2>2 DEF CounterInv, Types, OnTime, Wheel
  <2> QED
    BY <2>1, <2>3, <2>4, SlowStays DEF CounterInv
<1>3. CASE Read
  <2>1. /\ UNCHANGED <<t, last_ticks_ms, wheel, a, b, counter, total, lap, pos, carried, moved, reads>>
        /\ pc = "read" /\ pc' = "clear" /\ v' = counter[wheel] /\ between' = FALSE
    BY <1>3 DEF Read
  <2>2. ClockType' /\ Since' = Since
    BY <2>1 DEF CounterInv, Types, ClockType, Since, ms
  <2>3. \A w \in Wheel : Age(w)' = Age(w)
    BY <2>1, <2>2 DEF Age, Waiting
  <2>4. v' \in (-CountLim)..(CountLim - 1)
    BY <2>1, FarFromLimit DEF CounterInv, Types
  <2>5. Types' /\ OnTime'
    BY <1>0, <2>1, <2>2, <2>4 DEF CounterInv, Types, OnTime
  <2> QED
    BY <2>1, <2>3, <2>5, SlowStays DEF CounterInv
<1>4. CASE Clear
  <2>1. /\ UNCHANGED <<t, last_ticks_ms, v, a, b, lap, pos, moved, between>>
        /\ pc = "clear" /\ pc' = IF wheel = "left" THEN "read" ELSE "publish"
        /\ wheel' = IF wheel = "left" THEN "right" ELSE wheel
        /\ counter' = [counter EXCEPT ![wheel] = 0]
        /\ total' = [total EXCEPT ![wheel] = Sum - Carry(Sum)]
        /\ carried' = [carried EXCEPT ![wheel] = carried[wheel] + Carry(Sum)]
        /\ reads' = IF wheel = "left" THEN reads + 1 ELSE reads
    BY <1>4 DEF Clear
  <2>2. ClockType' /\ Since' = Since
    BY <2>1 DEF CounterInv, Types, ClockType, Since, ms
  <2>3. Sum - Carry(Sum) \in (-TotalLim)..(TotalLim - 1) /\ Carry(Sum) \in Int
    BY SumFits
  <2>4. Types'
    BY <2>1, <2>2, <2>3 DEF CounterInv, Types, Wheel
  <2>5. OnTime'
    BY <1>0, <2>1, <2>2 DEF CounterInv, OnTime
  <2>6. Slow'
    <3> SUFFICES ASSUME NEW w \in Wheel PROVE Size(counter'[w]) <= Rate * Age(w)' + moved[w]
      BY <2>1 DEF Slow
    <3>1. moved[w] \in Nat /\ Age(w)' \in Nat /\ Rate * Age(w)' \in Nat
      BY <1>0, <2>2, Rates DEF CounterInv, Types, Age
    <3>2. CASE w = wheel
      BY <2>1, <3>1, <3>2 DEF CounterInv, Types, Size
    <3>3. CASE w # wheel
      <4>1. counter'[w] = counter[w]
        BY <2>1, <3>3 DEF CounterInv, Types
      <4>2. Age(w)' = Age(w)
        BY <2>1, <2>2, <3>3 DEF Age, Waiting, CounterInv, Types, Wheel
      <4> QED
        BY <4>1, <4>2 DEF CounterInv, Slow
    <3> QED
      BY <3>2, <3>3
  <2> QED
    BY <2>4, <2>5, <2>6 DEF CounterInv
<1> QED
  BY <1>1, <1>2, <1>3, <1>4 DEF Loop

LEMMA NextCounter == CounterInv /\ [Next]_vars => CounterInv'
<1>1. CounterInv /\ UNCHANGED vars => CounterInv'
  BY DEF vars, CounterInv, Types, ClockType, OnTime, Slow, Since, ms, Age, Waiting
<1> QED
  BY <1>1, StepCounter, AdvanceCounter, LoopCounter DEF Next

LEMMA CounterInvariance == Spec => []CounterInv
  BY InitCounter, NextCounter, PTL DEF Spec

\* Types; and no counter comes within a step of its limits, whatever the wheels do.
THEOREM TypeCorrect == Spec => []TypeOK
<1>1. CounterInv => TypeOK
  <2> SUFFICES ASSUME CounterInv PROVE TypeOK
    OBVIOUS
  <2>1. counter \in [Wheel -> (-CountLim)..(CountLim - 1)]
    BY FarFromLimit DEF CounterInv, Types
  <2> QED
    BY <2>1, FarFromLimit DEF CounterInv, Types, ClockType, TypeOK
<1> QED
  BY <1>1, CounterInvariance, PTL

-----------------------------------------------------------------------------
(* The drift.  A step between reading and clearing is the only one lost, and *)
(* the counter tells of it until it is cleared.                              *)

\* The right wheel has still its step to lose in this round.
Missed == IF pc \in {"read", "clear"} /\ wheel = "right" THEN 1 ELSE 0

DriftInv ==
  /\ Size(Off("left")) <= reads
  /\ Size(Off("right")) + Missed <= reads
  /\ pc = "clear" => Size(counter[wheel] - v) <= IF between THEN 1 ELSE 0

LEMMA OffType == ASSUME CounterInv, NEW w \in Wheel PROVE Off(w) \in Int /\ Size(Off(w)) \in Nat
  BY DEF CounterInv, Types, Off, Sign, Size

LEMMA InitDrift == Init => DriftInv
  BY DEF Init, DriftInv, Off, Sign, Size, Missed, Wheel

LEMMA StepDrift ==
  ASSUME CounterInv, DriftInv, NEW w \in Wheel, NEW dir \in {-1, 1}, Step(w, dir)
  PROVE  DriftInv'
<1>1. /\ counter' = [counter EXCEPT ![w] = counter[w] + dir * Sign(w)]
      /\ pos' = [pos EXCEPT ![w] = pos[w] + dir]
      /\ UNCHANGED <<t, pc, wheel, v, total, carried, lap, reads>>
  BY StepEffect DEF thread
<1>2. \A u \in Wheel : Off(u)' = Off(u)
  <2> SUFFICES ASSUME NEW u \in Wheel
               PROVE  pos'[u] - (total[u] + carried[u] + Sign(u) * counter'[u])
                        = pos[u] - (total[u] + carried[u] + Sign(u) * counter[u])
    BY <1>1 DEF Off
  <2>1. CASE u = w
    <3>1. /\ counter[w] \in Int /\ pos[w] \in Int /\ total[w] \in Int /\ carried[w] \in Int
          /\ counter'[w] = counter[w] + dir * Sign(w) /\ pos'[w] = pos[w] + dir
      BY <1>1, Constants DEF CounterInv, Types
    <3>2. Sign(w) = 1 \/ Sign(w) = -1
      BY DEF Sign
    <3> QED
      BY <2>1, <3>1, <3>2
  <2>2. CASE u # w
    BY <1>1, <2>2 DEF CounterInv, Types
  <2> QED
    BY <2>1, <2>2
<1>3. pc' = "clear" => Size(counter'[wheel] - v) <= IF between' THEN 1 ELSE 0
  <2> SUFFICES ASSUME pc = "clear" PROVE Size(counter'[wheel] - v) <= IF between' THEN 1 ELSE 0
    BY <1>1
  <2>1. counter[wheel] \in Int /\ v \in Int /\ wheel \in Wheel
    BY Constants DEF CounterInv, Types
  <2>2. CASE w = wheel
    <3>1. ~between /\ between' = TRUE
      BY <2>2 DEF Step
    <3>2. counter[wheel] = v
      BY <2>1, <3>1 DEF DriftInv, Size
    <3>3. counter'[wheel] = counter[wheel] + dir * Sign(w) /\ dir * Sign(w) \in {-1, 1}
      BY <1>1, <2>2, StepEffect DEF CounterInv, Types
    <3> QED
      BY <2>1, <3>1, <3>2, <3>3 DEF Size
  <2>3. CASE w # wheel
    BY <1>1, <2>1, <2>3 DEF Step, CounterInv, Types, DriftInv
  <2> QED
    BY <2>2, <2>3
<1> QED
  BY <1>1, <1>2, <1>3 DEF DriftInv, Missed, Wheel

\* Nothing moves and nothing is added up: only the place in loop may change.
LEMMA DriftStays ==
  ASSUME DriftInv, UNCHANGED <<pos, total, carried, counter, reads>>, Missed' = Missed, pc' # "clear"
  PROVE  DriftInv'
  BY DEF DriftInv, Off

LEMMA ClearDrift ==
  ASSUME CounterInv, DriftInv, Clear
  PROVE  DriftInv'
<1> DEFINE lost(w) == pos[w] - (total[w] + carried[w] + Sign(w) * v)
<1>1. /\ UNCHANGED <<v, pos>>
      /\ pc = "clear" /\ pc' = IF wheel = "left" THEN "read" ELSE "publish"
      /\ wheel' = IF wheel = "left" THEN "right" ELSE wheel
      /\ counter' = [counter EXCEPT ![wheel] = 0]
      /\ total' = [total EXCEPT ![wheel] = Sum - Carry(Sum)]
      /\ carried' = [carried EXCEPT ![wheel] = carried[wheel] + Carry(Sum)]
      /\ reads' = IF wheel = "left" THEN reads + 1 ELSE reads
  BY DEF Clear
<1>2. /\ wheel \in Wheel /\ v \in Int /\ reads \in Nat /\ between \in BOOLEAN
      /\ counter \in [Wheel -> Int] /\ pos \in [Wheel -> Int]
      /\ \A w \in Wheel : total[w] \in Int /\ carried[w] \in Int
      /\ DOMAIN total = Wheel /\ DOMAIN carried = Wheel
      /\ total = [w \in Wheel |-> total[w]] /\ carried = [w \in Wheel |-> carried[w]]
  BY Constants DEF CounterInv, Types
\* What the wheel is off by now, is off by when v has been added, and a step.
<1>3. /\ Size(lost(wheel)) <= Size(Off(wheel)) + 1
      /\ Size(lost(wheel)) \in Nat /\ Size(Off(wheel)) \in Nat
  <2>1. /\ counter[wheel] \in Int /\ pos[wheel] \in Int /\ total[wheel] \in Int
        /\ carried[wheel] \in Int
        /\ Sign(wheel) = 1 \/ Sign(wheel) = -1
    BY <1>2 DEF Sign
  <2>2. Size(counter[wheel] - v) <= 1
    BY <1>1, <1>2, <2>1 DEF DriftInv, Size
  <2> QED
    BY <1>2, <2>1, <2>2 DEF Off, Size
\* What the total loses in 32 bits is carried.
<1>4. /\ pos'[wheel] - (total'[wheel] + carried'[wheel] + Sign(wheel) * counter'[wheel])
           = lost(wheel)
      /\ \A w \in Wheel \ {wheel} :
           pos'[w] - (total'[w] + carried'[w] + Sign(w) * counter'[w]) = Off(w)
  <2>1. /\ total'[wheel] = Sum - Carry(Sum) /\ carried'[wheel] = carried[wheel] + Carry(Sum)
        /\ counter'[wheel] = 0
        /\ \A w \in Wheel \ {wheel} :
             total'[w] = total[w] /\ carried'[w] = carried[w] /\ counter'[w] = counter[w]
    BY <1>1, <1>2
  <2>2. /\ pos[wheel] \in Int /\ total[wheel] \in Int /\ carried[wheel] \in Int
        /\ Sum \in Int /\ Carry(Sum) \in Int
        /\ Sign(wheel) = 1 \/ Sign(wheel) = -1
    BY <1>2, SumFits DEF Sign
  <2>3. /\ total'[wheel] + carried'[wheel] + Sign(wheel) * counter'[wheel]
             = Sum + carried[wheel]
        /\ Sum + carried[wheel] = total[wheel] + carried[wheel] + Sign(wheel) * v
    <3>1. Sum + carried[wheel] = total[wheel] + carried[wheel] + Sign(wheel) * v
      BY <1>2, <2>2 DEF Sum
    <3> QED
      BY <2>1, <2>2, <3>1
  <2> QED
    BY <1>1, <2>1, <2>3 DEF Off
<1> HIDE DEF lost
<1>5. CASE wheel = "left"
  <2>1. Off("left")' = lost("left") /\ Off("right")' = Off("right")
    BY <1>4, <1>5 DEF Off, Wheel
  <2>2. Size(Off("left")) <= reads /\ Size(Off("right")) <= reads /\ Size(Off("right")) \in Nat
    BY <1>2, <1>5, OffType DEF DriftInv, Missed, Wheel
  <2>3. Size(Off("left")') <= reads + 1 /\ Size(Off("right")') + 1 <= reads + 1
    BY <1>2, <1>3, <1>5, <2>1, <2>2
  <2>4. pc' = "read" /\ wheel' = "right" /\ reads' = reads + 1
    BY <1>1, <1>5
  <2> QED
    BY <2>3, <2>4 DEF DriftInv, Missed
<1>6. CASE wheel = "right"
  <2>1. Off("right")' = lost("right") /\ Off("left")' = Off("left")
    BY <1>4, <1>6 DEF Off, Wheel
  <2> QED
    BY <1>1, <1>2, <1>3, <1>6, <2>1 DEF DriftInv, Missed
<1> QED
  BY <1>2, <1>5, <1>6 DEF Wheel

LEMMA NextDrift == CounterInv /\ DriftInv /\ [Next]_vars => DriftInv'
<1> SUFFICES ASSUME CounterInv, DriftInv, [Next]_vars PROVE DriftInv'
  OBVIOUS
<1>1. ASSUME NEW w \in Wheel, NEW dir \in {-1, 1}, Step(w, dir) PROVE DriftInv'
  BY <1>1, StepDrift
<1>2. CASE Boot \/ SpinQuiet \/ SpinDue \/ Publish
  BY <1>2, DriftStays DEF Boot, SpinQuiet, SpinDue, Publish, hardware, Missed
<1>3. CASE Advance
  BY <1>3, DriftStays DEF Advance, MayWait, Missed
<1>4. CASE Read
  <2>1. /\ UNCHANGED <<pos, total, carried, counter, reads, wheel>> /\ pc = "read" /\ pc' = "clear"
        /\ v' = counter[wheel] /\ counter[wheel] \in Int
    BY <1>4 DEF Read, CounterInv, Types
  <2>2. Size(counter[wheel] - v') = 0
    BY <2>1 DEF Size
  <2> QED
    BY <1>4, <2>1, <2>2 DEF Read, DriftInv, Off, Missed
<1>5. CASE Clear
  BY <1>5, ClearDrift
<1>6. CASE UNCHANGED vars
  BY <1>6 DEF vars, DriftInv, Off, Missed
<1> QED
  BY <1>1, <1>2, <1>3, <1>4, <1>5, <1>6 DEF Next, Loop

\* Where a wheel is follows from its total, with what overflows took from it, and its
\* counter, up to one step for each time the counter was emptied.
THEOREM DriftBounded == Spec => []DriftIsBounded
<1>1. Spec => []DriftInv
  BY InitDrift, NextDrift, CounterInvariance, PTL DEF Spec
<1>2. CounterInv /\ DriftInv => DriftIsBounded
  BY OffType DEF DriftInv, DriftIsBounded, Wheel, Missed, CounterInv, Types
<1> QED
  BY <1>1, <1>2, CounterInvariance, PTL
=============================================================================
