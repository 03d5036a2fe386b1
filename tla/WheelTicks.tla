----------------------------- MODULE WheelTicks -----------------------------
(***************************************************************************)
(* The encoders of firmware/motor_uros/src/main.cpp: the pulse counter     *)
(* (PCNT) of the ESP32 counts the edges of the two Hall sensors of a       *)
(* wheel, and loop empties it into a 32-bit total that it publishes on     *)
(* /wheel_ticks.  The counter goes on while it is read: a step of the      *)
(* wheel may come between the reading and the clearing.                    *)
(***************************************************************************)
EXTENDS Integers

CONSTANTS
  Period,    \* TICKS_PERIOD_MS, in the unit of time
  Wrap,      \* millis() counts modulo this
  CountLim,  \* counter_h_lim, 32767; the lower one is one further away
  TotalLim,  \* totals are below this, an int32_t: 2^31; the lower limit is it, negated
  LoopGap,   \* the longest time one round of loop takes
  Rate,      \* quarter steps a wheel makes in a unit of time, at most
  BootTime,  \* the longest time setup takes
  MaxTime    \* bound of the model: the clock stops here

ASSUME TicksAssumption == /\ Period \in Nat \ {0}
                          /\ Wrap \in Nat
                          /\ Period + LoopGap < Wrap
                          /\ CountLim \in Nat \ {0}
                          /\ TotalLim \in Nat \ {0}
                          /\ CountLim <= 2 * TotalLim
                          /\ LoopGap \in Nat \ {0}
                          /\ Rate \in Nat \ {0}
                          /\ BootTime \in Nat
                          /\ MaxTime \in Nat

\* No counter gets near its limit between two readings (4300 counts a second at
\* most, main.cpp:135): in setup and the round after it, or in a period and a round;
\* and loop keeps up with its period.
ASSUME CounterAssumption == /\ Rate * (BootTime + LoopGap + 1) < CountLim - 1
                            /\ Rate * (Period + LoopGap) < CountLim - 1
                            /\ BootTime + LoopGap < Wrap
                            /\ LoopGap <= Period

VARIABLES
  t,              \* time since power-on, of which millis() is t % Wrap
  last_ticks_ms,
  pc,             \* "boot"; "spin": the rest of loop; "read", "clear" a wheel; "publish"
  wheel,          \* the wheel being read
  v,              \* what was read
  a, b,           \* the two sensors of each wheel
  counter,        \* the pulse counter of each wheel
  total,
  lap,            \* time since this round of loop began
  pos,            \* history: quarter steps each wheel has made, forward positive
  carried,        \* history: what each total has lost by overflowing
  moved,          \* steps each wheel has made in this unit of time
  between,        \* did a wheel step between its reading and its clearing?
  reads           \* history: how often the counters were emptied

vars == <<t, last_ticks_ms, pc, wheel, v, a, b, counter, total, lap, pos, carried, moved,
          between, reads>>
hardware == <<a, b, counter, pos, moved, between>>
thread == <<last_ticks_ms, pc, wheel, v, total, carried, lap, reads>>

Wheel == {"left", "right"}

\* The left encoder is mounted the other way round.
Sign(w) == IF w = "left" THEN -1 ELSE 1

ms == t % Wrap

-----------------------------------------------------------------------------
Init ==
  /\ t = 0
  /\ last_ticks_ms = 0
  /\ pc = "boot" /\ wheel = "left" /\ v = 0
  /\ a = [w \in Wheel |-> 0] /\ b = [w \in Wheel |-> 0]
  /\ counter = [w \in Wheel |-> 0]
  /\ total = [w \in Wheel |-> 0]
  /\ lap = 0
  /\ pos = [w \in Wheel |-> 0]
  /\ carried = [w \in Wheel |-> 0]
  /\ moved = [w \in Wheel |-> 0]
  /\ between = FALSE
  /\ reads = 0

-----------------------------------------------------------------------------
(* setupEnc: two channels, each counting the edges of one sensor up or     *)
(* down, the other way round while the other sensor is low.                *)

Edge(old, new) == new - old

\* Bug: one channel counts its edges like the other.
CountAlike(w, a2, b2) ==
  (IF b[w] = 1 THEN -Edge(a[w], a2) ELSE Edge(a[w], a2))
    + (IF a[w] = 1 THEN -Edge(b[w], b2) ELSE Edge(b[w], b2))

\* Channel 0: rising edges of A down, falling ones up; channel 1: rising edges
\* of B up, falling ones down.
Count(w, a2, b2) ==
  (IF b[w] = 1 THEN -Edge(a[w], a2) ELSE Edge(a[w], a2))
    + (IF a[w] = 1 THEN Edge(b[w], b2) ELSE -Edge(b[w], b2))

\* The counter starts again from 0 at either limit.
Counted(n) == IF n >= CountLim \/ n <= -CountLim - 1 THEN 0 ELSE n

\* External: a wheel makes a quarter step of its sensors, dir being forward or
\* back; A runs ahead of B in one direction and behind in the other.
Step(w, dir) ==
  LET ahead == dir * Sign(w) = 1
      a2 == IF ahead = (a[w] = b[w]) THEN 1 - a[w] ELSE a[w]
      b2 == IF ahead = (a[w] = b[w]) THEN b[w] ELSE 1 - b[w]
  IN  /\ moved[w] < Rate
      /\ pc = "clear" /\ w = wheel => ~between
      /\ counter' = [counter EXCEPT ![w] = Counted(@ + Count(w, a2, b2))]
      /\ a' = [a EXCEPT ![w] = a2]
      /\ b' = [b EXCEPT ![w] = b2]
      /\ pos' = [pos EXCEPT ![w] = @ + dir]
      /\ moved' = [moved EXCEPT ![w] = @ + 1]
      /\ between' = (between \/ (pc = "clear" /\ w = wheel))
      /\ UNCHANGED <<t, thread>>

-----------------------------------------------------------------------------
(* setup and loop.                                                         *)

Boot ==
  /\ pc = "boot"
  /\ pc' = "spin"
  /\ lap' = 0
  /\ UNCHANGED <<t, hardware, last_ticks_ms, wheel, v, total, carried, reads>>

\* Bug: the counters are emptied every other period.
DueLate == (ms - last_ticks_ms) % Wrap >= 2 * Period

Due == (ms - last_ticks_ms) % Wrap >= Period

SpinQuiet ==
  /\ pc = "spin" /\ ~Due
  /\ lap' = 0
  /\ UNCHANGED <<t, hardware, last_ticks_ms, pc, wheel, v, total, carried, reads>>

SpinDue ==
  /\ pc = "spin" /\ Due
  /\ last_ticks_ms' = (last_ticks_ms + Period) % Wrap
  /\ pc' = "read" /\ wheel' = "left"
  /\ UNCHANGED <<t, hardware, v, total, carried, lap, reads>>

\* readEnc: pcnt_get_counter_value ...
Read ==
  /\ pc = "read"
  /\ v' = counter[wheel]
  /\ pc' = "clear"
  /\ between' = FALSE
  /\ UNCHANGED <<t, last_ticks_ms, wheel, a, b, counter, total, lap, pos, carried, moved, reads>>

\* What a sum loses in 32 bits: it overflows to the other end (signed: what the
\* compiler may make of it is this on the board).
Carry(n) ==
  CASE n >= TotalLim -> 2 * TotalLim
    [] n < -TotalLim -> -(2 * TotalLim)
    [] OTHER         -> 0

Sum == total[wheel] + Sign(wheel) * v

\* ... and pcnt_counter_clear, whatever has been counted since.
Clear ==
  /\ pc = "clear"
  /\ counter' = [counter EXCEPT ![wheel] = 0]
  /\ total' = [total EXCEPT ![wheel] = Sum - Carry(Sum)]
  /\ carried' = [carried EXCEPT ![wheel] = @ + Carry(Sum)]
  /\ pc' = IF wheel = "left" THEN "read" ELSE "publish"
  /\ wheel' = IF wheel = "left" THEN "right" ELSE wheel
  /\ reads' = IF wheel = "left" THEN reads + 1 ELSE reads
  /\ UNCHANGED <<t, last_ticks_ms, v, a, b, lap, pos, moved, between>>

Publish ==
  /\ pc = "publish"
  /\ pc' = "spin" /\ lap' = 0
  /\ UNCHANGED <<t, hardware, last_ticks_ms, wheel, v, total, carried, reads>>

\* setup takes its time, a round of loop at most LoopGap; readEnc takes none.
MayWait ==
  \/ pc = "boot" /\ t < BootTime
  \/ pc = "spin" /\ lap < LoopGap

Advance ==
  /\ t < MaxTime
  /\ MayWait
  /\ t' = t + 1
  /\ lap' = IF pc = "boot" THEN 0 ELSE lap + 1
  /\ moved' = [w \in Wheel |-> 0]
  /\ UNCHANGED <<last_ticks_ms, pc, wheel, v, a, b, counter, total, pos, carried, between, reads>>

Loop == SpinQuiet \/ SpinDue \/ Read \/ Clear \/ Publish

Next ==
  \/ \E w \in Wheel, dir \in {-1, 1} : Step(w, dir)
  \/ Boot
  \/ Loop
  \/ Advance

Spec == Init /\ [][Next]_vars

-----------------------------------------------------------------------------
(* Properties.                                                             *)

Size(n) == IF n < 0 THEN -n ELSE n

\* Types, and each counter is emptied before it is a step away from its limits,
\* in setup and in loop (main.cpp:134-135).
TypeOK ==
  /\ t \in Nat
  /\ last_ticks_ms \in 0..(Wrap - 1)
  /\ pc \in {"boot", "spin", "read", "clear", "publish"}
  /\ wheel \in Wheel
  /\ v \in (-CountLim)..(CountLim - 1)
  /\ a \in [Wheel -> 0..1] /\ b \in [Wheel -> 0..1]
  /\ counter \in [Wheel -> (-CountLim)..(CountLim - 1)]
  /\ \A w \in Wheel : Size(counter[w]) < CountLim - 1
  /\ total \in [Wheel -> (-TotalLim)..(TotalLim - 1)]
  /\ pos \in [Wheel -> Int] /\ carried \in [Wheel -> Int]
  /\ moved \in [Wheel -> 0..Rate]
  /\ between \in BOOLEAN
  /\ lap \in 0..LoopGap
  /\ reads \in Nat

\* Where a wheel is follows from its total, with what overflows took from it, and
\* its counter, up to one step for each time the counter was emptied: nothing else
\* is lost, counted twice or counted the wrong way (main.cpp:114-141).
Off(w) == pos[w] - (total[w] + carried[w] + Sign(w) * counter[w])
DriftIsBounded == \A w \in Wheel : Size(Off(w)) <= reads

=============================================================================
