------------------------------ MODULE DeadMan -------------------------------
(***************************************************************************)
(* What the motor board promises whoever drives it: a wheel turns only as  *)
(* the last command heard says; it does so from Lag units of time after    *)
(* the command was heard for as long as Hold, and no longer than Limit.    *)
(* MotorNode is shown to implement this, and DriveChain relies on it.      *)
(***************************************************************************)
EXTENDS Integers

CONSTANTS
  Duty,   \* what a wheel may be told: positive is forward, 0 is no drive
  Lag,    \* a command takes effect within this time
  Hold,   \* and stays in effect for this time,
  Limit   \* but no wheel turns for longer than this after it was heard

VARIABLES
  order,        \* the last command heard: a duty for each wheel
  left, right,  \* the duty each wheel turns at
  silence       \* time since the command was heard, up to Limit + 1

vars == <<order, left, right, silence>>

Orders == [left : Duty, right : Duty]
Idle == [left |-> 0, right |-> 0]
Still == left = 0 /\ right = 0

Init ==
  /\ order = Idle
  /\ left = 0 /\ right = 0
  /\ silence = 0

Obeys == left = order.left /\ right = order.right

\* The last command has been carried out, or it is old and may be given up.
Settled == Obeys \/ silence > Hold

\* Commands are heard one after the other.
Hear(o) ==
  /\ Settled
  /\ order' = o
  /\ silence' = 0
  /\ UNCHANGED <<left, right>>

\* A wheel takes up an order that is new to it, perhaps after a rest; once the
\* order is old it may give it up.
May(wheel, told) ==
  {wheel} \cup {d \in {0, told} : silence <= Lag /\ wheel # told}
          \cup {d \in {0} : silence > Hold}
Turn ==
  /\ left' \in May(left, order.left)
  /\ right' \in May(right, order.right)
  /\ UNCHANGED <<order, silence>>

\* Bug: nothing stops a wheel that hears no more.
PassUnwatched ==
  /\ silence \in Lag..Hold => Obeys
  /\ silence' = IF silence > Limit THEN silence ELSE silence + 1
  /\ UNCHANGED <<order, left, right>>

\* Time passes; with a wheel turning, only until the limit.
Pass ==
  /\ Still \/ silence < Limit
  /\ silence \in Lag..Hold => Obeys
  /\ silence' = IF silence > Limit THEN silence ELSE silence + 1
  /\ UNCHANGED <<order, left, right>>

\* The board is reset.
Fail ==
  /\ order' = Idle
  /\ left' = 0 /\ right' = 0
  /\ silence' = 0

Next ==
  \/ \E o \in Orders : Hear(o)
  \/ Turn
  \/ Pass
  \/ Fail

Spec == Init /\ [][Next]_vars
=============================================================================
