----------------------------- MODULE DriveChain -----------------------------
(***************************************************************************)
(* From a command to the wheels: the bridge process of CmdVelBridge, the   *)
(* topic /cmd_vel with its agent and serial line, and the motor board as   *)
(* DeadMan describes it (MotorNode implements DeadMan).  Messages may be   *)
(* lost, the bridge may die and come back, the board may be reset.         *)
(*                                                                         *)
(* The two safety nets are of different processes: the bridge repeats its  *)
(* stops because one may be lost, the board stops on silence because the   *)
(* bridge may be gone.                                                     *)
(***************************************************************************)
EXTENDS CmdVelBridge, Sequences

CONSTANTS
  MaxSpeed, Track, MaxDuty,  \* the board's, see Wheels
  Lag, Hold, Limit,          \* what the board promises, see DeadMan
  Latency,      \* a message that arrives does so within this time
  MaxLost       \* as many messages lost in a row are few

VARIABLES
  topic,                        \* messages on their way
  lost,                         \* messages lost in a row, up to MaxLost + 1
  order, left, right, silence,  \* the board, see DeadMan
  quiet,    \* history: time since the bridge was last driving
  steady    \* history: time since anything changed that the wheels must follow, or
            \* more messages than MaxLost were lost in a row

link == <<topic, lost>>
board == <<order, left, right, silence>>
chain == <<vars, link, board, quiet, steady>>

Board == INSTANCE DeadMan WITH Duty <- -MaxDuty..MaxDuty
W == INSTANCE Wheels

\* What the board makes of a Twist.
OrderOf(m) == [left  |-> W!Constrain(W!DutyOf(m).left),
               right |-> W!Constrain(W!DutyOf(m).right)]

\* Whatever was lost, the wheels stand still this long after the bridge was done
\* with the motion: the last drive message has arrived, the board has waited
\* for another, and the stop that came at that very moment has taken effect.
StopBound == Latency + Limit + Lag

\* With few losses they do as the bridge says within this time.
FollowBound == (MaxLost + 1) * PubPeriod + 2 * TickGap + Latency + Lag

ASSUME ChainAssumption ==
  /\ MaxSpeed \in Nat \ {0} /\ MaxDuty \in Nat \ {0} /\ Track \in Int
  /\ Latency \in Nat /\ MaxLost \in Nat
  /\ Lag \in Nat /\ Hold \in Nat /\ Limit \in Nat
  /\ Lag <= Hold /\ Hold <= Limit   \* a round of loop is short of the timeout
  /\ TickGap + ServeGap <= PubPeriod   \* so are a tick and a wait for the lock, of a period
  /\ MaxLost < StopRepeat
  /\ FollowBound <= Hold + Lag

-----------------------------------------------------------------------------
(* History.  Each run keeps the count its link gives a meaning to.  steady  *)
(* is 0 while the bridge has said nothing since it came up: then there is   *)
(* nothing the wheels must follow.                                          *)

CountTo(bound, n) == IF n > bound THEN n ELSE n + 1

\* Has an order been honoured since the bridge came up?
Ordered == log.due > 0 \/ log.end > 0

\* What is in force changes, or is said again: set moves the next publication.
Upset == Goal' # Goal \/ up' # up \/ (spc = "set" /\ spc' = "reply")

\* A motion is in force, or tick has found it so and has not published yet.
Driving == Goal # Zero \/ out # Zero \/ (tpc = "lock" /\ tnow < until)

History(boardFails) ==
  /\ quiet' = IF Driving' THEN 0
              ELSE IF now' = now THEN quiet ELSE CountTo(StopBound, quiet)
  /\ steady' = IF Upset \/ boardFails \/ ~Ordered \/ lost' > MaxLost THEN 0
               ELSE IF now' = now THEN steady ELSE CountTo(FollowBound, steady)

-----------------------------------------------------------------------------
ChainInit ==
  /\ Init
  /\ Board!Init
  /\ topic = <<>>
  /\ lost = 0
  /\ quiet = 0 /\ steady = 0

\* Steps of the bridge other than a publication and the clock's.  The timer
\* fires once in a TICK_S: however many commands come in at one moment, the
\* topic is not flooded.
BridgeStep ==
  /\ \/ TickStart /\ tnow < now
     \/ TickEarly \/ TickDrive \/ TickStop \/ TickQuiet
     \/ Accept
     \/ \E r \in Request : Receive(r)
     \/ Honour
     \/ Crash
     \/ Restart
  /\ UNCHANGED <<link, board>>
  /\ History(FALSE)

Publish ==
  /\ TickPublish
  /\ topic' = Append(topic, [msg |-> out, at |-> now])
  /\ UNCHANGED <<lost, board>>
  /\ History(FALSE)

\* spin_some hands the oldest message to the board.
Deliver ==
  /\ topic # <<>>
  /\ Board!Hear(OrderOf(Head(topic).msg))
  /\ topic' = Tail(topic)
  /\ lost' = 0
  /\ UNCHANGED vars
  /\ History(FALSE)

\* It never gets there.
Lose ==
  /\ topic # <<>>
  /\ topic' = Tail(topic)
  /\ lost' = CountTo(MaxLost, lost)
  /\ UNCHANGED <<vars, board>>
  /\ History(FALSE)

BoardTurn ==
  /\ Board!Turn
  /\ UNCHANGED <<vars, link>>
  /\ History(FALSE)

BoardFails ==
  /\ Board!Fail
  /\ UNCHANGED <<vars, link>>
  /\ History(TRUE)

Pass ==
  /\ Advance
  /\ Board!Pass
  /\ topic # <<>> => now < Head(topic).at + Latency
  /\ UNCHANGED link
  /\ History(FALSE)

ChainNext ==
  \/ Pass
  \/ BridgeStep
  \/ Publish
  \/ Deliver
  \/ Lose
  \/ BoardTurn
  \/ BoardFails

ChainSpec == ChainInit /\ [][ChainNext]_chain

-----------------------------------------------------------------------------
(* Properties.                                                             *)

\* Whatever is lost and whoever dies: once the bridge has stopped driving,
\* because the motion is over, because of a stop, of a block or of a crash, the
\* wheels stop within StopBound (main.cpp:192-194 behind
\* cmd_vel_bridge.py:80-89).
WheelsStop == quiet > StopBound => Board!Still

\* With no more losses in a row than the stops are repeated for, the wheels do
\* what the bridge says once that has been the same for FollowBound: they stop
\* without the watchdog and drive without a stutter, a period of 100 ms and a
\* timeout of 500 ms agreeing (cmd_vel_bridge.py:27-29, main.cpp:65).
WheelsFollow ==
  steady > FollowBound =>
    left = OrderOf(Goal).left /\ right = OrderOf(Goal).right
=============================================================================
