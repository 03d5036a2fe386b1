-------------------------- MODULE DriveChainProofs --------------------------
(***************************************************************************)
(* Theorems about the bridge and about the chain from it to the wheels,    *)
(* for every speed, duration, period and burst length, every lateness of   *)
(* the bridge's threads, every latency of the link and every timeout of    *)
(* the board.  The first part is about the bridge by itself; the chain's   *)
(* rests on it for the bridge, and for the board on what DeadMan promises. *)
(***************************************************************************)
EXTENDS DriveChain, TLAPS

-----------------------------------------------------------------------------
(* The bridge.                                                             *)

(* Every program point keeps the types.                                    *)

LEMMA InitTypeOK == Init => TypeOK
<1> SUFFICES ASSUME Init PROVE TypeOK
  OBVIOUS
<1> USE SpeedAssumption, TimeAssumption DEF Init
<1>1. out \in Twist /\ lin \in Lin /\ ang \in Ang
  BY DEF Twist, Zero
<1>2. log \in LogType
  BY DEF LogType
<1>3. /\ stops_left \in 0..StopRepeat
      /\ now \in Nat /\ tnow \in 0..now /\ snow \in 0..now
  OBVIOUS
<1> QED
  BY <1>1, <1>2, <1>3 DEF TypeOK

\* A crash and a restart both leave a fresh process behind.
LEMMA FreshTypeOK == ASSUME TypeOK, Fresh, UNCHANGED now, up' \in BOOLEAN
                     PROVE  TypeOK'
<1> USE SpeedAssumption, TimeAssumption DEF Fresh
<1>1. out' \in Twist /\ lin' \in Lin /\ ang' \in Ang
  BY DEF Twist, Zero
<1>2. log' \in LogType
  BY DEF LogType
<1>3. /\ stops_left' \in 0..StopRepeat
      /\ now' \in Nat /\ tnow' \in 0..now' /\ snow' \in 0..now'
  BY DEF TypeOK
<1> QED
  BY <1>1, <1>2, <1>3 DEF TypeOK

\* The history record of a new order is well formed.
LEMMA NewOrderType ==
  ASSUME log \in LogType, NEW d \in Nat, NEW e \in Nat
  PROVE  /\ NewOrder(d, e) \in LogType
         /\ NewOrder(d, e).forward = log.forward
         /\ NewOrder(d, e).shut = log.shut
  BY DEF NewOrder, LogType

LEMMA ShutType ==
  ASSUME NEW l \in LogType, NEW b \in BOOLEAN
  PROVE  [l EXCEPT !.shut = b] \in LogType
  BY DEF LogType

LEMMA LateType ==
  ASSUME NEW l \in LogType, NEW b \in BOOLEAN
  PROVE  /\ [l EXCEPT !.late = l.late \/ b] \in LogType
         /\ [l EXCEPT !.late = l.late \/ b].shut = l.shut
         /\ [l EXCEPT !.late = l.late \/ b].forward = l.forward
  BY DEF LogType

LEMMA NextTypeOK == TypeOK /\ [Next]_vars => TypeOK'
<1> SUFFICES ASSUME TypeOK, [Next]_vars PROVE TypeOK'
  OBVIOUS
<1> USE SpeedAssumption, TimeAssumption
<1>1. CASE UNCHANGED vars
  BY <1>1 DEF TypeOK, vars, latch, timer, server, Valid
<1>2. CASE Advance
  BY <1>2 DEF Advance, TypeOK, latch, timer, server, Valid
<1>3. CASE Tick
  <2>1. CASE TickStart
    <3>1. log' \in LogType
      <4>1. (now > tnow + InTime) \in BOOLEAN
        OBVIOUS
      <4> QED
        BY <2>1, <4>1, LateType DEF TickStart, TypeOK
    <3>2. /\ UNCHANGED <<now, up, latch, out, server>>
          /\ tpc' = "lock" /\ tnow' = now
      BY <2>1 DEF TickStart
    <3> QED
      BY <3>1, <3>2 DEF TypeOK, latch, server, Valid
  <2>2. CASE TickEarly
    BY <2>2 DEF TickEarly, TypeOK, latch, server, Valid
  <2>3. CASE TickDrive
    BY <2>3 DEF TickDrive, TickDue, NextPub, TypeOK, Twist, LogType, server, Valid
  <2>4. CASE TickStop
    BY <2>4 DEF TickStop, TickDue, NextPub, TypeOK, Twist, Zero, LogType, server, Valid
  <2>5. CASE TickQuiet
    BY <2>5 DEF TickQuiet, TickDue, NextPub, TypeOK, server, Valid
  <2>6. CASE TickPublish
    BY <2>6 DEF TickPublish, TypeOK, Twist, Zero, LogType, latch, server, Valid
  <2> QED
    BY <1>3, <2>1, <2>2, <2>3, <2>4, <2>5, <2>6 DEF Tick
<1>4. CASE Accept
  BY <1>4 DEF Accept, TypeOK, latch, timer, Valid
<1>5. ASSUME NEW r \in Request, Receive(r) PROVE TypeOK'
  <2>1. Dispatch(r) = "set" => r \in DriveRequest /\ Valid(r)
    BY DEF Dispatch, Request, DriveRequest, BlockRequest, Status, Garbled
  <2>2. Dispatch(r) = "block" => r \in BlockRequest
    BY DEF Dispatch, Request, DriveRequest, BlockRequest, Status, Garbled
  <2>3. Dispatch(r) \in {"set", "block", "reply", "error"}
    BY DEF Dispatch
  <2> QED
    BY <1>5, <2>1, <2>2, <2>3 DEF Receive, TypeOK, latch, timer, Valid
<1>6. CASE Honour
  <2>1. CASE RefuseForward
    BY <2>1 DEF RefuseForward, Done, TypeOK, latch, timer
  <2>2. CASE SetDrive
    <3>1. /\ req.lin \in Lin /\ req.ang \in Ang /\ req.dur \in Nat
          /\ snow + req.dur \in Nat
      BY <2>2 DEF SetDrive, Set, TypeOK, DriveRequest, Valid
    <3>2. log' \in LogType
      BY <2>2, <3>1 DEF SetDrive, NewOrder, TypeOK, LogType
    <3> QED
      BY <2>2, <3>1, <3>2 DEF SetDrive, Set, Done, TypeOK, timer
  <2>3. CASE SetStop
    <3>1. snow \in Nat
      BY DEF TypeOK
    <3>5. log' \in LogType
      BY <2>3, <3>1, NewOrderType DEF SetStop, TypeOK
    <3>2. stops_left' \in 0..StopRepeat
      BY <2>3 DEF SetStop, Set
    <3>3. now' = now /\ now' \in Nat
      BY <2>3 DEF SetStop, Set, TypeOK
    <3>4. snow' \in 0..now'
      BY <2>3, <3>3 DEF SetStop, Set, Done
    <3> QED
      BY <2>3, <3>1, <3>2, <3>3, <3>4, <3>5 DEF SetStop, Set, Done, TypeOK, timer
  <2>4. CASE SetBlock
    <3>1. snow \in Nat /\ req.on \in BOOLEAN
      <4>1. req \in BlockRequest
        BY <2>4 DEF SetBlock, TypeOK
      <4> QED
        BY <4>1 DEF TypeOK, BlockRequest
    <3>2. log' \in LogType
      <4>1. CASE Cuts(req.on)
        <5>1. NewOrder(0, snow) \in LogType
          BY <3>1, NewOrderType DEF TypeOK
        <5> QED
          BY <2>4, <4>1, <5>1, ShutType DEF SetBlock
      <4>2. CASE ~Cuts(req.on)
        <5>1. log \in LogType /\ (log.shut \/ req.on) \in BOOLEAN
          BY DEF TypeOK
        <5> QED
          BY <2>4, <4>2, <5>1, ShutType DEF SetBlock
      <4> QED
        BY <4>1, <4>2
    <3>3. stops_left' \in 0..StopRepeat
      BY <2>4 DEF SetBlock, TypeOK
    <3>4. until' \in Nat /\ next_pub' \in Nat
      BY <2>4, <3>1 DEF SetBlock, TypeOK
    <3>5. now' = now /\ now' \in Nat
      BY <2>4 DEF SetBlock, TypeOK
    <3>6. snow' \in 0..now'
      BY <2>4, <3>5 DEF SetBlock, Done
    <3> QED
      BY <2>4, <3>1, <3>2, <3>3, <3>4, <3>5, <3>6 DEF SetBlock, Done, TypeOK, timer
  <2>5. CASE Reply \/ ReplyFails
    BY <2>5 DEF Reply, ReplyFails, TypeOK, latch, timer
  <2> QED
    BY <1>6, <2>1, <2>2, <2>3, <2>4, <2>5 DEF Honour
<1>7. CASE Crash
  BY <1>7, FreshTypeOK DEF Crash
<1>8. CASE Restart
  BY <1>8, FreshTypeOK DEF Restart
<1> QED
  BY <1>1, <1>2, <1>3, <1>4, <1>5, <1>6, <1>7, <1>8 DEF Next

\* The types of CmdVelBridge hold in every reachable state.
THEOREM TypeCorrect == Spec => []TypeOK
  BY InitTypeOK, NextTypeOK, PTL DEF Spec

-----------------------------------------------------------------------------
(* What a block guarantees.  A forward message may still be published after *)
(* one for two reasons: tick has it in its hands already, or tick read the  *)
(* clock before the motion ended and set_block read it after, so that the   *)
(* motion was over for set_block and goes on for one message.  The two      *)
(* exclude each other because there is one executor thread.                 *)

InFlight == tpc = "publish" /\ out.lin > 0
Deciding == tpc = "lock" /\ tnow < until /\ lin > 0

BlockInv ==
  /\ blocked => log.shut
  /\ ~log.shut => log.forward = 0
  /\ log.shut => ~(lin > 0 /\ Moving)
  /\ log.shut /\ (InFlight \/ Deciding) => log.forward = 0
  /\ log.forward <= 1

LEMMA InitBlockInv == Init => BlockInv
  BY DEF Init, BlockInv, InFlight, Deciding, Moving

LEMMA FreshBlockInv == Fresh => BlockInv'
  BY DEF Fresh, BlockInv, InFlight, Deciding, Moving

LEMMA NextBlockInv == TypeOK /\ BlockInv /\ [Next]_vars => BlockInv'
<1> SUFFICES ASSUME TypeOK, BlockInv, [Next]_vars PROVE BlockInv'
  OBVIOUS
<1> USE SpeedAssumption, TimeAssumption DEF BlockInv, InFlight, Deciding, Moving
<1>1. CASE UNCHANGED vars
  BY <1>1 DEF vars, latch, timer, server
<1>2. CASE Advance
  BY <1>2 DEF Advance, TypeOK, latch, timer, server
<1>3. CASE Tick
  <2>1. CASE TickStart
    <3>1. log'.shut = log.shut /\ log'.forward = log.forward
      <4>1. (now > tnow + InTime) \in BOOLEAN
        OBVIOUS
      <4> QED
        BY <2>1, <4>1, LateType DEF TickStart, TypeOK
    <3> QED
      BY <2>1, <3>1 DEF TickStart, latch, server
  <2>2. CASE TickEarly
    BY <2>2 DEF TickEarly, latch, server
  <2>3. CASE TickDrive
    BY <2>3 DEF TickDrive, TickDue, TypeOK, LogType
  <2>4. CASE TickStop
    BY <2>4 DEF TickStop, TickDue, Zero, TypeOK, LogType
  <2>5. CASE TickQuiet
    BY <2>5 DEF TickQuiet, TickDue
  <2>6. CASE TickPublish
    BY <2>6 DEF TickPublish, TypeOK, LogType, latch
  <2> QED
    BY <1>3, <2>1, <2>2, <2>3, <2>4, <2>5, <2>6 DEF Tick
<1>4. CASE Accept
  BY <1>4 DEF Accept, latch, timer
<1>5. ASSUME NEW r \in Request, Receive(r) PROVE BlockInv'
  BY <1>5 DEF Receive, latch, timer
<1>6. CASE Honour
  <2>1. CASE RefuseForward
    BY <2>1 DEF RefuseForward, latch, timer
  <2>2. CASE SetDrive
    BY <2>2 DEF SetDrive, Set, Refused, Drives, NewOrder, TypeOK, LogType,
                DriveRequest, Valid, timer
  <2>3. CASE SetStop
    BY <2>3 DEF SetStop, Set, NewOrder, TypeOK, LogType, timer
  <2>4. CASE SetBlock
    <3>1. log \in LogType /\ snow \in 0..now /\ now \in Nat /\ snow \in Nat
      BY DEF TypeOK
    <3>2. now' = now /\ lin' = lin /\ tpc' = tpc /\ out' = out /\ tnow' = tnow
      BY <2>4 DEF SetBlock, timer
    <3>3. CASE Cuts(req.on)
      <4>1. log' = [NewOrder(0, snow) EXCEPT !.shut = TRUE] /\ until' = 0
        BY <2>4, <3>3 DEF SetBlock
      <4>2. log'.shut = TRUE /\ log'.forward = log.forward
        BY <4>1, <3>1, NewOrderType DEF LogType
      <4>3. ~(tnow < 0) /\ ~(now < 0)
        BY DEF TypeOK
      <4> QED
        BY <3>1, <3>2, <4>1, <4>2, <4>3
    <3>4. CASE ~Cuts(req.on)
      <4>1. until' = until /\ log' = [log EXCEPT !.shut = @ \/ req.on]
        BY <2>4, <3>4 DEF SetBlock
      <4>2. log'.shut = (log.shut \/ req.on) /\ log'.forward = log.forward
        BY <4>1, <3>1 DEF LogType
      <4>3. blocked' = req.on
        BY <2>4 DEF SetBlock
      <4>4. req.on => ~(lin > 0 /\ Moving)
        BY <3>1, <3>4 DEF Cuts, TypeOK
      <4> QED
        BY <3>1, <3>2, <4>1, <4>2, <4>3, <4>4 DEF TypeOK
    <3> QED
      BY <3>3, <3>4
  <2>5. CASE Reply \/ ReplyFails
    BY <2>5 DEF Reply, ReplyFails, latch, timer
  <2> QED
    BY <1>6, <2>1, <2>2, <2>3, <2>4, <2>5 DEF Honour
<1>7. CASE Crash \/ Restart
  BY <1>7, FreshBlockInv DEF Crash, Restart
<1> QED
  BY <1>1, <1>2, <1>3, <1>4, <1>5, <1>6, <1>7 DEF Next

LEMMA BlockInvariance == Spec => [](TypeOK /\ BlockInv)
<1>1. Init => TypeOK /\ BlockInv
  BY InitTypeOK, InitBlockInv
<1>2. TypeOK /\ BlockInv /\ [Next]_vars => (TypeOK /\ BlockInv)'
  BY NextTypeOK, NextBlockInv
<1> QED
  BY <1>1, <1>2, PTL DEF Spec

\* While the block is reported no forward motion is in force.
THEOREM BlockSafety == Spec => []BlockedStopsForward
<1>1. TypeOK /\ BlockInv => BlockedStopsForward
  BY DEF BlockInv, BlockedStopsForward
<1> QED
  BY <1>1, BlockInvariance, PTL

\* Between a block and the next forward command one forward message goes out
\* at most.
THEOREM OneForward == Spec => []OneForwardAfterBlock
<1>1. TypeOK /\ BlockInv => OneForwardAfterBlock
  BY DEF BlockInv, OneForwardAfterBlock
<1> QED
  BY <1>1, BlockInvariance, PTL

-----------------------------------------------------------------------------
(* The bridge implements DriveLatch.  Each step of the bridge is a step of  *)
(* the latch or leaves both the motion in force and the block alone; the    *)
(* clock itself ends a motion.                                              *)

LEMMA GoalValue == Goal = IF now < until THEN [lin |-> lin, ang |-> ang] ELSE Zero
  BY DEF Goal, Moving

LEMMA InitLatch == Init => Latch!Init
  BY DEF Init, Latch!Init, Latch!Stopped, Goal, Moving, Zero

\* A step that leaves the clock and the motion alone.
LEMMA SameGoal ==
  ASSUME UNCHANGED <<now, lin, ang, until>> PROVE UNCHANGED Goal
  BY DEF Goal, Moving, Zero

LEMMA FreshLatch == ASSUME TypeOK, Fresh, UNCHANGED now PROVE Latch!Fail
  BY DEF Fresh, Latch!Fail, Latch!Stopped, Goal, Moving, Zero, TypeOK

LEMMA NextLatch == TypeOK /\ [Next]_vars => [Latch!Next]_(Latch!vars)
<1> SUFFICES ASSUME TypeOK, [Next]_vars PROVE Latch!Next \/ UNCHANGED Latch!vars
  OBVIOUS
<1> USE SpeedAssumption, TimeAssumption
<1>1. CASE UNCHANGED vars
  BY <1>1, SameGoal DEF vars, latch, Latch!vars
<1>2. CASE Advance
  <2>1. Goal' = Goal \/ Goal' = Zero
    BY <1>2 DEF Advance, latch, Goal, Moving, Zero, TypeOK
  <2>2. blocked' = blocked
    BY <1>2 DEF Advance, latch
  <2> QED
    BY <2>1, <2>2 DEF Latch!Next, Latch!Halt, Latch!Stopped, Latch!vars, Zero
<1>3. CASE Tick
  <2>1. UNCHANGED <<now, lin, ang, until, blocked>>
    BY <1>3 DEF Tick, TickStart, TickEarly, TickDrive, TickStop, TickQuiet,
                TickPublish, TickDue, latch
  <2> QED
    BY <2>1, SameGoal DEF Latch!vars
<1>4. CASE Accept
  BY <1>4, SameGoal DEF Accept, latch, Latch!vars
<1>5. ASSUME NEW r \in Request, Receive(r) PROVE UNCHANGED Latch!vars
  BY <1>5, SameGoal DEF Receive, latch, Latch!vars
<1>6. CASE Honour
  <2>1. CASE RefuseForward \/ Reply \/ ReplyFails
    BY <2>1, SameGoal DEF RefuseForward, Reply, ReplyFails, latch, Latch!vars
  <2>2. CASE SetDrive
    <3> DEFINE m == [lin |-> req.lin, ang |-> req.ang]
    <3>1. req \in DriveRequest /\ req.dur > 0
      BY <2>2 DEF SetDrive, Set, Drives, TypeOK
    <3>2. m \in Latch!Motion /\ m # Latch!Stopped
      BY <2>2, <3>1 DEF SetDrive, Drives, DriveRequest, Latch!Motion, Latch!Stopped
    <3>3. ~(blocked /\ Latch!Forward(m))
      BY <2>2, <3>1 DEF SetDrive, Set, Refused, Latch!Forward
    <3>4. Goal' = m \/ Goal' = Zero
      BY <2>2 DEF SetDrive, Goal, Moving, Zero
    <3>5. blocked' = blocked
      BY <2>2 DEF SetDrive, Set
    <3>6. Latch!Drive(m) \/ Latch!Halt
      BY <3>2, <3>3, <3>4, <3>5 DEF Latch!Drive, Latch!Halt, Latch!Stopped, Zero
    <3> QED
      BY <3>2, <3>6 DEF Latch!Next
  <2>3. CASE SetStop
    <3>1. Goal' = Zero /\ blocked' = blocked
      BY <2>3 DEF SetStop, Set, Goal, Moving, Zero, TypeOK
    <3> QED
      BY <3>1 DEF Latch!Next, Latch!Halt, Latch!Stopped, Zero
  <2>4. CASE SetBlock
    <3>1. /\ now \in Nat /\ snow \in Nat /\ snow <= now /\ req.on \in BOOLEAN
          /\ lin \in Int /\ until \in Nat
      <4>1. req \in BlockRequest
        BY <2>4 DEF SetBlock, TypeOK
      <4> QED
        BY <4>1 DEF TypeOK, BlockRequest
    <3>2. now' = now /\ lin' = lin /\ ang' = ang /\ blocked' = req.on
      BY <2>4 DEF SetBlock
    <3>3. CASE Cuts(req.on)
      <4>1. until' = 0 /\ req.on /\ lin > 0
        BY <2>4, <3>3 DEF SetBlock, Cuts
      <4>2. Goal' = Zero
        BY <3>1, <3>2, <4>1 DEF Goal, Moving
      <4>3. Latch!Forward(Goal) \/ Goal = Zero
        BY <4>1 DEF Latch!Forward, Goal
      <4> QED
        BY <3>2, <4>1, <4>2, <4>3 DEF Latch!Next, Latch!Block, Latch!Stopped, Zero
    <3>4. CASE ~Cuts(req.on)
      <4>1. until' = until
        BY <2>4, <3>4 DEF SetBlock
      <4>2. Goal' = Goal
        BY <3>2, <4>1, SameGoal DEF Goal, Moving, Zero
      <4>3. req.on => ~Latch!Forward(Goal)
        <5>1. req.on => ~(lin > 0 /\ now < until)
          BY <3>1, <3>4 DEF Cuts
        <5> QED
          BY <5>1, GoalValue DEF Latch!Forward, Zero
      <4>4. CASE req.on
        BY <3>2, <4>2, <4>3, <4>4 DEF Latch!Next, Latch!Block
      <4>5. CASE ~req.on
        BY <3>1, <3>2, <4>2, <4>5 DEF Latch!Next, Latch!Unblock
      <4> QED
        BY <4>4, <4>5
    <3> QED
      BY <3>3, <3>4
  <2> QED
    BY <1>6, <2>1, <2>2, <2>3, <2>4 DEF Honour
<1>7. CASE Crash \/ Restart
  BY <1>7, FreshLatch DEF Crash, Restart, Latch!Next
<1> QED
  BY <1>1, <1>2, <1>3, <1>4, <1>5, <1>6, <1>7 DEF Next

\* Every behaviour of the bridge is a behaviour of the latch: one motion at a
\* time, cut by a block, never resumed, lost with the process.
THEOREM LatchRefinement == Spec => LatchSpec
  BY InitLatch, NextLatch, TypeCorrect, PTL DEF Spec, LatchSpec, Latch!Spec

-----------------------------------------------------------------------------
(* How many messages an order gets, and when.  An order starts at s, its end *)
(* less its duration.  The n-th drive message is never decided before        *)
(* s + (n - 1) periods, for next_pub moves on by a period at least; and with *)
(* ticks in time by exactly one, so that none is left out.                   *)

LEMMA Products ==
  ASSUME NEW m \in Nat
  PROVE  /\ m * PubPeriod \in Nat
         /\ (m + 1) * PubPeriod = m * PubPeriod + PubPeriod
  BY TimeAssumption

LEMMA Division ==
  ASSUME NEW x \in Nat, NEW m \in Nat
  PROVE  /\ m * PubPeriod <= x => m <= x \div PubPeriod
         /\ x < (m + 1) * PubPeriod => x \div PubPeriod <= m
<1> DEFINE q == x \div PubPeriod
<1>1. PubPeriod \in Nat \ {0}
  BY TimeAssumption
<1>2. q \in Nat /\ PubPeriod * q <= x /\ x < PubPeriod * q + PubPeriod
  BY <1>1
<1> HIDE DEF q
<1>3. ASSUME m * PubPeriod <= x PROVE m <= q
  <2>1. m * PubPeriod < (q + 1) * PubPeriod
    BY <1>1, <1>2, <1>3
  <2> QED
    BY <1>1, <1>2, <2>1
<1>4. ASSUME x < (m + 1) * PubPeriod PROVE q <= m
  <2>1. q * PubPeriod < (m + 1) * PubPeriod
    BY <1>1, <1>2, <1>4
  <2> QED
    BY <1>1, <1>2, <2>1
<1> QED
  BY <1>3, <1>4 DEF q

LEMMA LogFields ==
  ASSUME TypeOK
  PROVE  /\ log.due \in Nat /\ log.end \in Nat /\ log.moves \in Nat /\ log.stops \in Nat
         /\ log.late \in BOOLEAN
  BY DEF TypeOK, LogType

\* However late the ticks are.
OrderInv ==
  /\ until # 0 => /\ until = log.end
                  /\ next_pub + log.due >= log.end + log.moves * PubPeriod
  /\ until = 0 => log.due = 0
  /\ log.moves > 0 => log.moves * PubPeriod < log.due + PubPeriod
  /\ stops_left + log.stops = StopRepeat
  /\ spc \in {"set", "block"} => now <= snow + ServeGap
  /\ ~up => spc = "accept"

\* A tick in time that has read its clock, and has not got the lock yet.
Slack == IF tpc = "lock" THEN InTime ELSE 0

\* With every tick since the order in time.
PunctualInv ==
  ~log.late =>
    /\ log.stops < StopRepeat =>
         /\ tnow <= next_pub + ServeGap + Slack
         /\ next_pub < log.end + (log.stops + 1) * PubPeriod
    /\ log.stops = 0 /\ until # 0 => next_pub + log.due = log.end + log.moves * PubPeriod
    /\ log.stops > 0 => log.due < (log.moves + 1) * PubPeriod

CountInv == OrderInv /\ PunctualInv

\* A step that leaves the order, the messages counted for it and the next
\* publication alone.
Uncounted ==
  /\ UNCHANGED <<until, next_pub, stops_left, log.due, log.end, log.moves, log.stops>>
  /\ log.late => log.late'

LEMMA FreshCount == ASSUME Fresh PROVE CountInv'
<1>1. StopRepeat \in Nat \ {0} /\ PubPeriod \in Nat \ {0}
  BY TimeAssumption
<1>2. /\ until' = 0 /\ next_pub' = 0 /\ stops_left' = 0 /\ spc' = "accept"
      /\ log'.due = 0 /\ log'.end = 0 /\ log'.moves = 0 /\ log'.stops = StopRepeat
  BY DEF Fresh
<1>3. 0 < (0 + 1) * PubPeriod
  BY <1>1
<1> QED
  BY <1>1, <1>2, <1>3 DEF CountInv, OrderInv, PunctualInv

LEMMA InitCount == Init => CountInv
<1> SUFFICES ASSUME Init PROVE CountInv
  OBVIOUS
<1>1. StopRepeat \in Nat \ {0} /\ PubPeriod \in Nat \ {0}
  BY TimeAssumption
<1>2. /\ until = 0 /\ next_pub = 0 /\ stops_left = 0 /\ spc = "accept"
      /\ log.due = 0 /\ log.end = 0 /\ log.moves = 0 /\ log.stops = StopRepeat
  BY DEF Init
<1>3. 0 < (0 + 1) * PubPeriod
  BY <1>1
<1> QED
  BY <1>1, <1>2, <1>3 DEF CountInv, OrderInv, PunctualInv

LEMMA UncountedCount ==
  ASSUME TypeOK, CountInv, Uncounted,
         tnow' <= next_pub + ServeGap + Slack' \/ (tnow' = tnow /\ tpc' = tpc) \/ log.late',
         spc' \in {"set", "block"} => now' <= snow' + ServeGap,
         ~up' => spc' = "accept"
  PROVE  CountInv'
  BY LogFields, TimeAssumption DEF CountInv, OrderInv, PunctualInv, Uncounted, Slack

\* With ticks in time the next publication is never late enough to start anew.
LEMMA NextPubInTime ==
  ASSUME TypeOK, PunctualInv, tpc = "lock", ~log.late, log.stops < StopRepeat
  PROVE  NextPub(tnow) = next_pub + PubPeriod /\ tnow < next_pub + PubPeriod
<1>1. /\ tnow \in Nat /\ next_pub \in Nat /\ InTime \in Nat /\ ServeGap \in Nat
      /\ PubPeriod \in Nat /\ InTime + ServeGap < PubPeriod
  BY TimeAssumption, PunctualAssumption DEF TypeOK
<1>2. tnow <= next_pub + ServeGap + InTime
  BY DEF PunctualInv, Slack
<1> QED
  BY <1>1, <1>2 DEF NextPub

LEMMA NextPubMoves ==
  ASSUME TypeOK PROVE NextPub(tnow) >= next_pub + PubPeriod /\ NextPub(tnow) \in Nat
  BY TimeAssumption DEF NextPub, TypeOK

LEMMA TickDriveCount ==
  ASSUME TypeOK, CountInv, TickDrive
  PROVE  CountInv'
<1> DEFINE P == PubPeriod
           m == log.moves
<1>1. /\ tpc = "lock" /\ tpc' = "publish" /\ tnow >= next_pub /\ tnow < until
      /\ next_pub' = NextPub(tnow)
      /\ UNCHANGED <<now, up, until, stops_left, tnow, spc, snow>>
  BY DEF TickDrive, TickDue, server
<1>2. /\ log'.moves = m + 1
      /\ UNCHANGED <<log.due, log.end, log.stops, log.late>>
  BY DEF TickDrive, TypeOK, LogType
<1>3. /\ m \in Nat /\ log.due \in Nat /\ log.end \in Nat /\ log.stops \in Nat
      /\ next_pub \in Nat /\ tnow \in Nat /\ until \in Nat
      /\ P \in Nat \ {0} /\ StopRepeat \in Nat \ {0}
      /\ InTime \in Nat /\ ServeGap \in Nat
  BY LogFields, TimeAssumption DEF TypeOK
<1>4. /\ m * P \in Nat /\ (m + 1) * P = m * P + P
      /\ (m + 1 + 1) * P = m * P + P + P
      /\ (log.stops + 1) * P = log.stops * P + P /\ log.stops * P \in Nat
  BY <1>3, Products
<1>5. until # 0 /\ until = log.end /\ next_pub + log.due >= log.end + m * P
  BY <1>1, <1>3 DEF CountInv, OrderInv
<1>6. next_pub' >= next_pub + P /\ next_pub' \in Nat
  BY <1>1, NextPubMoves
<1>7. OrderInv'
  <2>1. next_pub' + log.due >= log.end + (m + 1) * P
    BY <1>3, <1>4, <1>5, <1>6
  <2>2. (m + 1) * P < log.due + P
    BY <1>1, <1>3, <1>4, <1>5
  <2> QED
    BY <1>1, <1>2, <1>3, <1>5, <2>1, <2>2 DEF CountInv, OrderInv
<1>8. PunctualInv'
  <2> SUFFICES ASSUME ~log.late PROVE PunctualInv'
    BY <1>2 DEF PunctualInv
  <2>1. ASSUME log.stops < StopRepeat
        PROVE  /\ next_pub' = next_pub + P /\ tnow < next_pub'
               /\ next_pub' < log.end + (log.stops + 1) * P
    <3>1. next_pub' = next_pub + P /\ tnow < next_pub'
      BY <1>1, <2>1, NextPubInTime DEF CountInv
    <3> QED
      BY <1>1, <1>3, <1>4, <1>5, <3>1
  <2>2. ASSUME log.stops = 0 PROVE next_pub' + log.due = log.end + (m + 1) * P
    <3>1. next_pub + log.due = log.end + m * P /\ log.stops < StopRepeat
      BY <1>3, <1>5, <2>2 DEF CountInv, PunctualInv
    <3>2. next_pub' = next_pub + P
      BY <2>1, <3>1
    <3> QED
      BY <1>3, <1>4, <3>1, <3>2
  <2>3. ASSUME log.stops > 0 PROVE log.due < (m + 1 + 1) * P
    <3>1. log.due < (m + 1) * P
      BY <2>3 DEF CountInv, PunctualInv
    <3> QED
      BY <1>3, <1>4, <3>1
  <2> QED
    BY <1>1, <1>2, <1>3, <2>1, <2>2, <2>3 DEF PunctualInv, Slack
<1> QED
  BY <1>7, <1>8 DEF CountInv

LEMMA TickStopCount ==
  ASSUME TypeOK, CountInv, TickStop
  PROVE  CountInv'
<1> DEFINE P == PubPeriod
           m == log.moves
           k == log.stops
<1>1. /\ tpc = "lock" /\ tpc' = "publish" /\ tnow >= next_pub /\ tnow >= until
      /\ stops_left > 0 /\ stops_left' = stops_left - 1 /\ next_pub' = NextPub(tnow)
      /\ UNCHANGED <<now, up, until, tnow, spc, snow>>
  BY DEF TickStop, TickDue, server
<1>2. /\ log'.stops = k + 1
      /\ UNCHANGED <<log.due, log.end, log.moves, log.late>>
  BY DEF TickStop, TypeOK, LogType
<1>3. /\ m \in Nat /\ log.due \in Nat /\ log.end \in Nat /\ k \in Nat
      /\ next_pub \in Nat /\ tnow \in Nat /\ until \in Nat /\ stops_left \in Nat
      /\ P \in Nat \ {0} /\ StopRepeat \in Nat \ {0}
      /\ InTime \in Nat /\ ServeGap \in Nat
  BY LogFields, TimeAssumption DEF TypeOK
<1>4. /\ m * P \in Nat /\ (m + 1) * P = m * P + P
      /\ (k + 1) * P = k * P + P /\ (k + 1 + 1) * P = k * P + P + P /\ k * P \in Nat
  BY <1>3, Products
<1>5. stops_left + k = StopRepeat /\ k < StopRepeat
  BY <1>1, <1>3 DEF CountInv, OrderInv
<1>6. next_pub' >= next_pub + P /\ next_pub' \in Nat
  BY <1>1, NextPubMoves
<1>7. OrderInv'
  BY <1>1, <1>2, <1>3, <1>5, <1>6 DEF CountInv, OrderInv
<1>8. PunctualInv'
  <2> SUFFICES ASSUME ~log.late PROVE PunctualInv'
    BY <1>2 DEF PunctualInv
  <2>1. next_pub' = next_pub + P /\ tnow < next_pub'
    BY <1>1, <1>5, NextPubInTime DEF CountInv
  <2>2. next_pub' < log.end + (k + 1 + 1) * P
    <3>1. next_pub < log.end + (k + 1) * P
      BY <1>5 DEF CountInv, PunctualInv
    <3> QED
      BY <1>3, <1>4, <2>1, <3>1
  <2>3. log.due < (m + 1) * P
    <3>1. CASE until = 0
      BY <1>3, <1>4, <3>1 DEF CountInv, OrderInv
    <3>2. CASE until # 0 /\ k = 0
      <4>1. next_pub + log.due = log.end + m * P /\ until = log.end
        BY <3>2 DEF CountInv, PunctualInv, OrderInv
      <4> QED
        BY <1>1, <1>3, <1>4, <2>1, <4>1
    <3>3. CASE k > 0
      BY <3>3 DEF CountInv, PunctualInv
    <3> QED
      BY <1>3, <3>1, <3>2, <3>3
  <2>4. k + 1 # 0 /\ tnow' <= next_pub' + ServeGap + Slack'
    BY <1>1, <1>3, <1>6, <2>1 DEF Slack
  <2>5. /\ log'.stops = k + 1 /\ log'.moves = m /\ log'.due = log.due /\ log'.end = log.end
    BY <1>2
  <2> QED
    BY <2>2, <2>3, <2>4, <2>5 DEF PunctualInv
<1> QED
  BY <1>7, <1>8 DEF CountInv

\* A tick with nothing to send may move the next publication, for the order has
\* had all its messages.
LEMMA TickQuietCount ==
  ASSUME TypeOK, CountInv, TickQuiet
  PROVE  CountInv'
<1>1. /\ next_pub' = NextPub(tnow) /\ stops_left = 0 /\ UNCHANGED stops_left
      /\ UNCHANGED <<now, up, until, tnow, spc, snow, log>>
  BY DEF TickQuiet, TickDue, server
<1>2. log.stops = StopRepeat /\ StopRepeat \in Nat \ {0}
  BY <1>1, LogFields, TimeAssumption DEF CountInv, OrderInv
<1>3. next_pub' >= next_pub /\ next_pub' \in Nat
  <2>1. next_pub \in Nat /\ PubPeriod \in Nat
    BY TimeAssumption DEF TypeOK
  <2> QED
    BY <1>1, <2>1, NextPubMoves
<1>4. next_pub \in Nat /\ log.due \in Nat /\ log.end + log.moves * PubPeriod \in Nat
  BY LogFields, Products DEF TypeOK
<1>5. next_pub + log.due >= log.end + log.moves * PubPeriod
        => next_pub' + log.due >= log.end + log.moves * PubPeriod
  BY <1>3, <1>4
<1> QED
  BY <1>1, <1>2, <1>5 DEF CountInv, OrderInv, PunctualInv

\* A new order, from e - d to e.
LEMMA NewOrderCount ==
  ASSUME TypeOK, CountInv, spc \in {"set", "block"}, spc' = "reply",
         UNCHANGED <<now, up, tpc, tnow>>, next_pub' = snow, stops_left' = StopRepeat,
         NEW d \in Nat, NEW e \in Nat, e = snow + d,
         until' = e \/ (until' = 0 /\ d = 0),
         log'.due = d, log'.end = e, log'.moves = 0, log'.stops = 0
  PROVE  CountInv'
<1>1. /\ PubPeriod \in Nat \ {0} /\ StopRepeat \in Nat \ {0} /\ ServeGap \in Nat /\ InTime \in Nat
      /\ snow \in Nat /\ now \in Nat /\ tnow \in Nat /\ tnow <= now
  BY TimeAssumption DEF TypeOK
<1>2. 0 * PubPeriod = 0 /\ (0 + 1) * PubPeriod = PubPeriod
  BY <1>1
<1>3. up /\ now <= snow + ServeGap
  BY DEF CountInv, OrderInv
<1>4. tnow' <= next_pub' + ServeGap + Slack'
  BY <1>1, <1>3 DEF Slack
<1>5. OrderInv'
  BY <1>1, <1>2, <1>3 DEF OrderInv
<1>6. PunctualInv'
  BY <1>1, <1>2, <1>4 DEF PunctualInv
<1> QED
  BY <1>5, <1>6 DEF CountInv

LEMMA NextCount == TypeOK /\ CountInv /\ [Next]_vars => CountInv'
<1> SUFFICES ASSUME TypeOK, CountInv, [Next]_vars PROVE CountInv'
  OBVIOUS
<1>0. /\ now \in Nat /\ tnow \in Nat /\ snow \in Nat /\ InTime \in Nat /\ ServeGap \in Nat
      /\ spc \in {"set", "block"} => now <= snow + ServeGap /\ up
      /\ ~up => spc = "accept"
      /\ next_pub \in Nat
  BY TimeAssumption DEF TypeOK, CountInv, OrderInv
<1>1. CASE UNCHANGED vars
  BY <1>0, <1>1, UncountedCount DEF vars, latch, timer, server, Uncounted
<1>2. CASE Advance
  BY <1>0, <1>2, UncountedCount DEF Advance, MayWait, latch, timer, server, Uncounted
<1>3. CASE Tick
  <2>1. CASE TickStart
    <3>1. /\ tnow' = now /\ tpc = "idle" /\ tpc' = "lock" /\ up
          /\ UNCHANGED <<now, up, until, next_pub, stops_left, spc, snow>>
      BY <2>1 DEF TickStart, latch, server
    <3>2. /\ UNCHANGED <<log.due, log.end, log.moves, log.stops>>
          /\ log'.late = (log.late \/ now > tnow + InTime)
      BY <2>1 DEF TickStart, TypeOK, LogType
    <3>3. Uncounted
      BY <3>1, <3>2 DEF Uncounted
    <3>4. CASE log.late' \/ log.stops >= StopRepeat
      BY <1>0, <3>1, <3>2, <3>3, <3>4, LogFields, TimeAssumption DEF CountInv, OrderInv, PunctualInv
    <3>5. CASE ~log.late' /\ log.stops < StopRepeat
      <4>1. ~log.late /\ ~(now > tnow + InTime)
        BY <3>2, <3>5
      <4>2. now <= tnow + InTime
        BY <1>0, <4>1
      <4>3. tnow <= next_pub + ServeGap /\ now <= tnow + InTime
        BY <1>0, <3>1, <3>5, <4>1, <4>2 DEF CountInv, PunctualInv, Slack
      <4>4. tnow' <= next_pub + ServeGap + Slack'
        BY <1>0, <3>1, <4>3 DEF Slack
      <4> QED
        BY <1>0, <3>1, <3>3, <4>4, UncountedCount
    <3> QED
      BY <3>4, <3>5, LogFields, TimeAssumption
  <2>2. CASE TickEarly
    BY <1>0, <2>2, UncountedCount DEF TickEarly, latch, server, Uncounted, Slack
  <2>3. CASE TickDrive
    BY <2>3, TickDriveCount
  <2>4. CASE TickStop
    BY <2>4, TickStopCount
  <2>5. CASE TickQuiet
    BY <2>5, TickQuietCount
  <2>6. CASE TickPublish
    <3>1. /\ UNCHANGED <<now, up, until, next_pub, stops_left, spc, snow, tnow>>
          /\ tpc = "publish" /\ tpc' = "idle"
      BY <2>6 DEF TickPublish, latch, server
    <3>2. UNCHANGED <<log.due, log.end, log.moves, log.stops, log.late>>
      BY <2>6 DEF TickPublish, TypeOK, LogType
    <3> QED
      BY <3>1, <3>2 DEF CountInv, OrderInv, PunctualInv, Slack
  <2> QED
    BY <1>3, <2>1, <2>2, <2>3, <2>4, <2>5, <2>6 DEF Tick
<1>4. CASE Accept
  BY <1>0, <1>4, UncountedCount DEF Accept, latch, timer, Uncounted
<1>5. ASSUME NEW r \in Request, Receive(r) PROVE CountInv'
  <2>1. spc' \in {"set", "block"} => snow' = now /\ now' = now
    BY <1>5 DEF Receive
  <2> QED
    BY <1>0, <1>5, <2>1, UncountedCount DEF Receive, latch, timer, Uncounted
<1>6. CASE Honour
  <2>1. CASE RefuseForward \/ Reply \/ ReplyFails
    BY <1>0, <2>1, UncountedCount DEF RefuseForward, Reply, ReplyFails, Done, latch, timer, Uncounted
  <2>2. CASE SetDrive
    <3>1. req.dur \in Nat /\ snow + req.dur \in Nat
      BY <1>0, <2>2 DEF SetDrive, Set, TypeOK, DriveRequest, Valid
    <3>2. /\ log'.due = req.dur /\ log'.end = snow + req.dur /\ log'.moves = 0 /\ log'.stops = 0
      BY <2>2, <3>1 DEF SetDrive, NewOrder, TypeOK, LogType
    <3> QED
      BY <1>0, <2>2, <3>1, <3>2, NewOrderCount DEF SetDrive, Set, Done, timer
  <2>3. CASE SetStop
    <3>1. /\ log'.due = 0 /\ log'.end = snow /\ log'.moves = 0 /\ log'.stops = 0
      BY <1>0, <2>3 DEF SetStop, NewOrder, TypeOK, LogType
    <3>2. snow = snow + 0 /\ 0 \in Nat
      BY <1>0
    <3> QED
      BY <1>0, <2>3, <3>1, <3>2, NewOrderCount DEF SetStop, Set, Done, timer
  <2>4. CASE SetBlock
    <3>1. /\ spc = "block" /\ spc' = "reply"
          /\ UNCHANGED <<now, up, tpc, tnow>>
      BY <2>4 DEF SetBlock, Done, timer
    <3>2. CASE Cuts(req.on)
      <4>1. /\ until' = 0 /\ stops_left' = StopRepeat /\ next_pub' = snow
            /\ log'.due = 0 /\ log'.end = snow /\ log'.moves = 0 /\ log'.stops = 0
        BY <1>0, <2>4, <3>2 DEF SetBlock, NewOrder, TypeOK, LogType
      <4>2. snow = snow + 0 /\ 0 \in Nat
        BY <1>0
      <4> QED
        BY <1>0, <3>1, <4>1, <4>2, NewOrderCount
    <3>3. CASE ~Cuts(req.on)
      <4>1. UNCHANGED <<until, stops_left, next_pub, log.due, log.end, log.moves, log.stops, log.late>>
        BY <2>4, <3>3 DEF SetBlock, TypeOK, LogType
      <4> QED
        BY <1>0, <3>1, <4>1, UncountedCount DEF Uncounted
    <3> QED
      BY <3>2, <3>3
  <2> QED
    BY <1>6, <2>1, <2>2, <2>3, <2>4 DEF Honour
<1>7. CASE Crash \/ Restart
  BY <1>7, FreshCount DEF Crash, Restart
<1> QED
  BY <1>1, <1>2, <1>3, <1>4, <1>5, <1>6, <1>7 DEF Next

LEMMA CountInvariance == Spec => [](TypeOK /\ CountInv)
<1>1. Init => TypeOK /\ CountInv
  BY InitTypeOK, InitCount
<1>2. TypeOK /\ CountInv /\ [Next]_vars => (TypeOK /\ CountInv)'
  BY NextTypeOK, NextCount
<1> QED
  BY <1>1, <1>2, PTL DEF Spec

\* A command of duration d has ceil(d / period) drive messages at most, whenever
\* the two threads run.
THEOREM NotTooMany == Spec => []NeverTooMany
<1>1. TypeOK /\ CountInv => NeverTooMany
  <2> SUFFICES ASSUME TypeOK, CountInv PROVE log.moves <= (log.due + PubPeriod - 1) \div PubPeriod
    BY DEF NeverTooMany, CeilDiv
  <2>1. /\ log.moves \in Nat /\ log.due \in Nat /\ PubPeriod \in Nat \ {0}
        /\ log.due + PubPeriod - 1 \in Nat
    BY LogFields, TimeAssumption
  <2>2. log.moves * PubPeriod <= log.due + PubPeriod - 1
    <3>1. log.moves * PubPeriod \in Nat /\ (log.moves = 0 => log.moves * PubPeriod = 0)
      BY <2>1
    <3>2. CASE log.moves = 0
      BY <2>1, <3>1, <3>2
    <3>3. CASE log.moves > 0
      BY <2>1, <3>1, <3>3 DEF CountInv, OrderInv
    <3> QED
      BY <2>1, <3>2, <3>3
  <2> QED
    BY <2>1, <2>2, Division
<1> QED
  BY <1>1, CountInvariance, PTL

\* With ticks in time it has floor(d / period) at least, by the time its first stop
\* is decided.
THEOREM NotTooFew == Spec => []NeverTooFew
<1>1. TypeOK /\ CountInv => NeverTooFew
  BY LogFields, Division DEF CountInv, PunctualInv, NeverTooFew, FloorDiv
<1> QED
  BY <1>1, CountInvariance, PTL

\* With ticks in time, the k-th stop is decided within k periods, and the time the
\* threads may take, of the moment the motion ends.
THEOREM StopsInTime == Spec => []StopsOnTime
<1>1. TypeOK /\ CountInv => StopsOnTime
  <2> SUFFICES ASSUME TypeOK, CountInv, ~log.late, now <= tnow + InTime, NEW k \in 1..StopRepeat,
                      now > log.end + k * PubPeriod + 2 * InTime + ServeGap, log.stops < k
               PROVE  FALSE
    BY LogFields, TimeAssumption DEF StopsOnTime
  <2>1. /\ log.stops \in Nat /\ log.end \in Nat /\ PubPeriod \in Nat \ {0} /\ k \in Nat
        /\ StopRepeat \in Nat /\ InTime \in Nat /\ ServeGap \in Nat
        /\ now \in Nat /\ tnow \in Nat /\ next_pub \in Nat
    BY LogFields, TimeAssumption DEF TypeOK
  <2>2. log.stops < StopRepeat /\ log.stops + 1 <= k
    BY <2>1
  <2>3. /\ tnow <= next_pub + ServeGap + InTime
        /\ next_pub < log.end + (log.stops + 1) * PubPeriod
    BY <2>1, <2>2 DEF CountInv, PunctualInv, Slack
  <2>4. (log.stops + 1) * PubPeriod <= k * PubPeriod /\ k * PubPeriod \in Nat
        /\ (log.stops + 1) * PubPeriod \in Nat
    BY <2>1, <2>2
  <2> QED
    BY <2>1, <2>3, <2>4
<1> QED
  BY <1>1, CountInvariance, PTL

-----------------------------------------------------------------------------
(* The chain.                                                              *)

(* What the chain's steps do to each part.                                 *)

LEMMA Bounds == /\ Latency \in Nat /\ Lag \in Nat /\ Hold \in Nat /\ Limit \in Nat
                /\ Lag <= Hold /\ Hold <= Limit
                /\ StopBound = Latency + Limit + Lag
  BY ChainAssumption DEF StopBound

\* The bridge in the chain does what the bridge does.
LEMMA BridgeSteps == ASSUME [ChainNext]_chain PROVE [Next]_vars
<1>1. CASE Pass
  BY <1>1 DEF Pass, Next
<1>2. CASE BridgeStep
  BY <1>2 DEF BridgeStep, Next, Tick
<1>3. CASE Publish
  BY <1>3 DEF Publish, Next, Tick
<1>4. CASE Deliver \/ Lose \/ BoardTurn \/ BoardFails
  BY <1>4 DEF Deliver, Lose, BoardTurn, BoardFails
<1>5. CASE UNCHANGED chain
  BY <1>5 DEF chain
<1> QED
  BY <1>1, <1>2, <1>3, <1>4, <1>5 DEF ChainNext

\* So it keeps its types, and whatever else is proved of it.
LEMMA BridgeInChain == ChainSpec => [](TypeOK /\ CountInv)
<1>1. ChainInit => TypeOK /\ CountInv
  BY InitTypeOK, InitCount DEF ChainInit
<1>2. TypeOK /\ CountInv /\ [ChainNext]_chain => (TypeOK /\ CountInv)'
  BY BridgeSteps, NextTypeOK, NextCount
<1> QED
  BY <1>1, <1>2, PTL DEF ChainSpec

\* The clock moves on with Pass alone.
LEMMA ClockSteps ==
  ASSUME TypeOK, [ChainNext]_chain
  PROVE  (Pass /\ now' = now + 1) \/ UNCHANGED now
<1>1. CASE Pass
  BY <1>1 DEF Pass, Advance
<1>2. CASE BridgeStep
  BY <1>2 DEF BridgeStep, TickStart, TickEarly, TickDrive, TickStop, TickQuiet, TickDue,
     Accept, Receive, Honour, RefuseForward, SetDrive, SetStop, Set, SetBlock, Reply,
     ReplyFails, Crash, Restart
<1>3. CASE Publish
  BY <1>3 DEF Publish, TickPublish
<1>4. CASE Deliver \/ Lose \/ BoardTurn \/ BoardFails
  BY <1>4 DEF Deliver, Lose, BoardTurn, BoardFails, vars
<1>5. CASE UNCHANGED chain
  BY <1>5 DEF chain, vars
<1> QED
  BY <1>1, <1>2, <1>3, <1>4, <1>5 DEF ChainNext

-----------------------------------------------------------------------------
(* The orders.                                                             *)

\* A stop means no duty for either wheel, whatever their size.
LEMMA StopIsIdle == OrderOf(Zero) = Board!Idle
<1>1. MaxSpeed \in Nat \ {0} /\ MaxDuty \in Nat \ {0} /\ Track \in Int
  BY ChainAssumption
<1>2. 0 * Track = 0 /\ 0 * MaxDuty = 0
  BY <1>1
<1>3. W!Trunc(0, 2 * MaxSpeed) = 0
  BY <1>1 DEF W!Trunc
<1>4. Zero.lin = 0 /\ Zero.ang = 0
  BY DEF Zero
<1>5. (2 * Zero.lin - Zero.ang * Track) * MaxDuty = 0 /\ (2 * Zero.lin + Zero.ang * Track) * MaxDuty = 0
  BY <1>1, <1>2, <1>4
<1>6. W!DutyOf(Zero).left = 0 /\ W!DutyOf(Zero).right = 0
  <2> DEFINE t == W!Trunc((2 * Zero.lin + Zero.ang * Track) * MaxDuty, 2 * MaxSpeed)
  <2>1. t = 0
    BY <1>3, <1>5
  <2>2. W!DutyOf(Zero).left = 0 /\ W!DutyOf(Zero).right = -t
    BY <1>3, <1>5 DEF W!DutyOf
  <2> HIDE DEF t
  <2>3. \A n \in Int : -n = 0 - n
    OBVIOUS
  <2>4. t \in Int
    BY <2>1
  <2>5. -t = 0 - t
    BY <2>3, <2>4, Zenon
  <2> QED
    BY <2>1, <2>2, <2>5
<1>7. ~(0 > MaxDuty) /\ ~(0 < -MaxDuty)
  BY <1>1
<1>8. W!Constrain(0) = 0
  BY <1>7 DEF W!Constrain
<1> QED
  BY <1>6, <1>8 DEF OrderOf, Board!Idle

-----------------------------------------------------------------------------
(* How long ago the bridge was driving.  A message that drives was decided *)
(* while it was, an order that drives came with such a message, and a      *)
(* wheel that turns was given such an order: each is younger than the time *)
(* since, by what the link, the board's patience and its reaction allow.   *)

Message == [msg : Twist, at : Nat]

LinkType ==
  /\ topic \in Seq(Message)
  /\ silence \in Nat /\ quiet \in Nat

\* Messages arrive in the order they were sent, and within Latency.
LinkInTime ==
  /\ \A i \in 1..Len(topic) : topic[i].at <= now /\ now <= topic[i].at + Latency
  /\ \A i, j \in 1..Len(topic) : i <= j => topic[i].at <= topic[j].at

Behind ==
  /\ Driving => quiet = 0
  /\ \A i \in 1..Len(topic) : topic[i].msg # Zero => quiet <= now - topic[i].at
  /\ order # Board!Idle /\ silence <= Limit => quiet <= Latency + silence

Turning ==
  ~Board!Still =>
    /\ silence <= Limit
    /\ order = Board!Idle => silence <= Lag /\ quiet <= Latency + Limit + silence

StopInv == LinkType /\ LinkInTime /\ Behind /\ Turning

\* The link, step by step.
LEMMA LinkSteps ==
  ASSUME TypeOK, LinkType, [ChainNext]_chain
  PROVE  \/ UNCHANGED topic
         \/ Publish
         \/ topic # <<>> /\ topic' = Tail(topic) /\ UNCHANGED now
<1>1. CASE Pass
  BY <1>1 DEF Pass, link
<1>2. CASE BridgeStep
  BY <1>2 DEF BridgeStep, link
<1>3. CASE Deliver
  BY <1>3 DEF Deliver, vars
<1>4. CASE Lose
  BY <1>4 DEF Lose, vars
<1>5. CASE BoardTurn \/ BoardFails
  BY <1>5 DEF BoardTurn, BoardFails, link
<1>6. CASE UNCHANGED chain
  BY <1>6 DEF chain, link
<1> QED
  BY <1>1, <1>2, <1>3, <1>4, <1>5, <1>6 DEF ChainNext

\* The counter of the time since the bridge drove.
LEMMA QuietSteps ==
  ASSUME TypeOK, LinkType, [ChainNext]_chain
  PROVE  /\ quiet' \in Nat
         /\ Behind => (Driving' => quiet' = 0)
         /\ quiet' <= quiet + 1
         /\ UNCHANGED now => quiet' <= quiet
<1>1. StopBound \in Nat /\ quiet \in Nat
  BY Bounds DEF LinkType
<1>2. CASE \E f \in BOOLEAN : History(f)
  BY <1>1, <1>2 DEF History, CountTo
<1>3. CASE UNCHANGED chain
  <2>1. UNCHANGED quiet /\ (Driving' => Driving)
    BY <1>3 DEF chain, vars, latch, timer, Driving, Goal, Moving
  <2> QED
    BY <1>1, <2>1 DEF Behind
<1>4. ChainNext => \E f \in BOOLEAN : History(f)
  BY DEF ChainNext, Pass, BridgeStep, Publish, Deliver, Lose, BoardTurn, BoardFails
<1> QED
  BY <1>2, <1>3, <1>4

LEMMA NextLinkType == ASSUME TypeOK, LinkType, [ChainNext]_chain PROVE LinkType'
<1>1. quiet' \in Nat
  BY QuietSteps
<1>2. topic' \in Seq(Message)
  <2>1. CASE Publish
    <3>1. [msg |-> out, at |-> now] \in Message
      BY DEF TypeOK, Message
    <3> QED
      BY <2>1, <3>1 DEF Publish, LinkType
  <2>2. CASE UNCHANGED topic
    BY <2>2 DEF LinkType
  <2>3. CASE topic # <<>> /\ topic' = Tail(topic)
    <3>1. topic \in Seq(Message)
      BY DEF LinkType
    <3> QED
      BY <2>3, <3>1
  <2> QED
    BY <2>1, <2>2, <2>3, LinkSteps
<1>3. silence' \in Nat
  <2>1. CASE Pass
    BY <2>1 DEF Pass, Board!Pass, LinkType
  <2>2. CASE BridgeStep \/ Publish \/ Lose
    BY <2>2 DEF BridgeStep, Publish, Lose, board, LinkType
  <2>3. CASE Deliver
    BY <2>3 DEF Deliver, Board!Hear
  <2>4. CASE BoardTurn
    BY <2>4 DEF BoardTurn, Board!Turn, LinkType
  <2>5. CASE BoardFails
    BY <2>5 DEF BoardFails, Board!Fail
  <2>6. CASE UNCHANGED chain
    BY <2>6 DEF chain, board, LinkType
  <2> QED
    BY <2>1, <2>2, <2>3, <2>4, <2>5, <2>6 DEF ChainNext
<1> QED
  BY <1>1, <1>2, <1>3 DEF LinkType

\* A message that was on its way before, and where it was then.
LEMMA Queue ==
  ASSUME LinkType, topic # <<>>
  PROVE  /\ 1 \in 1..Len(topic) /\ Head(topic) = topic[1]
         /\ Tail(topic) \in Seq(Message) /\ Len(Tail(topic)) = Len(topic) - 1
         /\ \A i \in 1..Len(Tail(topic)) : i + 1 \in 1..Len(topic) /\ Tail(topic)[i] = topic[i + 1]
  BY DEF LinkType

LEMMA Queued ==
  ASSUME LinkType, NEW m \in Message
  PROVE  /\ Len(Append(topic, m)) = Len(topic) + 1
         /\ \A i \in 1..Len(topic) : Append(topic, m)[i] = topic[i]
         /\ Append(topic, m)[Len(topic) + 1] = m
  BY DEF LinkType

LEMMA Stamped ==
  ASSUME LinkType, NEW i \in 1..Len(topic)
  PROVE  topic[i] \in Message /\ topic[i].at \in Nat
<1>1. topic[i] \in Message
  BY DEF LinkType
<1> QED
  BY <1>1 DEF Message

-----------------------------------------------------------------------------
(* The link delivers in order and in time.                                 *)

LEMMA NextInTime ==
  ASSUME TypeOK, LinkType, LinkInTime, [ChainNext]_chain
  PROVE  LinkInTime'
<1> USE Bounds
<1>0. now \in Nat
  BY DEF TypeOK
<1>1. CASE Publish
  <2> DEFINE m == [msg |-> out, at |-> now]
  <2>1. topic' = Append(topic, m) /\ m \in Message /\ m.at = now /\ now' = now
    BY <1>1 DEF Publish, TickPublish, TypeOK, Message
  <2> HIDE DEF m
  <2>2. Len(topic') = Len(topic) + 1 /\ Len(topic) \in Nat
    BY <2>1, Queued DEF LinkType
  <2>3. \A i \in 1..Len(topic') : topic'[i] = IF i = Len(topic) + 1 THEN m ELSE topic[i]
    BY <2>1, <2>2, Queued
  <2>4. \A i \in 1..Len(topic') : topic'[i].at = IF i \in 1..Len(topic) THEN topic[i].at ELSE now
    BY <2>1, <2>2, <2>3
  <2>5. \A i \in 1..Len(topic') : topic'[i].at <= now /\ now <= topic'[i].at + Latency
    <3>1. now <= now /\ now <= now + Latency
      BY <1>0
    <3> QED
      BY <2>4, <3>1 DEF LinkInTime
  <2>6. ASSUME NEW i \in 1..Len(topic'), NEW j \in 1..Len(topic'), i <= j
        PROVE  topic'[i].at <= topic'[j].at
    <3>1. CASE j \in 1..Len(topic)
      <4>1. i \in 1..Len(topic)
        BY <2>2, <2>6, <3>1
      <4> QED
        BY <2>4, <2>6, <3>1, <4>1 DEF LinkInTime
    <3>2. CASE j \notin 1..Len(topic)
      BY <2>4, <2>5, <2>6, <3>2
    <3> QED
      BY <3>1, <3>2
  <2> QED
    BY <2>1, <2>5, <2>6 DEF LinkInTime
<1>2. CASE topic # <<>> /\ topic' = Tail(topic) /\ UNCHANGED now
  BY <1>2, Queue DEF LinkInTime, LinkType
<1>3. CASE UNCHANGED topic /\ UNCHANGED now
  BY <1>3 DEF LinkInTime
<1>4. CASE UNCHANGED topic /\ Pass /\ now' = now + 1
  <2>1. SUFFICES ASSUME NEW i \in 1..Len(topic)
                 PROVE  topic[i].at <= now + 1 /\ now + 1 <= topic[i].at + Latency
    BY <1>4 DEF LinkInTime
  <2>2. topic # <<>> /\ 1 \in 1..Len(topic) /\ 1 <= i /\ Head(topic) = topic[1]
    BY Queue DEF LinkType
  <2>3. now < topic[1].at + Latency
    BY <1>4, <2>2 DEF Pass
  <2>4. topic[1].at <= topic[i].at /\ topic[i].at <= now
    BY <2>2 DEF LinkInTime
  <2>5. topic[1].at \in Nat /\ topic[i].at \in Nat
    BY <2>2, Stamped
  <2>6. ASSUME NEW x \in Nat, NEW y \in Nat, now < x + Latency, x <= y, y <= now
        PROVE  y <= now + 1 /\ now + 1 <= y + Latency
    BY <1>0, <2>6
  <2> QED
    BY <2>3, <2>4, <2>5, <2>6
<1> QED
  BY <1>1, <1>2, <1>3, <1>4, LinkSteps, ClockSteps

-----------------------------------------------------------------------------
(* The time since the bridge drove.                                        *)

\* What is published was decided while driving.
LEMMA PublishedDriving ==
  ASSUME Publish, Behind
  PROVE  out # Zero => quiet = 0
  BY DEF Publish, Behind, Driving

LEMMA NextMessagesBehind ==
  ASSUME TypeOK, LinkType, Behind, [ChainNext]_chain
  PROVE  \A i \in 1..Len(topic') : topic'[i].msg # Zero => quiet' <= now' - topic'[i].at
<1>0. now \in Nat /\ quiet \in Nat /\ quiet' \in Nat
      /\ quiet' <= quiet + 1 /\ (UNCHANGED now => quiet' <= quiet)
  BY QuietSteps DEF TypeOK, LinkType
<1>1. CASE Publish
  <2> DEFINE m == [msg |-> out, at |-> now]
  <2>1. topic' = Append(topic, m) /\ m \in Message /\ m.at = now /\ m.msg = out /\ now' = now
    BY <1>1 DEF Publish, TickPublish, TypeOK, Message
  <2> HIDE DEF m
  <2>2. Len(topic') = Len(topic) + 1 /\ Len(topic) \in Nat
    BY <2>1, Queued DEF LinkType
  <2>3. \A i \in 1..Len(topic') :
          /\ i \in 1..Len(topic) => topic'[i] = topic[i]
          /\ i \notin 1..Len(topic) => topic'[i] = m
    BY <2>1, <2>2, Queued
  <2>4. out # Zero => quiet' <= now' - now
    BY <1>0, <1>1, <2>1, PublishedDriving
  <2>5. ASSUME NEW i \in 1..Len(topic), topic[i].msg # Zero PROVE quiet' <= now' - topic[i].at
    BY <1>0, <2>1, <2>5, Stamped DEF Behind
  <2> QED
    BY <2>1, <2>3, <2>4, <2>5
<1>2. CASE topic # <<>> /\ topic' = Tail(topic) /\ UNCHANGED now
  <2>1. SUFFICES ASSUME NEW i \in 1..Len(topic'), topic'[i].msg # Zero
                 PROVE  quiet' <= now' - topic'[i].at
    OBVIOUS
  <2>2. i + 1 \in 1..Len(topic) /\ topic'[i] = topic[i + 1]
    BY <1>2, Queue
  <2>3. quiet <= now - topic[i + 1].at /\ topic[i + 1].at \in Nat
    BY <2>1, <2>2, Stamped DEF Behind
  <2> QED
    BY <1>0, <1>2, <2>2, <2>3
<1>3. CASE UNCHANGED topic /\ (now' = now + 1 \/ UNCHANGED now)
  <2>1. SUFFICES ASSUME NEW i \in 1..Len(topic), topic[i].msg # Zero
                 PROVE  quiet' <= now' - topic[i].at
    BY <1>3
  <2>2. quiet <= now - topic[i].at /\ topic[i].at \in Nat
    BY <2>1, Stamped DEF Behind
  <2> QED
    BY <1>0, <1>3, <2>2
<1> QED
  BY <1>1, <1>2, <1>3, LinkSteps, ClockSteps

\* The board, step by step.
LEMMA BoardSteps ==
  ASSUME [ChainNext]_chain
  PROVE  \/ UNCHANGED board
         \/ Deliver /\ Board!Hear(OrderOf(Head(topic).msg)) /\ topic # <<>> /\ UNCHANGED now
         \/ Board!Turn /\ UNCHANGED now
         \/ Board!Fail /\ UNCHANGED now
         \/ Board!Pass /\ Pass
<1>1. CASE Pass
  BY <1>1 DEF Pass
<1>2. CASE BridgeStep \/ Publish \/ Lose
  BY <1>2 DEF BridgeStep, Publish, Lose
<1>3. CASE Deliver
  BY <1>3 DEF Deliver, vars
<1>4. CASE BoardTurn \/ BoardFails
  BY <1>4 DEF BoardTurn, BoardFails, vars
<1>5. CASE UNCHANGED chain
  BY <1>5 DEF chain
<1> QED
  BY <1>1, <1>2, <1>3, <1>4, <1>5 DEF ChainNext

\* What the board is told has not been on its way for longer than Latency.
LEMMA Told ==
  ASSUME TypeOK, LinkType, LinkInTime, Behind, topic # <<>>,
         OrderOf(Head(topic).msg) # Board!Idle
  PROVE  quiet <= Latency
<1>1. 1 \in 1..Len(topic) /\ Head(topic) = topic[1]
  BY Queue
<1>2. topic[1].msg # Zero
  BY <1>1, StopIsIdle
<1>3. quiet <= now - topic[1].at /\ now <= topic[1].at + Latency
  BY <1>1, <1>2 DEF Behind, LinkInTime
<1>4. topic[1].at \in Nat /\ now \in Nat /\ quiet \in Nat /\ Latency \in Nat
  BY <1>1, Stamped, Bounds DEF TypeOK, LinkType
<1> QED
  BY <1>3, <1>4

LEMMA NextOrderBehind ==
  ASSUME TypeOK, LinkType, LinkInTime, Behind, [ChainNext]_chain
  PROVE  (order # Board!Idle /\ silence <= Limit => quiet <= Latency + silence)'
<1> USE Bounds
<1>0. /\ silence \in Nat /\ quiet \in Nat /\ quiet' \in Nat
      /\ quiet' <= quiet + 1 /\ (UNCHANGED now => quiet' <= quiet)
  BY QuietSteps DEF LinkType
<1>1. CASE Board!Pass /\ Pass
  BY <1>0, <1>1 DEF Board!Pass, Behind
<1>2. CASE Deliver /\ Board!Hear(OrderOf(Head(topic).msg)) /\ topic # <<>> /\ UNCHANGED now
  <2>1. order' = OrderOf(Head(topic).msg) /\ silence' = 0
    BY <1>2 DEF Board!Hear
  <2> QED
    BY <1>0, <1>2, <2>1, Told DEF Board!Idle
<1>3. CASE Board!Turn /\ UNCHANGED now
  BY <1>0, <1>3 DEF Board!Turn, Board!Idle, Behind
<1>4. CASE Board!Fail
  BY <1>4 DEF Board!Fail, Board!Idle
<1>5. CASE UNCHANGED board
  <2>1. UNCHANGED <<order, silence>>
    BY <1>5 DEF board
  <2>2. CASE UNCHANGED now
    BY <1>0, <2>1, <2>2 DEF Board!Idle, Behind
  <2>3. CASE Pass
    \* The board lets time pass too.
    BY <1>0, <2>1, <2>3 DEF Pass, Board!Pass, Board!Idle, Behind
  <2> QED
    BY <2>2, <2>3, ClockSteps
<1> QED
  BY <1>1, <1>2, <1>3, <1>4, <1>5, BoardSteps

\* A wheel that turns obeys an order that drives, or one that did a moment ago.
LEMMA NextTurning ==
  ASSUME TypeOK, LinkType, LinkInTime, Behind, Turning, [ChainNext]_chain
  PROVE  Turning'
<1> USE Bounds
<1>0. /\ silence \in Nat /\ quiet \in Nat /\ quiet' \in Nat
      /\ quiet' <= quiet + 1 /\ (UNCHANGED now => quiet' <= quiet)
  BY QuietSteps DEF LinkType
<1>1. CASE Board!Pass /\ Pass
  <2>1. SUFFICES ASSUME ~Board!Still'
                 PROVE  /\ silence' <= Limit
                        /\ order' = Board!Idle => silence' <= Lag /\ quiet' <= Latency + Limit + silence'
    BY DEF Turning, Board!Idle
  <2>2. /\ ~Board!Still /\ silence < Limit /\ silence' = silence + 1
        /\ UNCHANGED <<order, left, right>>
        /\ silence \in Lag..Hold => Board!Obeys
    BY <1>0, <1>1, <2>1 DEF Board!Pass, Board!Still
  <2>3. ASSUME order = Board!Idle PROVE silence < Lag /\ quiet <= Latency + Limit + silence
    <3>1. ~Board!Obeys
      BY <2>2, <2>3 DEF Board!Obeys, Board!Still, Board!Idle
    <3>2. silence <= Lag /\ silence \notin Lag..Hold
      BY <2>2, <2>3, <3>1 DEF Turning
    <3> QED
      BY <1>0, <2>2, <2>3, <3>2 DEF Turning
  <2> QED
    BY <1>0, <2>2, <2>3
<1>2. CASE Deliver /\ Board!Hear(OrderOf(Head(topic).msg)) /\ topic # <<>> /\ UNCHANGED now
  <2>1. silence' = 0 /\ UNCHANGED <<left, right>> /\ Board!Settled
    BY <1>2 DEF Board!Hear
  <2>2. SUFFICES ASSUME ~Board!Still PROVE quiet <= Latency + Limit
    BY <1>0, <1>2, <2>1 DEF Turning, Board!Still, Board!Idle
  <2>3. silence <= Limit
    BY <2>2 DEF Turning
  <2>4. CASE order = Board!Idle
    \* It would have to have settled.
    <3>1. ~Board!Obeys
      BY <2>2, <2>4 DEF Board!Obeys, Board!Still, Board!Idle
    <3>2. silence > Hold /\ silence <= Lag
      BY <2>1, <2>2, <2>4, <3>1 DEF Board!Settled, Turning
    <3> QED
      BY <1>0, <3>2
  <2>5. CASE order # Board!Idle
    BY <1>0, <2>3, <2>5 DEF Behind
  <2> QED
    BY <2>4, <2>5
<1>3. CASE Board!Turn /\ UNCHANGED now
  <2>1. /\ UNCHANGED <<order, silence>>
        /\ left' \in Board!May(left, order.left) /\ right' \in Board!May(right, order.right)
    BY <1>3 DEF Board!Turn
  <2>2. SUFFICES ASSUME ~Board!Still'
                 PROVE  /\ silence <= Limit
                        /\ order = Board!Idle => silence <= Lag /\ quiet <= Latency + Limit + silence
    BY <1>0, <1>3, <2>1 DEF Turning, Board!Idle
  <2>3. CASE ~Board!Still
    BY <2>3 DEF Turning
  <2>4. CASE Board!Still
    \* A wheel sets out, so it is told to.
    <3>1. silence <= Lag /\ (order.left # 0 \/ order.right # 0)
      BY <1>0, <2>1, <2>2, <2>4 DEF Board!May, Board!Still
    <3> QED
      BY <1>0, <3>1 DEF Board!Idle
  <2> QED
    BY <2>3, <2>4
<1>4. CASE Board!Fail
  BY <1>4 DEF Board!Fail, Board!Still, Turning
<1>5. CASE UNCHANGED board
  <2>1. UNCHANGED <<order, left, right, silence>>
    BY <1>5 DEF board
  <2>2. CASE UNCHANGED now
    BY <1>0, <2>1, <2>2 DEF Turning, Board!Still, Board!Idle
  <2>3. CASE Pass
    BY <1>0, <2>1, <2>3 DEF Pass, Board!Pass, Turning, Board!Still, Board!Idle
  <2> QED
    BY <2>2, <2>3, ClockSteps
<1> QED
  BY <1>1, <1>2, <1>3, <1>4, <1>5, BoardSteps

LEMMA StopInvariance == ChainSpec => [](TypeOK /\ StopInv)
<1>1. ChainInit => TypeOK /\ StopInv
  <2> SUFFICES ASSUME ChainInit PROVE TypeOK /\ StopInv
    OBVIOUS
  <2>1. TypeOK
    BY InitTypeOK DEF ChainInit
  <2>2. topic = <<>> /\ quiet = 0 /\ order = Board!Idle /\ Board!Still /\ silence = 0
    BY DEF ChainInit, Board!Init, Board!Still
  <2> QED
    BY <2>1, <2>2 DEF StopInv, LinkType, LinkInTime, Behind, Turning
<1>2. TypeOK /\ StopInv /\ [ChainNext]_chain => (TypeOK /\ StopInv)'
  <2> SUFFICES ASSUME TypeOK, StopInv, [ChainNext]_chain PROVE TypeOK' /\ StopInv'
    OBVIOUS
  <2>1. TypeOK'
    BY BridgeSteps, NextTypeOK
  <2>2. LinkType' /\ LinkInTime'
    BY NextLinkType, NextInTime DEF StopInv
  <2>3. Behind'
    BY QuietSteps, NextMessagesBehind, NextOrderBehind DEF StopInv, Behind
  <2>4. Turning'
    BY NextTurning DEF StopInv
  <2> QED
    BY <2>1, <2>2, <2>3, <2>4 DEF StopInv
<1> QED
  BY <1>1, <1>2, PTL DEF ChainSpec

\* Whatever the link loses and whoever dies, the wheels stand still StopBound
\* after the bridge was last driving.
THEOREM ChainStops == ChainSpec => []WheelsStop
<1>1. TypeOK /\ StopInv => WheelsStop
  <2> SUFFICES ASSUME StopInv, ~Board!Still PROVE quiet <= StopBound
    BY Bounds DEF WheelsStop, StopInv, LinkType
  <2>1. silence \in Nat /\ quiet \in Nat /\ silence <= Limit
    BY DEF StopInv, LinkType, Turning
  <2>2. CASE order = Board!Idle
    BY <2>1, <2>2, Bounds DEF StopInv, Turning
  <2>3. CASE order # Board!Idle
    BY <2>1, <2>3, Bounds DEF StopInv, Behind
  <2> QED
    BY <2>2, <2>3
<1> QED
  BY <1>1, StopInvariance, PTL


-----------------------------------------------------------------------------
(* The wheels follow.  Since anything changed that they must follow, or,    *)
(* while they do, since the board heard of it last, the bridge has decided  *)
(* on a message in every period.  Each of them was lost, is on its way, or  *)
(* is about to be published; and only MaxLost were lost.                    *)

Periods(n) == n * PubPeriod

\* The time within which the board hears what it is to do.
OrderBound == (MaxLost + 1) * PubPeriod + 2 * TickGap + Latency

Pub == IF tpc = "publish" THEN 1 ELSE 0

\* Does the board hold the order it is to hold?
Right == order = OrderOf(Goal)
Age == IF Right /\ silence < steady THEN silence ELSE steady

\* In the last c units of time n messages were lost, apart from those that are
\* still in the topic or about to be published; with n = -k the first k of these
\* are older than that.
Counted(c, n) ==
  /\ Moving \/ stops_left > 0 =>
       next_pub + c <= now + Periods(n + Len(topic) + Pub + 1)
  /\ \A i \in 1..Len(topic) :
       n + i > 0 => topic[i].at + c <= now + Periods(n + i) + 2 * TickGap
  /\ tpc = "publish" => tnow + c <= now + Periods(n + Len(topic) + 1) + TickGap
  /\ StopRepeat - stops_left <= n + Len(topic) + Pub

\* After a message that is not what is in force now, in the topic or about to be
\* published, ...
Ahead == Ordered => \A k \in 1..Len(topic) : topic[k].msg # Goal => Counted(steady, -k)
Decided == Ordered /\ tpc = "publish" /\ out # Goal => Counted(steady, -(Len(topic) + 1))

\* ... and after what the board has heard.
Heard == Ordered /\ lost <= MaxLost /\ (~Right \/ Moving) => Counted(Age, lost)

\* An order that is right is taken up.
Settles == silence \in (Lag + 1)..Hold => Board!Obeys
Follow == Right /\ ~Board!Obeys => silence > Hold \/ steady <= OrderBound + silence

FollowType == steady \in Nat /\ lost \in Nat

\* The bridge's ticks, and the publication that is due.
Ticking ==
  /\ up => now <= tnow + TickGap
  /\ Ordered => up
  /\ next_pub <= now + PubPeriod
  /\ tnow < until => stops_left = StopRepeat
  /\ until > 0 => lin # 0 \/ ang # 0
  /\ until <= now => steady + until <= now
  /\ steady > 0 => lost <= MaxLost
  /\ steady > PubPeriod => Ordered
  /\ Ordered /\ tpc # "lock" => tnow <= next_pub \/ steady + tnow <= now + ServeGap
  /\ Ordered /\ tpc = "lock" => tnow <= next_pub + TickGap \/ steady + tnow <= now + PubPeriod

FollowInv == FollowType /\ Ticking /\ Settles /\ Ahead /\ Decided /\ Heard /\ Follow

LEMMA Gaps ==
  /\ PubPeriod \in Nat \ {0} /\ TickGap \in Nat \ {0} /\ ServeGap \in Nat
  /\ StopRepeat \in Nat \ {0} /\ MaxLost \in Nat /\ MaxLost < StopRepeat
  /\ TickGap + ServeGap <= PubPeriod
  BY TimeAssumption, ChainAssumption

LEMMA PeriodsAre ==
  /\ \A n \in Int : Periods(n) \in Int /\ Periods(n + 1) = Periods(n) + PubPeriod
  /\ Periods(0) = 0 /\ Periods(1) = PubPeriod
  /\ \A n \in Nat : Periods(n) >= 0
  /\ \A m, n \in Int : m <= n => Periods(m) <= Periods(n)
<1>1. \A n \in Int : n * PubPeriod \in Int /\ (n + 1) * PubPeriod = n * PubPeriod + PubPeriod
  BY Gaps
<1>2. \A n \in Nat : n * PubPeriod >= 0
  BY Gaps
<1>3. ASSUME NEW m \in Int, NEW n \in Int, m <= n PROVE m * PubPeriod <= n * PubPeriod
  <2>1. (n - m) * PubPeriod >= 0
    BY <1>2, <1>3
  <2>2. (n - m) * PubPeriod = n * PubPeriod - m * PubPeriod
    BY Gaps
  <2> QED
    BY <1>1, <2>1, <2>2
<1>4. 0 * PubPeriod = 0 /\ 1 * PubPeriod = PubPeriod
  BY Gaps
<1> QED
  BY <1>1, <1>2, <1>3, <1>4 DEF Periods

LEMMA OrderBounds ==
  /\ OrderBound \in Nat /\ OrderBound = Periods(MaxLost + 1) + 2 * TickGap + Latency
  /\ OrderBound <= Hold /\ FollowBound = OrderBound + Lag
  /\ PubPeriod + TickGap <= OrderBound /\ PubPeriod < FollowBound
<1>1. Periods(1) <= Periods(MaxLost + 1) /\ Periods(MaxLost + 1) \in Int
  <2>1. 1 \in Int /\ MaxLost + 1 \in Int /\ 1 <= MaxLost + 1
    BY Gaps
  <2> QED
    BY <2>1, PeriodsAre
<1>2. (MaxLost + 1) * PubPeriod = Periods(MaxLost + 1)
  BY DEF Periods
<1> QED
  BY <1>1, <1>2, Gaps, PeriodsAre, Bounds, ChainAssumption DEF OrderBound, FollowBound

-----------------------------------------------------------------------------
(* What the steps do to the counts.  same: nothing that is in force changes. *)

Same == Ordered /\ Goal' = Goal /\ up' = up

LEMMA SteadySteps ==
  ASSUME TypeOK, FollowType, Ticking, [ChainNext]_chain
  PROVE  /\ steady' \in Nat /\ lost' \in Nat
         /\ steady' <= steady + (now' - now)
         /\ steady' # 0 => /\ Goal' = Goal /\ up' = up /\ lost' <= MaxLost
                           /\ Ordered \/ UNCHANGED chain
                           /\ ~(spc = "set" /\ spc' = "reply")
         /\ BoardFails => steady' = 0
<1>1. FollowBound \in Int /\ MaxLost \in Nat /\ now \in Nat /\ steady \in Nat /\ lost \in Nat
  BY OrderBounds, Bounds, Gaps DEF FollowType, TypeOK
<1>2. lost' \in Nat
  <2>1. UNCHANGED lost \/ lost' = 0 \/ lost' = CountTo(MaxLost, lost)
    BY DEF ChainNext, Pass, BridgeStep, Publish, Deliver, Lose, BoardTurn, BoardFails, link, chain
  <2> QED
    BY <1>1, <2>1 DEF CountTo
<1>3. CASE UNCHANGED chain
  <2>1. UNCHANGED <<steady, lost, now, up, spc>> /\ Goal' = Goal
    BY <1>3 DEF chain, vars, latch, server, link, Goal, Moving
  <2>2. ~BoardFails \/ steady' = 0
    BY DEF BoardFails, History
  <2> QED
    BY <1>1, <1>2, <1>3, <2>1, <2>2 DEF Ticking
<1>4. CASE ChainNext
  <2>1. PICK f \in BOOLEAN : History(f) /\ (BoardFails => f)
    BY <1>4 DEF ChainNext, Pass, BridgeStep, Publish, Deliver, Lose, BoardTurn, BoardFails
  <2>2. now' = now \/ now' = now + 1
    BY ClockSteps
  <2>3. \/ steady' = 0
        \/ ~(Upset \/ f \/ ~Ordered \/ lost' > MaxLost) /\ now' = now /\ steady' = steady
        \/ ~(Upset \/ f \/ ~Ordered \/ lost' > MaxLost) /\ now' = now + 1 /\ steady' = CountTo(FollowBound, steady)
    BY <1>1, <2>1, <2>2 DEF History
  <2>4. BoardFails => steady' = 0
    BY <2>1 DEF BoardFails, History
  <2> QED
    BY <1>1, <1>2, <2>2, <2>3, <2>4 DEF Upset, CountTo
<1> QED
  BY <1>3, <1>4

\* The kinds of steps.
Rests ==
  /\ UNCHANGED <<topic, stops_left, Pub, until>>
  /\ tpc' = "publish" => UNCHANGED <<tnow, out>>
  /\ Moving' \/ stops_left > 0 => Moving \/ stops_left > 0
  /\ Moving' \/ stops_left > 0 => UNCHANGED next_pub
Decides ==
  /\ UNCHANGED <<topic, until, lin, ang, tnow, now>>
  /\ tpc = "lock" /\ tpc' = "publish"
  /\ tnow >= next_pub /\ next_pub' = NextPub(tnow)
  /\ \/ tnow < until /\ stops_left' = stops_left /\ out' = [lin |-> lin, ang |-> ang]
     \/ tnow >= until /\ stops_left > 0 /\ stops_left' = stops_left - 1 /\ out' = Zero
Publishes ==
  /\ UNCHANGED <<until, tnow, now, stops_left, next_pub>>
  /\ topic' = Append(topic, [msg |-> out, at |-> now])
  /\ tpc = "publish" /\ tpc' = "idle"
Takes == topic # <<>> /\ topic' = Tail(topic) /\ UNCHANGED <<vars, Moving>>
Rearms ==
  /\ UNCHANGED <<topic, timer, now>>
  /\ stops_left' = StopRepeat
  /\ next_pub' = snow
  /\ spc \in {"set", "block"}
  /\ steady' = 0 \/ (spc = "block" /\ snow < until /\ until <= now)

LEMMA StepKinds ==
  ASSUME TypeOK, FollowType, Ticking, [ChainNext]_chain, Same
  PROVE  (Rests \/ Decides \/ Publishes \/ Takes \/ Rearms) \/ ~Ordered'
<1>0. now \in Nat /\ until \in Nat
  BY DEF TypeOK
<1>1. CASE Pass
  BY <1>0, <1>1 DEF Pass, Advance, Rests, link, latch, timer, Pub, Moving
<1>2. CASE BridgeStep
  <2>1. UNCHANGED topic
    BY <1>2 DEF BridgeStep, link
  <2>2. CASE TickStart
    BY <2>1, <2>2 DEF TickStart, latch, Rests, Pub, Moving
  <2>3. CASE TickEarly
    BY <2>1, <2>3 DEF TickEarly, latch, Rests, Pub, Moving
  <2>4. CASE TickDrive
    BY <2>1, <2>4 DEF TickDrive, TickDue, Decides
  <2>5. CASE TickStop
    BY <2>1, <2>5 DEF TickStop, TickDue, Decides
  <2>6. CASE TickQuiet
    <3>1. ~Moving /\ ~Moving'
      BY <1>0, <2>6 DEF TickQuiet, TickDue, Moving, TypeOK
    <3> QED
      BY <2>1, <2>6, <3>1 DEF TickQuiet, TickDue, Rests, Pub
  <2>7. CASE Accept \/ (\E r \in Request : Receive(r)) \/ RefuseForward \/ Reply \/ ReplyFails
    BY <2>1, <2>7 DEF Accept, Receive, RefuseForward, Reply, ReplyFails, latch, timer, Rests, Pub, Moving
  <2>8. CASE SetDrive \/ SetStop
    <3>1. steady' = 0
      BY <2>8, SteadySteps DEF SetDrive, SetStop, Set, Done
    <3> QED
      BY <2>1, <2>8, <3>1 DEF SetDrive, SetStop, Set, Rearms
  <2>9. CASE SetBlock
    <3>1. CASE Cuts(req.on)
      <4>1. lin > 0 /\ snow < until /\ UNCHANGED <<now, lin, ang>> /\ until' = 0
        BY <2>9, <3>1 DEF SetBlock, Cuts
      <4>2. lin \in Int
        BY SpeedAssumption DEF TypeOK
      <4>3. ~Moving
        BY <1>0, <4>1, <4>2 DEF Same, Goal, Moving, Zero
      <4> QED
        BY <1>0, <2>1, <2>9, <3>1, <4>1, <4>3 DEF SetBlock, Rearms, Moving
    <3>2. CASE ~Cuts(req.on)
      BY <2>1, <2>9, <3>2 DEF SetBlock, timer, Rests, Pub, Moving
    <3> QED
      BY <3>1, <3>2
  <2>10. CASE Crash \/ Restart
    BY <2>10 DEF Crash, Restart, Same
  <2> QED
    BY <1>2, <2>2, <2>3, <2>4, <2>5, <2>6, <2>7, <2>8, <2>9, <2>10 DEF BridgeStep, Honour
<1>3. CASE Publish
  BY <1>3 DEF Publish, TickPublish, latch, Publishes
<1>4. CASE Deliver \/ Lose
  BY <1>4 DEF Deliver, Lose, Takes, vars, latch, Moving
<1>5. CASE BoardTurn \/ BoardFails
  BY <1>5 DEF BoardTurn, BoardFails, vars, link, latch, timer, Rests, Pub, Moving
<1>6. CASE UNCHANGED chain
  BY <1>6 DEF chain, vars, link, latch, timer, Rests, Pub, Moving
<1> QED
  BY <1>1, <1>2, <1>3, <1>4, <1>5, <1>6 DEF ChainNext

\* A new order, a motion that is over and a cut one find all the stops to come.
LEMMA Rearmed ==
  ASSUME TypeOK, FollowType, Ticking, [ChainNext]_chain, Ordered', ~Same
  PROVE  steady' = 0 /\ stops_left' = StopRepeat
<1>0. now \in Nat /\ until \in Nat /\ tnow \in Nat /\ tnow <= now
  BY DEF TypeOK
<1>1. CASE Pass
  <2>1. UNCHANGED <<up, until, lin, ang, stops_left, log>> /\ now' = now + 1
    BY <1>1 DEF Pass, Advance, latch
  <2>2. Ordered
    BY <2>1 DEF Ordered
  <2>3. Goal' # Goal
    BY <2>1, <2>2 DEF Same
  <2>4. Moving
    BY <1>0, <2>1, <2>3 DEF Goal, Moving
  <2>5. stops_left = StopRepeat
    BY <1>0, <2>4 DEF Moving, Ticking
  <2>6. steady' = 0
    BY <2>3, SteadySteps
  <2> QED
    BY <2>1, <2>5, <2>6
<1>2. CASE BridgeStep
  <2>1. CASE TickStart \/ TickEarly \/ TickDrive \/ TickStop \/ TickQuiet
    <3>1. UNCHANGED <<up, now, until, lin, ang, log.due, log.end>>
      BY <2>1 DEF TickStart, TickEarly, TickDrive, TickStop, TickQuiet, TickDue, latch, TypeOK, LogType
    <3> QED
      BY <3>1 DEF Same, Ordered, Goal, Moving
  <2>2. CASE Accept \/ (\E r \in Request : Receive(r)) \/ RefuseForward \/ Reply \/ ReplyFails
    <3>1. UNCHANGED <<up, now, until, lin, ang, log>>
      BY <2>2 DEF Accept, Receive, RefuseForward, Reply, ReplyFails, latch
    <3> QED
      BY <3>1 DEF Same, Ordered, Goal, Moving
  <2>3. CASE SetDrive \/ SetStop
    <3>1. steady' = 0
      BY <2>3, SteadySteps DEF SetDrive, SetStop, Set, Done
    <3> QED
      BY <2>3, <3>1 DEF SetDrive, SetStop, Set
  <2>4. CASE SetBlock
    <3>1. CASE Cuts(req.on)
      <4>1. steady' = 0
        BY <1>2, <2>4, <3>1, SteadySteps DEF SetBlock, Same, chain, vars, server, Done
      <4> QED
        BY <2>4, <3>1, <4>1 DEF SetBlock
    <3>2. CASE ~Cuts(req.on)
      <4>1. UNCHANGED <<up, now, until, lin, ang, log.due, log.end>>
        BY <2>4, <3>2 DEF SetBlock, TypeOK, LogType
      <4> QED
        BY <4>1 DEF Same, Ordered, Goal, Moving
    <3> QED
      BY <3>1, <3>2
  <2>5. CASE Crash \/ Restart
    <3>1. log'.due = 0 /\ log'.end = 0
      BY <2>5 DEF Crash, Restart, Fresh
    <3> QED
      BY <3>1 DEF Ordered
  <2> QED
    BY <1>2, <2>1, <2>2, <2>3, <2>4, <2>5 DEF BridgeStep, Honour
<1>3. CASE Publish
  <2>1. UNCHANGED <<up, now, until, lin, ang, log.due, log.end>>
    BY <1>3 DEF Publish, TickPublish, latch, TypeOK, LogType
  <2> QED
    BY <2>1 DEF Same, Ordered, Goal, Moving
<1>4. CASE Deliver \/ Lose \/ BoardTurn \/ BoardFails \/ UNCHANGED chain
  <2>1. UNCHANGED <<up, now, until, lin, ang, log>>
    BY <1>4 DEF Deliver, Lose, BoardTurn, BoardFails, chain, vars, latch
  <2> QED
    BY <2>1 DEF Same, Ordered, Goal, Moving
<1> QED
  BY <1>1, <1>2, <1>3, <1>4 DEF ChainNext

-----------------------------------------------------------------------------
(* What the steps do to a count.                                           *)

CountedNext(c, n) ==
  /\ Moving' \/ stops_left' > 0 =>
       next_pub' + c <= now' + Periods(n + Len(topic') + Pub' + 1)
  /\ \A i \in 1..Len(topic') :
       n + i > 0 => topic'[i].at + c <= now' + Periods(n + i) + 2 * TickGap
  /\ tpc' = "publish" => tnow' + c <= now' + Periods(n + Len(topic') + 1) + TickGap
  /\ StopRepeat - stops_left' <= n + Len(topic') + Pub'

\* What happened just now needs no count.
YoungCounts ==
  \A m \in Int : /\ TypeOK /\ LinkType /\ LinkInTime /\ Ticking
                /\ StopRepeat - stops_left <= m + Len(topic) + Pub
                => Counted(0, m)

LEMMA YoungNow == YoungCounts
<1> SUFFICES ASSUME NEW n \in Int, TypeOK, LinkType, LinkInTime, Ticking,
                    StopRepeat - stops_left <= n + Len(topic) + Pub
             PROVE  Counted(0, n)
  BY DEF YoungCounts
<1>1. /\ now \in Nat /\ tnow \in Nat /\ tnow <= now /\ next_pub \in Nat
      /\ stops_left \in Int /\ stops_left <= StopRepeat /\ next_pub <= now + PubPeriod
  <2>1. /\ now \in Nat /\ tnow \in 0..now /\ next_pub \in Nat
        /\ stops_left \in 0..StopRepeat
    BY DEF TypeOK
  <2>2. next_pub <= now + PubPeriod
    BY DEF Ticking
  <2> QED
    BY <2>1, <2>2, Gaps
<1>2. Len(topic) \in Nat /\ Pub \in 0..1 /\ (tpc = "publish" => Pub = 1)
  BY DEF LinkType, Pub
<1>3. n + Len(topic) + Pub >= 0 /\ n + Len(topic) + Pub \in Int
  BY <1>1, <1>2, Gaps
<1>4. Periods(n + Len(topic) + Pub + 1) >= PubPeriod /\ Periods(n + Len(topic) + Pub + 1) \in Int
  <2> DEFINE m == n + Len(topic) + Pub
  <2>1. m \in Nat /\ m \in Int
    BY <1>3
  <2> HIDE DEF m
  <2>2. Periods(m + 1) = Periods(m) + PubPeriod /\ Periods(m) \in Int
    BY <2>1, PeriodsAre
  <2>3. Periods(m) >= 0
    BY <2>1, PeriodsAre
  <2> DEFINE q == Periods(m)
             r == Periods(m + 1)
  <2>4. q \in Int /\ q >= 0 /\ r = q + PubPeriod
    BY <2>2, <2>3
  <2> HIDE DEF q, r
  <2>5. r >= PubPeriod /\ r \in Int
    BY <2>4, Gaps
  <2> QED
    BY <2>5 DEF m, r
<1>5. next_pub + 0 <= now + Periods(n + Len(topic) + Pub + 1)
  <2> DEFINE r == Periods(n + Len(topic) + Pub + 1)
  <2>1. r >= PubPeriod /\ r \in Int
    BY <1>4
  <2> HIDE DEF r
  <2>2. next_pub + 0 <= now + r
    BY <1>1, <2>1, Gaps
  <2> QED
    BY <2>2 DEF r
<1>6. ASSUME NEW i \in 1..Len(topic), n + i > 0
      PROVE  topic[i].at + 0 <= now + Periods(n + i) + 2 * TickGap
  <2>1. topic[i].at <= now /\ topic[i].at \in Nat
    <3>1. topic[i] \in Message
      BY DEF LinkType
    <3> QED
      BY <3>1 DEF LinkInTime, Message
  <2> DEFINE m == n + i
             r == Periods(m)
  <2>2. m \in Nat /\ m \in Int
    BY <1>6
  <2>3. r >= 0 /\ r \in Int
    <3> HIDE DEF m
    <3> QED
      BY <2>2, PeriodsAre
  <2> HIDE DEF r
  <2>4. topic[i].at + 0 <= now + r + 2 * TickGap
    BY <1>1, <2>1, <2>3, Gaps
  <2> QED
    BY <2>4 DEF r
<1>7. ASSUME tpc = "publish" PROVE tnow + 0 <= now + Periods(n + Len(topic) + 1) + TickGap
  <2> DEFINE m == n + Len(topic) + 1
             r == Periods(m)
  <2>1. m \in Nat /\ m \in Int
    BY <1>2, <1>3, <1>7
  <2>2. r >= 0 /\ r \in Int
    <3> HIDE DEF m
    <3> QED
      BY <2>1, PeriodsAre
  <2> HIDE DEF r
  <2>3. tnow + 0 <= now + r + TickGap
    BY <1>1, <2>2, Gaps
  <2> QED
    BY <2>3 DEF r
<1> QED
  BY <1>5, <1>6, <1>7 DEF Counted

LEMMA YoungNext == YoungCounts'
  BY YoungNow, PTL

LEMMA Young ==
  ASSUME TypeOK', LinkType', LinkInTime', Ticking', NEW n \in Int,
         StopRepeat - stops_left' <= n + Len(topic') + Pub'
  PROVE  CountedNext(0, n)
<1>1. Counted(0, n)'
  BY YoungNext DEF YoungCounts
<1> QED
  BY <1>1 DEF Counted, CountedNext

\* A message that arrives or is lost is taken from the topic and counted.
LEMMA TakenCount ==
  ASSUME TypeOK, LinkType, Takes, NEW n \in Int, NEW c \in Nat, NEW d \in Nat, d <= c, Counted(c, n)
  PROVE  CountedNext(d, n + 1)
<1>1. /\ Tail(topic) \in Seq(Message) /\ Len(topic') = Len(topic) - 1 /\ Len(topic) \in Nat
      /\ \A i \in 1..Len(topic') : i + 1 \in 1..Len(topic) /\ topic'[i] = topic[i + 1]
  BY Queue DEF Takes, LinkType
<1>2. UNCHANGED <<Moving, stops_left, next_pub, now, tpc, tnow, Pub>>
  BY DEF Takes, vars, latch, timer, Pub
<1>3. Pub \in 0..1 /\ now \in Nat /\ next_pub \in Nat /\ tnow \in Nat /\ stops_left \in Int
  BY DEF Pub, TypeOK
<1>4. /\ n + 1 + Len(topic') + Pub' + 1 = n + Len(topic) + Pub + 1
      /\ n + 1 + Len(topic') + 1 = n + Len(topic) + 1
      /\ n + 1 + Len(topic') + Pub' = n + Len(topic) + Pub
      /\ Periods(n + Len(topic) + Pub + 1) \in Int /\ Periods(n + Len(topic) + 1) \in Int
  <2>1. n + Len(topic) + Pub + 1 \in Int /\ n + Len(topic) + 1 \in Int
    BY <1>1, <1>3
  <2>2. Periods(n + Len(topic) + Pub + 1) \in Int /\ Periods(n + Len(topic) + 1) \in Int
    BY <2>1, PeriodsAre
  <2> QED
    BY <1>1, <1>2, <1>3, <2>2
<1>5. ASSUME NEW i \in 1..Len(topic'), n + 1 + i > 0
      PROVE  topic'[i].at + d <= now' + Periods(n + 1 + i) + 2 * TickGap
  <2>1. i + 1 \in 1..Len(topic) /\ topic'[i] = topic[i + 1] /\ n + (i + 1) = n + 1 + i
    BY <1>1
  <2>2. topic[i + 1].at + c <= now + Periods(n + 1 + i) + 2 * TickGap
    <3>1. n + (i + 1) > 0
      BY <1>5, <2>1
    <3>2. topic[i + 1].at + c <= now + Periods(n + (i + 1)) + 2 * TickGap
      BY <2>1, <3>1 DEF Counted
    <3> QED
      BY <2>1, <3>2
  <2>3. topic[i + 1].at \in Nat /\ Periods(n + 1 + i) \in Int
    <3>1. n + 1 + i \in Int
      BY <1>1
    <3>2. Periods(n + 1 + i) \in Int
      BY <3>1, PeriodsAre
    <3> QED
      BY <2>1, <3>2, Stamped
  <2> DEFINE r == Periods(n + 1 + i)
             a == topic[i + 1].at
  <2>4. a \in Nat /\ r \in Int /\ a + c <= now + r + 2 * TickGap
    BY <2>2, <2>3
  <2> HIDE DEF r, a
  <2>5. a + d <= now + r + 2 * TickGap
    BY <1>3, <2>4, Gaps
  <2> QED
    BY <1>2, <2>1, <2>5 DEF r, a
<1>6. Moving' \/ stops_left' > 0 => next_pub' + d <= now' + Periods(n + 1 + Len(topic') + Pub' + 1)
  <2> DEFINE r == Periods(n + Len(topic) + Pub + 1)
  <2>1. Moving \/ stops_left > 0 => next_pub + c <= now + r
    BY DEF Counted
  <2>2. r \in Int /\ Periods(n + 1 + Len(topic') + Pub' + 1) = r
    BY <1>4
  <2> HIDE DEF r
  <2> QED
    BY <1>2, <1>3, <2>1, <2>2
<1>7. tpc' = "publish" => tnow' + d <= now' + Periods(n + 1 + Len(topic') + 1) + TickGap
  <2> DEFINE r == Periods(n + Len(topic) + 1)
  <2>1. tpc = "publish" => tnow + c <= now + r + TickGap
    BY DEF Counted
  <2>2. r \in Int /\ Periods(n + 1 + Len(topic') + 1) = r
    BY <1>4
  <2> HIDE DEF r
  <2> QED
    BY <1>2, <1>3, <2>1, <2>2, Gaps
<1>8. StopRepeat - stops_left' <= n + 1 + Len(topic') + Pub'
  BY <1>2, <1>4 DEF Counted
<1> QED
  BY <1>5, <1>6, <1>7, <1>8 DEF CountedNext

\* The times in the topic after a step that leaves it alone.
LEMMA OldTimes ==
  ASSUME TypeOK, LinkType, NEW n \in Int, NEW c \in Nat, NEW d \in Nat, Counted(c, n),
         d <= c + (now' - now), now' = now \/ now' = now + 1, NEW i \in 1..Len(topic), n + i > 0
  PROVE  topic[i].at + d <= now' + Periods(n + i) + 2 * TickGap
<1> DEFINE r == Periods(n + i)
           a == topic[i].at
<1>1. a \in Nat /\ r \in Int /\ now \in Nat
  <2>1. n + i \in Int
    OBVIOUS
  <2>2. r \in Int
    BY <2>1, PeriodsAre
  <2> QED
    BY <2>2, Stamped DEF TypeOK
<1>2. a + c <= now + r + 2 * TickGap
  BY DEF Counted
<1> HIDE DEF a, r
<1>3. a + d <= now' + r + 2 * TickGap
  BY <1>1, <1>2, Gaps
<1> QED
  BY <1>3 DEF a, r

LEMMA RestsCount ==
  ASSUME TypeOK, LinkType, Rests, now' = now \/ now' = now + 1, NEW n \in Int, NEW c \in Nat, NEW d \in Nat,
         d <= c + (now' - now), Counted(c, n)
  PROVE  CountedNext(d, n)
<1>1. Len(topic) \in Nat /\ Pub \in 0..1 /\ now \in Nat /\ next_pub \in Nat /\ tnow \in Nat
  BY DEF LinkType, Pub, TypeOK
<1>2. Periods(n + Len(topic) + Pub + 1) \in Int /\ Periods(n + Len(topic) + 1) \in Int
  <2>1. n + Len(topic) + Pub + 1 \in Int /\ n + Len(topic) + 1 \in Int
    BY <1>1
  <2> QED
    BY <2>1, PeriodsAre
<1>3. UNCHANGED <<topic, stops_left, Pub>> /\ (tpc' = "publish" => tpc = "publish" /\ tnow' = tnow)
  BY DEF Rests, Pub
<1>4. Moving' \/ stops_left' > 0 => next_pub' + d <= now' + Periods(n + Len(topic') + Pub' + 1)
  <2>1. Moving' \/ stops_left > 0 => next_pub' = next_pub /\ (Moving \/ stops_left > 0)
    BY DEF Rests
  <2> DEFINE r == Periods(n + Len(topic) + Pub + 1)
  <2>2. Moving \/ stops_left > 0 => next_pub + c <= now + r
    BY DEF Counted
  <2>3. r \in Int /\ Periods(n + Len(topic') + Pub' + 1) = r
    BY <1>2, <1>3
  <2> HIDE DEF r
  <2> QED
    BY <1>1, <1>3, <2>1, <2>2, <2>3
<1>5. \A i \in 1..Len(topic') : n + i > 0 => topic'[i].at + d <= now' + Periods(n + i) + 2 * TickGap
  BY <1>3, OldTimes
<1>6. tpc' = "publish" => tnow' + d <= now' + Periods(n + Len(topic') + 1) + TickGap
  <2> DEFINE r == Periods(n + Len(topic) + 1)
  <2>1. tpc = "publish" => tnow + c <= now + r + TickGap
    BY DEF Counted
  <2>2. r \in Int /\ Periods(n + Len(topic') + 1) = r
    BY <1>2, <1>3
  <2> HIDE DEF r
  <2> QED
    BY <1>1, <1>3, <2>1, <2>2, Gaps
<1>7. StopRepeat - stops_left' <= n + Len(topic') + Pub'
  BY <1>3 DEF Counted
<1> QED
  BY <1>4, <1>5, <1>6, <1>7 DEF CountedNext

\* A message that is decided on was due a tick ago at most, or a period and a tick
\* ago if the count is that short.
LEMMA DecidesCount ==
  ASSUME TypeOK, LinkType, FollowType, Ticking, Ordered, Decides, NEW n \in Int,
         NEW c \in Nat, NEW d \in Nat, d <= c, c <= steady, Counted(c, n)
  PROVE  CountedNext(d, n)
<1>1. /\ now \in Nat /\ next_pub \in Nat /\ tnow \in Nat /\ until \in Nat /\ steady \in Nat
      /\ stops_left \in Int /\ stops_left <= StopRepeat /\ Len(topic) \in Nat
      /\ Pub = 0 /\ Pub' = 1 /\ topic' = topic /\ now' = now /\ tnow' = tnow
  BY Gaps DEF TypeOK, LinkType, FollowType, Decides, Pub
<1> DEFINE m == n + Len(topic)
           p == Periods(m + 1)
           q == Periods(m + 2)
<1>2. m \in Nat /\ StopRepeat - stops_left <= m
  BY <1>1, Gaps DEF Counted
<1>3. p \in Int /\ p >= PubPeriod /\ q = p + PubPeriod
  <2>1. m \in Int /\ m + 1 \in Int /\ m + 1 + 1 = m + 2
    BY <1>2
  <2> HIDE DEF m
  <2>2. Periods(m + 1) = Periods(m) + PubPeriod /\ Periods(m) \in Int
    BY <2>1, PeriodsAre
  <2>3. Periods(m) >= 0
    BY <1>2, PeriodsAre
  <2>4. Periods(m + 1 + 1) = Periods(m + 1) + PubPeriod
    BY <2>1, PeriodsAre
  <2> DEFINE a == Periods(m)
             b == Periods(m + 1)
  <2>5. a \in Int /\ a >= 0 /\ b = a + PubPeriod /\ Periods(m + 2) = b + PubPeriod
    BY <2>1, <2>2, <2>3, <2>4
  <2> HIDE DEF a, b
  <2>6. b \in Int /\ b >= PubPeriod
    BY <2>5, Gaps
  <2> QED
    BY <2>5, <2>6 DEF b
<1>4. next_pub + c <= now + p
  <2>1. Moving \/ stops_left > 0
    BY <1>1, Gaps DEF Decides, Ticking
  <2>2. n + Len(topic) + Pub + 1 = m + 1
    BY <1>1
  <2> QED
    BY <2>1, <2>2 DEF Counted
<1>5. m + Pub' + 1 = m + 2 /\ n + Len(topic') + Pub' + 1 = m + 2 /\ n + Len(topic') + 1 = m + 1
  BY <1>1
<1>6. tnow <= next_pub + TickGap \/ steady + tnow <= now + PubPeriod
  BY DEF Ticking, Decides
<1>7. next_pub' = IF next_pub + PubPeriod < tnow THEN tnow + PubPeriod ELSE next_pub + PubPeriod
  BY DEF Decides, NextPub
<1>8. next_pub' + d <= now' + q
  <2> HIDE DEF p, q, m
  <2> QED
    BY <1>1, <1>3, <1>4, <1>6, <1>7, Gaps
<1>9. tnow' + d <= now' + p + TickGap
  <2> HIDE DEF p, q, m
  <2> QED
    BY <1>1, <1>3, <1>4, <1>6, Gaps
<1>10. \A i \in 1..Len(topic') : n + i > 0 => topic'[i].at + d <= now' + Periods(n + i) + 2 * TickGap
  <2>1. d <= c + (now' - now)
    BY <1>1
  <2> QED
    BY <1>1, <2>1, OldTimes
<1>11. StopRepeat - stops_left' <= n + Len(topic') + Pub'
  BY <1>1, <1>2, Gaps DEF Decides
<1> QED
  BY <1>5, <1>8, <1>9, <1>10, <1>11 DEF CountedNext

\* What is published now was decided a tick ago at most.
LEMMA PublishesCount ==
  ASSUME TypeOK, LinkType, FollowType, Ticking, Ordered, Publishes, NEW n \in Int,
         NEW c \in Nat, NEW d \in Nat, d <= c, Counted(c, n)
  PROVE  CountedNext(d, n)
<1> DEFINE e == [msg |-> out, at |-> now]
           l == Len(topic)
<1>1. /\ now \in Nat /\ next_pub \in Nat /\ tnow \in Nat /\ l \in Nat
      /\ Pub = 1 /\ Pub' = 0 /\ now' = now /\ tnow' = tnow /\ now <= tnow + TickGap
      /\ UNCHANGED <<Moving, stops_left, next_pub>>
  BY DEF TypeOK, LinkType, Publishes, Pub, Ticking, Moving
<1>2. /\ topic' = Append(topic, e) /\ e \in Message /\ e.at = now
  BY DEF Publishes, TypeOK, Message
<1>3. /\ Len(topic') = l + 1
      /\ \A i \in 1..l : topic'[i] = topic[i]
      /\ topic'[l + 1] = e
  <2> HIDE DEF e
  <2> QED
    BY <1>2, Queued
<1>4. n + Len(topic') + Pub' + 1 = n + l + Pub + 1 /\ n + Len(topic') + Pub' = n + l + Pub
  BY <1>1, <1>3
<1>5. Moving' \/ stops_left' > 0 => next_pub' + d <= now' + Periods(n + Len(topic') + Pub' + 1)
  <2> DEFINE r == Periods(n + l + Pub + 1)
  <2>1. Moving \/ stops_left > 0 => next_pub + c <= now + r
    BY DEF Counted
  <2>2. n + l + Pub + 1 \in Int
    BY <1>1
  <2>3. r \in Int /\ Periods(n + Len(topic') + Pub' + 1) = r
    BY <1>4, <2>2, PeriodsAre
  <2> HIDE DEF r, l
  <2> QED
    BY <1>1, <2>1, <2>3
<1>6. ASSUME NEW i \in 1..Len(topic'), n + i > 0
      PROVE  topic'[i].at + d <= now' + Periods(n + i) + 2 * TickGap
  <2>1. CASE i \in 1..l
    <3>1. d <= c + (now' - now)
      BY <1>1
    <3>2. topic[i].at + d <= now' + Periods(n + i) + 2 * TickGap
      BY <1>1, <1>6, <2>1, <3>1, OldTimes
    <3> QED
      BY <1>3, <2>1, <3>2
  <2>2. CASE i = l + 1
    <3> DEFINE r == Periods(n + l + 1)
    <3>1. n + i = n + l + 1 /\ n + l + 1 \in Int
      BY <1>1, <2>2
    <3>2. r \in Int
      BY <3>1, PeriodsAre
    <3>3. tnow + c <= now + r + TickGap
      BY DEF Counted, Publishes
    <3> HIDE DEF r
    <3>4. now + d <= now' + r + 2 * TickGap
      BY <1>1, <3>2, <3>3, Gaps
    <3>5. topic'[i].at = now
      BY <1>2, <1>3, <2>2
    <3> QED
      BY <3>1, <3>4, <3>5 DEF r
  <2> QED
    BY <1>1, <1>3, <2>1, <2>2
<1>7. StopRepeat - stops_left' <= n + Len(topic') + Pub'
  BY <1>1, <1>4 DEF Counted
<1>8. tpc' # "publish"
  BY DEF Publishes
<1> QED
  BY <1>5, <1>6, <1>7, <1>8 DEF CountedNext

\* A publication that a new order or a block brings forward is due at once.
LEMMA RearmsCount ==
  ASSUME TypeOK, LinkType, FollowType, Ticking, Rearms, NEW n \in Int,
         NEW c \in Nat, NEW d \in Nat, d <= c, d = 0 \/ steady' # 0, c <= steady,
         Counted(c, n)
  PROVE  CountedNext(d, n)
<1> DEFINE l == Len(topic)
<1>1. /\ now \in Nat /\ next_pub \in Nat /\ tnow \in Nat /\ l \in Nat /\ snow \in Nat /\ snow <= now
      /\ until \in Nat /\ steady \in Nat
      /\ now' = now /\ UNCHANGED <<topic, tpc, tnow, Pub>> /\ next_pub' = snow
      /\ stops_left \in Int /\ stops_left <= StopRepeat /\ stops_left' = StopRepeat
      /\ Pub \in 0..1
  BY Gaps DEF TypeOK, LinkType, FollowType, Rearms, timer, Pub
<1>2. snow + d <= now
  BY <1>1 DEF Rearms, Ticking
<1> DEFINE m == n + l + Pub
           r == Periods(m + 1)
<1>3. m \in Nat /\ n + Len(topic') + Pub' = m /\ StopRepeat - stops_left' <= m
  <2>1. StopRepeat - stops_left <= m
    BY DEF Counted
  <2>2. m \in Int /\ n + Len(topic') + Pub' = m
    BY <1>1
  <2> HIDE DEF m
  <2> QED
    BY <1>1, <2>1, <2>2, Gaps
<1>4. r \in Int /\ r >= 0
  <2>1. m + 1 \in Nat /\ m + 1 \in Int
    BY <1>3
  <2> HIDE DEF m
  <2> QED
    BY <2>1, PeriodsAre
<1>5. next_pub' + d <= now' + Periods(n + Len(topic') + Pub' + 1)
  <2>1. next_pub' + d <= now' + r
    <3> HIDE DEF r
    <3> QED
      BY <1>1, <1>2, <1>4
  <2> QED
    BY <1>3, <2>1
<1>6. \A i \in 1..Len(topic') : n + i > 0 => topic'[i].at + d <= now' + Periods(n + i) + 2 * TickGap
  <2>1. d <= c + (now' - now)
    BY <1>1
  <2> QED
    BY <1>1, <2>1, OldTimes
<1>7. tpc' = "publish" => tnow' + d <= now' + Periods(n + Len(topic') + 1) + TickGap
  <2> DEFINE q == Periods(n + l + 1)
  <2>1. n + l + 1 \in Int
    BY <1>1
  <2>2. q \in Int
    BY <2>1, PeriodsAre
  <2>3. tpc = "publish" => tnow + c <= now + q + TickGap
    BY DEF Counted
  <2>4. tpc' = "publish" => tnow' + d <= now' + q + TickGap
    <3> HIDE DEF q, l
    <3> QED
      BY <1>1, <2>2, <2>3, Gaps
  <2> QED
    BY <1>1, <2>4
<1> QED
  BY <1>3, <1>5, <1>6, <1>7 DEF CountedNext
\* So a count is kept up, for as long as nothing changes and nothing arrives.
LEMMA CountKept ==
  ASSUME TypeOK, LinkType, FollowType, Ticking, [ChainNext]_chain, Same, Ordered', ~Takes,
         NEW n \in Int, NEW c \in Nat, NEW d \in Nat, c <= steady, d <= steady',
         d <= c + (now' - now), Counted(c, n)
  PROVE  CountedNext(d, n)
<1>0. now \in Nat /\ (now' = now \/ now' = now + 1) /\ steady' \in Nat
  BY ClockSteps, SteadySteps DEF TypeOK
<1>1. CASE Rests
  BY <1>0, <1>1, RestsCount
<1>2. CASE Decides
  <2>1. d <= c
    BY <1>0, <1>2 DEF Decides
  <2> QED
    BY <1>2, <2>1, DecidesCount DEF Same
<1>3. CASE Publishes
  <2>1. d <= c
    BY <1>0, <1>3 DEF Publishes
  <2> QED
    BY <1>3, <2>1, PublishesCount DEF Same
<1>4. CASE Rearms
  <2>1. d <= c
    BY <1>0, <1>4 DEF Rearms
  <2>2. d = 0 \/ steady' # 0
    BY <1>0
  <2> QED
    BY <1>4, <2>1, <2>2, RearmsCount
<1> QED
  BY <1>1, <1>2, <1>3, <1>4, StepKinds

-----------------------------------------------------------------------------
(* The bridge's ticks and what is due.                                     *)

Untouched ==
  /\ UNCHANGED <<now, up, until, lin, ang, tnow, next_pub, stops_left, log.due, log.end>>
  /\ tpc' = "lock" => tpc = "lock"
  /\ tpc = "lock" => tpc' = "lock"

LEMMA Clocks ==
  ASSUME TypeOK
  PROVE  /\ now \in Nat /\ tnow \in Nat /\ tnow <= now /\ until \in Nat /\ next_pub \in Nat
         /\ snow \in Nat /\ snow <= now /\ log.due \in Nat /\ log.end \in Nat
         /\ lin \in Int /\ ang \in Int
  BY LogFields, SpeedAssumption DEF TypeOK

\* Which steps touch what the bridge will do next, and how.
LEMMA Touches ==
  ASSUME TypeOK, CountInv, [ChainNext]_chain
  PROVE  \/ Untouched
         \/ Pass
         \/ BridgeStep /\ (TickStart \/ TickEarly \/ TickDrive \/ TickStop \/ TickQuiet \/ SetDrive \/ SetStop \/ Crash \/ Restart)
         \/ BridgeStep /\ SetBlock /\ Cuts(req.on)
<1>1. CASE BridgeStep
  <2>1. CASE TickStart \/ TickEarly \/ TickDrive \/ TickStop \/ TickQuiet
    BY <1>1, <2>1
  <2>2. CASE Accept \/ (\E r \in Request : Receive(r)) \/ RefuseForward \/ Reply \/ ReplyFails
    BY <2>2 DEF Accept, Receive, RefuseForward, Reply, ReplyFails, latch, timer, Untouched
  <2>3. CASE SetBlock /\ ~Cuts(req.on)
    <3>1. log'.due = log.due /\ log'.end = log.end
      BY <2>3 DEF SetBlock, TypeOK, LogType
    <3> QED
      BY <2>3, <3>1 DEF SetBlock, timer, Untouched
  <2> QED
    BY <1>1, <2>1, <2>2, <2>3 DEF BridgeStep, Honour
<1>2. CASE Publish
  <2>1. log'.due = log.due /\ log'.end = log.end
    BY <1>2 DEF Publish, TickPublish, TypeOK, LogType
  <2> QED
    BY <1>2, <2>1 DEF Publish, TickPublish, latch, Untouched
<1>3. CASE Deliver \/ Lose \/ BoardTurn \/ BoardFails \/ UNCHANGED chain
  BY <1>3 DEF Deliver, Lose, BoardTurn, BoardFails, chain, vars, latch, timer, Untouched
<1> QED
  BY <1>1, <1>2, <1>3 DEF ChainNext

LEMMA NextTicking ==
  ASSUME TypeOK, CountInv, FollowType, Ticking, [ChainNext]_chain
  PROVE  Ticking'
<1> USE Gaps
<1>0. /\ steady \in Nat /\ steady' \in Nat /\ lost' \in Nat /\ steady' <= steady + (now' - now)
      /\ steady' # 0 => /\ Goal' = Goal /\ up' = up /\ lost' <= MaxLost
                        /\ Ordered \/ UNCHANGED chain
                        /\ ~(spc = "set" /\ spc' = "reply")
  BY SteadySteps DEF FollowType
<1>1. CASE Untouched
  <2>1. steady' <= steady /\ Ordered' = Ordered
    BY <1>0, <1>1, Clocks DEF Untouched, Ordered
  <2> QED
    BY <1>0, <1>1, <2>1, Clocks DEF Untouched, Ticking
<1>2. CASE Pass
  <2>1. /\ now' = now + 1 /\ UNCHANGED <<up, latch, timer, log>> /\ (up => now < tnow + TickGap)
    BY <1>2 DEF Pass, Advance, MayWait
  <2>2. UNCHANGED <<until, lin, ang, tnow, tpc, next_pub, stops_left>> /\ Ordered' = Ordered
    BY <2>1 DEF latch, timer, Ordered
  <2>3. until = now + 1 => steady' = 0
    <3>1. ASSUME until = now + 1 PROVE Goal' # Goal
      BY <2>1, <2>2, <3>1, Clocks DEF Goal, Moving, Zero, Ticking
    <3> QED
      BY <1>0, <3>1
  <2>4. steady' <= steady + 1
    BY <1>0, <2>1, Clocks
  <2> QED
    <3>1. /\ up' => now' <= tnow' + TickGap
          /\ Ordered' => up'
          /\ next_pub' <= now' + PubPeriod
          /\ tnow' < until' => stops_left' = StopRepeat
          /\ until' > 0 => lin' # 0 \/ ang' # 0
      BY <2>1, <2>2, Clocks DEF Ticking
    <3>2. until' <= now' => steady' + until' <= now'
      BY <1>0, <2>1, <2>2, <2>3, <2>4, Clocks DEF Ticking
    <3>3. steady' > 0 => lost' <= MaxLost
      BY <1>0
    <3>4. steady' > PubPeriod => Ordered'
      <4>1. chain' # chain
        BY <2>1, Clocks DEF chain, vars
      <4> QED
        BY <1>0, <2>2, <4>1
    <3>5. Ordered' /\ tpc' # "lock" => tnow' <= next_pub' \/ steady' + tnow' <= now' + ServeGap
      BY <1>0, <2>1, <2>2, <2>4, Clocks DEF Ticking
    <3>6. Ordered' /\ tpc' = "lock" => tnow' <= next_pub' + TickGap \/ steady' + tnow' <= now' + PubPeriod
      BY <1>0, <2>1, <2>2, <2>4, Clocks DEF Ticking
    <3> QED
      BY <3>1, <3>2, <3>3, <3>4, <3>5, <3>6 DEF Ticking
<1>3. CASE BridgeStep /\ TickStart
  <2>1. /\ UNCHANGED <<now, up, latch>> /\ tnow' = now /\ tpc' = "lock" /\ up /\ tpc = "idle"
    BY <1>3 DEF TickStart
  <2>2. UNCHANGED <<until, lin, ang, next_pub, stops_left>> /\ Ordered' = Ordered /\ steady' <= steady
    <3>1. log'.due = log.due /\ log'.end = log.end
      BY <1>3 DEF TickStart, TypeOK, LogType
    <3> QED
      BY <1>0, <2>1, <3>1, Clocks DEF latch, Ordered
  <2>3. Ordered => tnow' <= next_pub + TickGap \/ steady + tnow' <= now + PubPeriod
    BY <1>0, <2>1, Clocks DEF Ticking
  <2> QED
    BY <1>0, <2>1, <2>2, <2>3, Clocks DEF Ticking
<1>4. CASE BridgeStep /\ TickEarly
  <2>1. UNCHANGED <<now, up, until, lin, ang, tnow, next_pub, stops_left, log>> /\ tnow < next_pub /\ tpc' = "idle"
    BY <1>4 DEF TickEarly, latch
  <2> QED
    BY <1>0, <2>1, Clocks DEF Ticking, Ordered
<1>5. CASE BridgeStep /\ (TickDrive \/ TickStop \/ TickQuiet)
  <2>1. /\ UNCHANGED <<now, up, until, lin, ang, tnow>> /\ next_pub' = NextPub(tnow) /\ tnow >= next_pub
        /\ tpc' # "lock" /\ log'.due = log.due /\ log'.end = log.end
        /\ stops_left' = stops_left \/ tnow >= until
    BY <1>5 DEF TickDrive, TickStop, TickQuiet, TickDue, TypeOK, LogType
  <2>2. tnow <= next_pub' /\ next_pub' <= now + PubPeriod
    BY <2>1, Clocks DEF NextPub
  <2>3. Ordered' = Ordered /\ steady' <= steady
    BY <1>0, <2>1, Clocks DEF Ordered
  <2> QED
    <3>1. /\ up' => now' <= tnow' + TickGap
          /\ Ordered' => up'
          /\ next_pub' <= now' + PubPeriod
          /\ tnow' < until' => stops_left' = StopRepeat
          /\ until' > 0 => lin' # 0 \/ ang' # 0
      BY <2>1, <2>2, <2>3, Clocks DEF Ticking
    <3>2. until' <= now' => steady' + until' <= now'
      BY <1>0, <2>1, <2>3, Clocks DEF Ticking
    <3>3. steady' > 0 => lost' <= MaxLost
      BY <1>0
    <3>4. steady' > PubPeriod => Ordered'
      BY <1>0, <2>3, Clocks DEF Ticking
    <3> QED
      BY <2>1, <2>2, <3>1, <3>2, <3>3, <3>4 DEF Ticking
<1>6. CASE BridgeStep /\ (SetDrive \/ SetStop)
  <2>1. /\ steady' = 0 /\ UNCHANGED <<now, up, tnow>> /\ stops_left' = StopRepeat /\ next_pub' = snow
        /\ until' > 0 => lin' # 0 \/ ang' # 0
    BY <1>0, <1>6 DEF SetDrive, SetStop, Set, Done, Drives, timer
  <2>2. up
    BY <1>6 DEF SetDrive, SetStop, Set, CountInv, OrderInv
  <2>3. until' = 0 \/ until' = snow + req.dur
    BY <1>6 DEF SetDrive, SetStop
  <2>4. req.dur \in Int
    BY <1>6, TimeAssumption DEF SetDrive, SetStop, Set, TypeOK, DriveRequest
  <2>5. until' <= now' => steady' + until' <= now'
    BY <2>1, <2>3, <2>4, Clocks
  <2>6. tnow' <= now' /\ up' = up /\ (up => now' <= tnow' + TickGap) /\ next_pub' <= now' + PubPeriod
    BY <2>1, Clocks DEF Ticking
  <2>7. steady' + tnow' <= now' + ServeGap /\ steady' + tnow' <= now' + PubPeriod
    BY <2>1, Clocks
  <2> QED
    BY <2>1, <2>2, <2>5, <2>6, <2>7 DEF Ticking
<1>7. CASE BridgeStep /\ (Crash \/ Restart)
  <2>1. steady' = 0 /\ now' = now /\ tnow' = now /\ next_pub' = 0 /\ until' = 0 /\ ~Ordered'
    BY <1>0, <1>7 DEF Crash, Restart, Fresh, Ordered
  <2> QED
    BY <1>0, <2>1, Clocks DEF Ticking
<1>8. CASE BridgeStep /\ SetBlock /\ Cuts(req.on)
  <2>1. /\ UNCHANGED <<now, up, tnow, tpc, lin, ang>> /\ until' = 0 /\ stops_left' = StopRepeat /\ next_pub' = snow
        /\ snow < until /\ lin > 0 /\ log'.end = snow /\ spc = "block" /\ now <= snow + ServeGap
    BY <1>8 DEF SetBlock, timer, Cuts, NewOrder, TypeOK, LogType, CountInv, OrderInv
  <2>2. up
    BY <2>1 DEF CountInv, OrderInv
  <2>3. steady' # 0 => until <= now
    <3>1. now < until => Goal' # Goal
      BY <2>1, Clocks DEF Goal, Moving, Zero
    <3> QED
      BY <1>0, <3>1, Clocks
  <2>4. steady' # 0 => steady' + until <= now
    BY <1>0, <2>1, <2>3, Clocks DEF Ticking
  <2>5. steady' > PubPeriod => Ordered'
    <3>1. ASSUME steady' > PubPeriod PROVE log'.end > 0
      BY <1>0, <2>1, <2>4, <3>1, Clocks
    <3> QED
      BY <3>1 DEF Ordered
  <2>6. steady' + tnow <= now + ServeGap
    BY <1>0, <2>1, <2>4, Clocks
  <2> QED
    BY <1>0, <2>1, <2>2, <2>4, <2>5, <2>6, Clocks DEF Ticking
<1> QED
  BY <1>1, <1>2, <1>3, <1>4, <1>5, <1>6, <1>7, <1>8, Touches
-----------------------------------------------------------------------------
(* What the board hears.                                                   *)

LEMMA NextSettles ==
  ASSUME LinkType, Settles, [ChainNext]_chain
  PROVE  Settles'
<1>0. silence \in Nat /\ Lag \in Nat /\ Hold \in Nat /\ Limit \in Nat /\ Hold <= Limit
  BY Bounds DEF LinkType
<1>1. CASE Board!Pass
  BY <1>0, <1>1 DEF Board!Pass, Settles, Board!Obeys
<1>2. CASE Board!Hear(OrderOf(Head(topic).msg)) \/ Board!Fail
  BY <1>0, <1>2 DEF Board!Hear, Board!Fail, Settles
<1>3. CASE Board!Turn
  <2>1. ASSUME silence \in (Lag + 1)..Hold
        PROVE  Board!May(left, order.left) = {left} /\ Board!May(right, order.right) = {right}
    BY <1>0, <2>1 DEF Board!May
  <2> QED
    BY <1>3, <2>1 DEF Board!Turn, Settles, Board!Obeys
<1>4. CASE UNCHANGED board
  BY <1>4 DEF board, Settles, Board!Obeys
<1> QED
  BY <1>1, <1>2, <1>3, <1>4, BoardSteps

LEMMA Topic ==
  ASSUME LinkType, FollowType
  PROVE  /\ Len(topic) \in Nat /\ Pub \in {0, 1} /\ (tpc = "publish" <=> Pub = 1)
         /\ silence \in Nat /\ steady \in Nat /\ lost \in Nat
         /\ Age \in Nat /\ Age <= steady /\ Age <= IF Right THEN silence ELSE steady
  BY DEF LinkType, FollowType, Pub, Age

\* Where a step leaves the messages.
LEMMA TopicKinds ==
  ASSUME TypeOK, LinkType, FollowType, Ticking, [ChainNext]_chain, Same, Ordered'
  PROVE  Takes \/ Publishes \/ UNCHANGED topic
<1> QED
  BY StepKinds DEF Rests, Decides, Rearms

LEMMA NextAhead ==
  ASSUME TypeOK, LinkType, FollowType, Ticking, Ahead, Decided, [ChainNext]_chain,
         TypeOK', LinkType', LinkInTime', FollowType', Ticking'
  PROVE  Ahead'
<1> SUFFICES ASSUME Ordered', NEW k \in 1..Len(topic'), topic'[k].msg # Goal'
             PROVE  CountedNext(steady', -k)
  BY DEF Ahead, Counted, CountedNext
<1>0. /\ Len(topic) \in Nat /\ Len(topic') \in Nat /\ steady \in Nat /\ steady' \in Nat
      /\ now \in Nat /\ (now' = now \/ now' = now + 1) /\ steady' <= steady + (now' - now)
      /\ k \in Nat /\ -k \in Int
  <2>1. now \in Nat /\ (now' = now \/ now' = now + 1)
    BY ClockSteps DEF TypeOK
  <2>2. steady \in Nat /\ steady' \in Nat /\ steady' <= steady + (now' - now)
    BY SteadySteps DEF FollowType
  <2>3. Len(topic) \in Nat /\ Len(topic') \in Nat
    BY DEF LinkType
  <2>4. k \in Nat /\ -k \in Int
    BY <2>3
  <2> QED
    BY <2>1, <2>2, <2>3, <2>4
<1>1. CASE ~Same
  <2>1. steady' = 0 /\ stops_left' = StopRepeat
    BY <1>1, Rearmed
  <2>2. StopRepeat - stops_left' <= -k + Len(topic') + Pub'
    BY <1>0, <2>1, Gaps DEF Pub
  <2> QED
    BY <1>0, <2>1, <2>2, Young
<1>2. CASE Same /\ Takes
  <2>1. k + 1 \in 1..Len(topic) /\ topic'[k] = topic[k + 1]
    BY <1>2, Queue DEF Takes
  <2>2. Counted(steady, -(k + 1))
    BY <1>2, <2>1 DEF Ahead, Same
  <2>3. now' = now
    BY <1>2 DEF Takes, vars
  <2>4. steady' <= steady /\ -(k + 1) \in Int /\ -(k + 1) + 1 = -k
    BY <1>0, <2>3
  <2>5. CountedNext(steady', -(k + 1) + 1)
    BY <1>0, <1>2, <2>2, <2>4, TakenCount
  <2> QED
    BY <2>4, <2>5
<1>3. CASE Same /\ ~Takes
  <2>1. Counted(steady, -k)
    <3>1. CASE k \in 1..Len(topic) /\ topic'[k] = topic[k]
      BY <1>3, <3>1 DEF Ahead, Same
    <3>2. CASE Publishes /\ k = Len(topic) + 1 /\ topic'[k] = [msg |-> out, at |-> now]
      BY <1>3, <3>2 DEF Decided, Same, Publishes
    <3>3. ASSUME Publishes PROVE Len(topic') = Len(topic) + 1 /\ \A i \in 1..Len(topic) : topic'[i] = topic[i]
      <4>1. topic' = Append(topic, [msg |-> out, at |-> now]) /\ [msg |-> out, at |-> now] \in Message
        BY <3>3 DEF Publishes, TypeOK, Message
      <4> QED
        BY <4>1, Queued
    <3>4. ASSUME Publishes PROVE topic'[Len(topic) + 1] = [msg |-> out, at |-> now]
      <4>1. topic' = Append(topic, [msg |-> out, at |-> now]) /\ [msg |-> out, at |-> now] \in Message
        BY <3>4 DEF Publishes, TypeOK, Message
      <4> QED
        BY <4>1, Queued
    <3> QED
      BY <1>0, <1>3, <3>1, <3>2, <3>3, <3>4, TopicKinds
  <2> QED
    BY <1>0, <1>3, <2>1, CountKept
<1> QED
  BY <1>1, <1>2, <1>3

\* A message that is out of date when it is decided on is the last of a motion
\* that has ended since.
LEMMA DecidesLate ==
  ASSUME TypeOK, LinkType, FollowType, Ticking, Decides, Goal' = Goal, out' # Goal,
         NEW d \in Nat, d <= steady
  PROVE  CountedNext(d, -(Len(topic) + 1))
<1> DEFINE l == Len(topic)
<1>0. /\ l \in Nat /\ steady \in Nat /\ Pub' = 1
      /\ now' = now /\ tnow' = tnow /\ topic' = topic /\ next_pub' = NextPub(tnow)
  BY DEF LinkType, FollowType, Decides, Pub
<1>1. /\ tnow < until /\ stops_left' = stops_left /\ until <= now
  BY Clocks DEF Decides, Goal, Moving
<1>2. stops_left' = StopRepeat /\ steady + until <= now
  BY <1>1 DEF Ticking
<1>3. d + tnow <= now /\ next_pub' <= tnow + PubPeriod
  <2>1. next_pub <= tnow
    BY Clocks DEF Decides
  <2>2. d + tnow <= now
    BY <1>0, <1>1, <1>2, Clocks
  <2>3. NextPub(tnow) <= tnow + PubPeriod
    BY <2>1, Clocks, Gaps DEF NextPub
  <2> QED
    BY <1>0, <2>2, <2>3
<1>4. next_pub' \in Nat /\ next_pub' + d <= now' + PubPeriod
  <2>1. next_pub' \in Nat
    BY <1>0, Clocks, Gaps DEF NextPub
  <2> QED
    BY <1>0, <1>3, <2>1, Clocks, Gaps
<1>5. /\ -(l + 1) + Len(topic') + Pub' + 1 = 1 /\ -(l + 1) + Len(topic') + 1 = 0
      /\ -(l + 1) + Len(topic') + Pub' = 0
  BY <1>0
<1>6. \A i \in 1..Len(topic') : ~(-(l + 1) + i > 0)
  BY <1>0
<1>7. tnow' + d <= now' + 0 + TickGap
  BY <1>0, <1>3, Clocks, Gaps
<1> QED
  BY <1>2, <1>4, <1>5, <1>6, <1>7, PeriodsAre, Gaps DEF CountedNext

LEMMA NextDecided ==
  ASSUME TypeOK, LinkType, FollowType, Ticking, Decided, [ChainNext]_chain,
         TypeOK', LinkType', LinkInTime', FollowType', Ticking'
  PROVE  Decided'
<1> SUFFICES ASSUME Ordered', tpc' = "publish", out' # Goal'
             PROVE  CountedNext(steady', -(Len(topic') + 1))
  BY DEF Decided, Counted, CountedNext
<1>0. /\ Len(topic) \in Nat /\ Len(topic') \in Nat /\ steady \in Nat /\ steady' \in Nat
      /\ now \in Nat /\ (now' = now \/ now' = now + 1) /\ steady' <= steady + (now' - now)
      /\ -(Len(topic) + 1) \in Int /\ Pub' = 1
  <2>1. now \in Nat /\ (now' = now \/ now' = now + 1)
    BY ClockSteps DEF TypeOK
  <2>2. steady \in Nat /\ steady' \in Nat /\ steady' <= steady + (now' - now)
    BY SteadySteps DEF FollowType
  <2>3. Len(topic) \in Nat /\ Len(topic') \in Nat /\ Pub' = 1
    BY DEF LinkType, Pub
  <2> QED
    BY <2>1, <2>2, <2>3
<1>1. CASE ~Same
  <2>1. steady' = 0 /\ stops_left' = StopRepeat
    BY <1>1, Rearmed
  <2>2. StopRepeat - stops_left' <= -(Len(topic') + 1) + Len(topic') + Pub' /\ -(Len(topic') + 1) \in Int
    BY <1>0, <2>1, Gaps
  <2> QED
    BY <2>1, <2>2, Young
<1>2. CASE Same /\ Takes
  <2>1. UNCHANGED <<now, tpc, out>> /\ Len(topic') = Len(topic) - 1
    BY <1>2, Queue DEF Takes, vars, timer
  <2>2. Counted(steady, -(Len(topic) + 1))
    BY <1>2, <2>1 DEF Decided, Same
  <2>3. steady' <= steady /\ -(Len(topic) + 1) + 1 = -(Len(topic') + 1)
    BY <1>0, <2>1
  <2>4. CountedNext(steady', -(Len(topic) + 1) + 1)
    BY <1>0, <1>2, <2>2, <2>3, TakenCount
  <2> QED
    BY <2>3, <2>4
<1>3. CASE Same /\ Decides
  <2>1. steady' <= steady /\ topic' = topic
    BY <1>0, <1>3 DEF Decides
  <2> QED
    BY <1>0, <1>3, <2>1, DecidesLate DEF Same
<1>4. CASE Same /\ ~Takes /\ (Rests \/ Rearms)
  <2>1. tpc = "publish" /\ out' = out /\ topic' = topic
    BY <1>4 DEF Rests, Rearms, timer, Pub
  <2>2. Counted(steady, -(Len(topic) + 1))
    BY <1>4, <2>1 DEF Decided, Same
  <2> QED
    BY <1>0, <1>4, <2>1, <2>2, CountKept
<1>5. ~Publishes
  BY DEF Publishes
<1> QED
  BY <1>1, <1>2, <1>3, <1>4, <1>5, StepKinds
\* What a step means for the order the board holds, nothing else arriving.
LEMMA OrderKept ==
  ASSUME LinkType, FollowType, TypeOK, [ChainNext]_chain, ~Takes
  PROVE  /\ lost' = lost
         /\ silence' <= silence + (now' - now) \/ BoardFails
         /\ order' = order \/ (BoardFails /\ order' = Board!Idle)
<1>0. silence \in Nat /\ now \in Nat
  BY DEF LinkType, TypeOK
<1>1. CASE Pass
  <2>1. now' = now + 1 /\ (silence' = silence \/ silence' = silence + 1) /\ UNCHANGED <<order, lost>>
    BY <1>1 DEF Pass, Advance, Board!Pass, link
  <2> QED
    BY <1>0, <2>1
<1>2. CASE BridgeStep \/ Publish \/ UNCHANGED chain
  <2>1. UNCHANGED <<order, silence, lost>>
    BY <1>2 DEF BridgeStep, Publish, board, link, chain
  <2>2. now' = now
    <3>1. CASE Pass
      BY <2>1, <3>1, <1>2 DEF Pass, Advance, BridgeStep, Publish, chain, vars, TickPublish,
         TickStart, TickEarly, TickDrive, TickStop, TickQuiet, TickDue, Accept, Receive, Honour,
         RefuseForward, SetDrive, SetStop, Set, SetBlock, Reply, ReplyFails, Crash, Restart
    <3> QED
      BY <3>1, ClockSteps
  <2> QED
    BY <1>0, <2>1, <2>2
<1>3. CASE BoardTurn
  BY <1>0, <1>3 DEF BoardTurn, Board!Turn, vars, link
<1>4. CASE BoardFails
  BY <1>4 DEF BoardFails, Board!Fail, link
<1>5. CASE Deliver \/ Lose
  BY <1>5 DEF Deliver, Lose, Takes, vars, latch, Moving
<1> QED
  BY <1>1, <1>2, <1>3, <1>4, <1>5 DEF ChainNext

LEMMA TakesKinds ==
  ASSUME TypeOK, LinkType, Takes, [ChainNext]_chain
  PROVE  \/ Deliver
         \/ lost' = CountTo(MaxLost, lost) /\ UNCHANGED <<order, silence>>
<1>1. Len(topic') # Len(topic) /\ UNCHANGED <<now, vars>>
  <2>1. Len(topic) \in Nat /\ Len(topic') = Len(topic) - 1
    BY Queue DEF LinkType, Takes
  <2>2. Len(topic') # Len(topic)
    BY <2>1
  <2>3. UNCHANGED <<now, vars>>
    BY DEF Takes, vars
  <2> QED
    BY <2>2, <2>3
<1>2. UNCHANGED topic => FALSE
  BY <1>1
<1>3. ~Publish
  <2>1. ASSUME Publish PROVE tpc' # tpc
    BY <2>1 DEF Publish, TickPublish
  <2> QED
    BY <1>1, <2>1 DEF vars, timer
<1> QED
  BY <1>1, <1>2, <1>3 DEF ChainNext, Pass, BridgeStep, BoardTurn, BoardFails, Lose, link, chain, board

\* While a motion is in force all its stops are to come.
LEMMA StopsToCome ==
  ASSUME TypeOK, Ticking, Moving
  PROVE  stops_left = StopRepeat
  BY Clocks DEF Moving, Ticking

LEMMA NextHeard ==
  ASSUME TypeOK, LinkType, LinkInTime, FollowType, Ticking, Ahead, Heard, [ChainNext]_chain,
         TypeOK', LinkType', LinkInTime', FollowType', Ticking'
  PROVE  Heard'
<1> SUFFICES ASSUME Ordered', lost' <= MaxLost, ~Right' \/ Moving'
             PROVE  CountedNext(Age', lost')
  BY DEF Heard, Counted, CountedNext
<1>0. /\ now \in Nat /\ (now' = now \/ now' = now + 1)
      /\ steady' \in Nat /\ steady' <= steady + (now' - now)
  BY ClockSteps, SteadySteps DEF TypeOK
<1>t. /\ Len(topic) \in Nat /\ silence \in Nat /\ steady \in Nat /\ lost \in Nat
      /\ Age \in Nat /\ Age <= steady
  BY Topic
<1>n. /\ Len(topic') \in Nat /\ Pub' \in {0, 1} /\ silence' \in Nat /\ lost' \in Nat
      /\ Age' \in Nat /\ Age' <= steady'
      /\ Age' = IF Right' /\ silence' < steady' THEN silence' ELSE steady'
  BY DEF LinkType, FollowType, Pub, Age
<1>y. ASSUME Age' = 0, stops_left' = StopRepeat PROVE CountedNext(Age', lost')
  <2>1. StopRepeat - stops_left' <= lost' + Len(topic') + Pub' /\ lost' \in Int
    BY <1>n, <1>y, Gaps
  <2> QED
    BY <1>y, <2>1, Young
<1>1. CASE ~Same
  <2>1. steady' = 0 /\ stops_left' = StopRepeat
    BY <1>1, Rearmed
  <2>2. Age' = 0
    BY <1>n, <2>1
  <2> QED
    BY <2>1, <2>2, <1>y
<1>2. CASE Same /\ Takes
  <2>1. UNCHANGED <<now, stops_left, Moving, Goal>>
    BY <1>2 DEF Takes, vars, latch, Same
  <2>2. steady' <= steady
    BY <1>0, <1>t, <2>1
  <2>3. CASE Deliver
    <3>1. lost' = 0 /\ silence' = 0 /\ order' = OrderOf(Head(topic).msg)
      BY <2>3 DEF Deliver, Board!Hear
    <3>2. CASE Right'
      <4>1. Moving' /\ Age' = 0
        BY <1>n, <3>1, <3>2
      <4>2. stops_left' = StopRepeat
        BY <4>1, <2>1, StopsToCome
      <4> QED
        BY <4>1, <4>2, <1>y
    <3>3. CASE ~Right'
      <4>1. 1 \in 1..Len(topic) /\ topic[1].msg # Goal
        BY <1>2, <2>1, <3>1, <3>3, Queue DEF Takes, Right
      <4>2. Counted(steady, -1)
        BY <1>2, <4>1 DEF Ahead, Same
      <4>3. CountedNext(Age', -1 + 1)
        <5>1. Age' <= steady /\ -1 \in Int
          <6> DEFINE a == Age'
          <6>1. a \in Nat /\ a <= steady'
            BY <1>n
          <6> HIDE DEF a
          <6>2. a <= steady
            BY <1>0, <1>t, <2>2, <6>1
          <6> QED
            BY <6>2 DEF a
        <5> QED
          BY <1>n, <1>t, <1>2, <4>2, <5>1, TakenCount
      <4> QED
        BY <3>1, <4>3
    <3> QED
      BY <3>2, <3>3
  <2>4. CASE lost' = CountTo(MaxLost, lost) /\ UNCHANGED <<order, silence>>
    <3>1. lost' = lost + 1 /\ lost <= MaxLost
      BY <1>t, <2>4, Gaps DEF CountTo
    <3>2. Right' = Right
      BY <2>1, <2>4 DEF Right
    <3>3. Age' <= Age
      <4>1. Age' = IF Right /\ silence < steady' THEN silence ELSE steady'
        BY <1>n, <2>4, <3>2
      <4>2. Age = IF Right /\ silence < steady THEN silence ELSE steady
        BY DEF Age
      <4> DEFINE a == Age'
                 b == Age
      <4> HIDE DEF a, b
      <4>3. a = (IF Right /\ silence < steady' THEN silence ELSE steady')
            /\ b = (IF Right /\ silence < steady THEN silence ELSE steady)
        BY <4>1, <4>2 DEF a, b
      <4>4. a <= b
        BY <1>0, <1>t, <2>2, <4>3
      <4> QED
        BY <4>4 DEF a, b
    <3>4. Counted(Age, lost)
      BY <1>2, <2>1, <3>1, <3>2 DEF Heard, Same
    <3>5. CountedNext(Age', lost + 1)
      BY <1>n, <1>t, <1>2, <3>3, <3>4, TakenCount
    <3> QED
      BY <3>1, <3>5
  <2> QED
    BY <1>2, <2>3, <2>4, TakesKinds
<1>3. CASE Same /\ ~Takes
  <2>1. CASE BoardFails /\ order' = Board!Idle
    <3>1. steady' = 0 /\ UNCHANGED <<Moving, stops_left, Goal>>
      BY <2>1, SteadySteps DEF BoardFails, vars, latch, Moving, Goal
    <3>2. Age' = 0
      BY <1>n, <3>1
    <3>3. Moving
      <4>1. ~Moving => Right'
        BY <2>1, <3>1, StopIsIdle DEF Right, Goal
      <4> QED
        BY <3>1, <4>1
    <3> QED
      BY <3>1, <3>2, <3>3, StopsToCome, <1>y
  <2>2. CASE order' = order /\ ~BoardFails
    <3>1. Right' = Right
      BY <1>3, <2>2 DEF Right, Same
    <3>2. Moving' => Moving
      <4>1. ASSUME Moving', ~Moving PROVE FALSE
        <5>1. lin' = 0 /\ ang' = 0
          BY <1>3, <4>1 DEF Same, Goal, Zero
        <5>2. until' > 0
          BY <4>1 DEF Moving, TypeOK
        <5> QED
          BY <5>1, <5>2 DEF Ticking
      <4> QED
        BY <4>1
    <3>3. lost' = lost /\ silence' <= silence + (now' - now)
      BY <1>3, <2>2, OrderKept
    <3>4. Age' <= Age + (now' - now)
      BY <1>0, <1>t, <1>n, <3>1, <3>3 DEF Age
    <3>5. Counted(Age, lost)
      BY <1>3, <3>1, <3>2, <3>3 DEF Heard, Same
    <3>6. CountedNext(Age', lost)
      <4>1. lost \in Int
        BY <1>t
      <4> QED
        BY <1>3, <1>t, <1>n, <3>4, <3>5, <4>1, CountKept
    <3> QED
      BY <3>3, <3>6
  <2>3. BoardFails => order' = Board!Idle
    BY DEF BoardFails, Board!Fail
  <2> QED
    BY <1>3, <2>1, <2>2, <2>3, OrderKept
<1> QED
  BY <1>1, <1>2, <1>3
-----------------------------------------------------------------------------
(* So the board hears in time, and obeys.                                  *)

LEMMA AgeBound ==
  ASSUME TypeOK, LinkType, LinkInTime, FollowType, Ticking, Heard,
         Ordered, lost <= MaxLost, ~Right \/ Moving
  PROVE  Age <= OrderBound
<1> DEFINE a == Age
           r == Periods(lost + 1)
           R == Periods(MaxLost + 1)
<1>1. Counted(a, lost)
  BY DEF Heard
<1>2. a \in Nat /\ a <= steady /\ steady \in Nat /\ lost \in Nat /\ Len(topic) \in Nat
  BY Topic
<1>3. r \in Int /\ R \in Int /\ r <= R
  <2>1. lost + 1 \in Int /\ MaxLost + 1 \in Int /\ lost + 1 <= MaxLost + 1
    BY <1>2, Gaps
  <2> QED
    BY <2>1, PeriodsAre
<1>4. OrderBound = R + 2 * TickGap + Latency /\ Latency \in Nat /\ PubPeriod + TickGap <= OrderBound
  BY OrderBounds, Bounds
<1>5. now <= tnow + TickGap
  BY DEF Ticking
<1> HIDE DEF a
<1>6. CASE topic # <<>>
  <2>1. 1 \in 1..Len(topic)
    BY <1>6, Queue
  <2>2. lost + 1 > 0
    BY <1>2
  <2> DEFINE t == topic[1].at
  <2>3. t + a <= now + r + 2 * TickGap
    BY <1>1, <2>1, <2>2 DEF Counted
  <2>4. t \in Nat /\ now <= t + Latency
    BY <2>1, Stamped DEF LinkInTime
  <2> HIDE DEF t, r, R
  <2>5. a <= OrderBound
    BY <1>2, <1>3, <1>4, <2>3, <2>4, Clocks, Gaps
  <2> QED
    BY <2>5 DEF a
<1>7. CASE topic = <<>> /\ tpc = "publish"
  <2>1. lost + Len(topic) + 1 = lost + 1
    BY <1>2, <1>7
  <2>2. tnow + a <= now + r + TickGap
    BY <1>1, <1>7, <2>1 DEF Counted
  <2> HIDE DEF r, R
  <2>3. a <= OrderBound
    BY <1>2, <1>3, <1>4, <1>5, <2>2, Clocks, Gaps
  <2> QED
    BY <2>3 DEF a
<1>8. CASE topic = <<>> /\ tpc # "publish"
  <2>1. Pub = 0 /\ lost + Len(topic) + Pub + 1 = lost + 1 /\ lost + Len(topic) + Pub = lost
    BY <1>2, <1>8 DEF Pub
  <2>2. StopRepeat - stops_left <= lost /\ stops_left \in Int
    BY <1>1, <2>1 DEF Counted, TypeOK
  <2>3. stops_left > 0
    BY <1>2, <2>2, Gaps
  <2>4. next_pub + a <= now + r
    BY <1>1, <2>1, <2>3 DEF Counted
  <2> HIDE DEF r, R
  <2>5. CASE tpc # "lock"
    <3>1. tnow <= next_pub \/ steady + tnow <= now + ServeGap
      BY <2>5 DEF Ticking
    <3>2. ASSUME tnow <= next_pub PROVE a <= OrderBound
      BY <1>2, <1>3, <1>4, <1>5, <2>4, <3>2, Clocks, Gaps
    <3>3. ASSUME steady + tnow <= now + ServeGap PROVE a <= OrderBound
      <4>1. steady <= ServeGap + TickGap
        BY <1>2, <1>5, <3>3, Clocks, Gaps
      <4>2. a <= steady /\ OrderBound \in Int
        BY <1>2, OrderBounds
      <4> QED
        BY <1>2, <1>4, <4>1, <4>2, Gaps
    <3> QED
      BY <3>1, <3>2, <3>3 DEF a
  <2>6. CASE tpc = "lock"
    <3>1. tnow <= next_pub + TickGap \/ steady + tnow <= now + PubPeriod
      BY <2>6 DEF Ticking
    <3>2. ASSUME tnow <= next_pub + TickGap PROVE a <= OrderBound
      BY <1>2, <1>3, <1>4, <1>5, <2>4, <3>2, Clocks, Gaps
    <3>3. ASSUME steady + tnow <= now + PubPeriod PROVE a <= OrderBound
      <4>1. steady <= PubPeriod + TickGap
        BY <1>2, <1>5, <3>3, Clocks, Gaps
      <4>2. a <= steady /\ OrderBound \in Int
        BY <1>2, OrderBounds
      <4> QED
        BY <1>2, <1>4, <4>1, <4>2, Gaps
    <3> QED
      BY <3>1, <3>2, <3>3 DEF a
  <2> QED
    BY <2>5, <2>6
<1> QED
  BY <1>6, <1>7, <1>8

\* A board that holds the right order, and does not obey it though it is old, can
\* do so only if nothing has changed for no longer than the order took.
LEMMA Stutters ==
  ASSUME TypeOK, StopInv, FollowType, Ticking, Heard, Ordered, lost <= MaxLost,
         Right, ~Board!Obeys, silence > Hold
  PROVE  steady <= OrderBound
<1>1. silence \in Nat /\ steady \in Nat /\ OrderBound \in Nat /\ OrderBound <= Hold /\ Hold \in Nat
      /\ Lag \in Nat /\ Lag <= Hold
  BY OrderBounds, Topic, Bounds DEF StopInv
<1>2. CASE Moving
  <2>1. Age <= OrderBound
    BY <1>2, AgeBound DEF StopInv
  <2>2. Age = IF silence < steady THEN silence ELSE steady
    BY DEF Age
  <2> QED
    BY <1>1, <2>1, <2>2
<1>3. CASE ~Moving
  <2>1. order = Board!Idle
    BY <1>3, StopIsIdle DEF Right, Goal
  <2>2. ~Board!Still
    BY <2>1 DEF Board!Obeys, Board!Still, Board!Idle
  <2>3. silence <= Lag
    BY <2>1, <2>2 DEF StopInv, Turning
  <2> QED
    BY <1>1, <2>3
<1> QED
  BY <1>2, <1>3

LEMMA NextFollow ==
  ASSUME TypeOK, StopInv, FollowInv, [ChainNext]_chain, StopInv', FollowType', TypeOK'
  PROVE  Follow'
<1> SUFFICES ASSUME Right', ~Board!Obeys', ~(silence' > Hold), steady' # 0
             PROVE  steady' <= OrderBound + silence'
  <2>1. OrderBound \in Nat /\ silence' \in Nat /\ steady' \in Nat
    BY OrderBounds DEF StopInv, LinkType, FollowType
  <2> QED
    <3> DEFINE b == silence'
    <3>1. ASSUME steady' = 0 PROVE steady' <= OrderBound + silence'
      <4>1. b \in Nat
        BY <2>1
      <4> HIDE DEF b
      <4>2. 0 <= OrderBound + b
        BY <2>1, <4>1
      <4> QED
        BY <3>1, <4>2 DEF b
    <3> QED
      BY <3>1 DEF Follow
<1>0. /\ silence \in Nat /\ silence' \in Nat /\ steady \in Nat /\ steady' \in Nat
      /\ OrderBound \in Nat /\ Hold \in Nat /\ Limit \in Nat /\ Hold <= Limit
  BY OrderBounds, Bounds DEF StopInv, LinkType, FollowInv, FollowType
<1>1. /\ steady' <= steady + (now' - now) /\ Goal' = Goal
      /\ Ordered \/ UNCHANGED chain
  BY SteadySteps DEF FollowInv
<1>2. UNCHANGED now => steady' <= steady
  BY <1>0, <1>1, Clocks
<1>3. CASE Deliver /\ Board!Hear(OrderOf(Head(topic).msg)) /\ topic # <<>> /\ UNCHANGED now
  <2>1. silence' = 0 /\ UNCHANGED <<left, right>> /\ Board!Settled /\ order' = OrderOf(Head(topic).msg)
    BY <1>3 DEF Board!Hear
  <2>2. lost <= MaxLost
    BY <1>0, <1>2, <1>3 DEF FollowInv, Ticking
  <2>3. Ordered
    <3>1. UNCHANGED chain => UNCHANGED topic
      BY DEF chain, link
    <3>2. Len(topic') # Len(topic)
      <4>1. Len(topic) \in Nat /\ Len(topic') = Len(topic) - 1
        BY <1>3, Queue DEF Deliver, StopInv, LinkType
      <4> QED
        BY <4>1
    <3> QED
      BY <1>1, <3>1, <3>2
  <2>4. steady <= OrderBound
    <3>1. CASE ~Right
      <4>1. Age = steady
        BY <3>1 DEF Age
      <4> QED
        BY <2>2, <2>3, <3>1, <4>1, AgeBound DEF StopInv, FollowInv
    <3>2. CASE Right
      <4>1. order' = order
        BY <1>1, <3>2 DEF Right
      <4>2. ~Board!Obeys
        BY <2>1, <4>1 DEF Board!Obeys
      <4>3. silence > Hold
        BY <2>1, <4>2 DEF Board!Settled
      <4> QED
        BY <2>2, <2>3, <3>2, <4>2, <4>3, Stutters DEF FollowInv
    <3> QED
      BY <3>1, <3>2
  <2> QED
    BY <1>0, <1>2, <1>3, <2>1, <2>4
<1>4. CASE Board!Turn /\ UNCHANGED now
  <2>1. /\ UNCHANGED <<order, silence>>
        /\ left' \in Board!May(left, order.left) /\ right' \in Board!May(right, order.right)
    BY <1>4 DEF Board!Turn
  <2>2. Right
    BY <1>1, <2>1 DEF Right
  <2>3. ~Board!Obeys
    BY <2>1 DEF Board!Obeys, Board!May
  <2> QED
    BY <1>0, <1>2, <1>4, <2>1, <2>2, <2>3 DEF FollowInv, Follow
<1>5. CASE UNCHANGED board /\ UNCHANGED now
  <2>1. Right /\ ~Board!Obeys /\ silence' = silence
    BY <1>1, <1>5 DEF Right, board, Board!Obeys
  <2> QED
    BY <1>0, <1>2, <1>5, <2>1 DEF FollowInv, Follow
<1>6. CASE Pass
  <2>1. UNCHANGED <<order, left, right>> /\ silence' = IF silence > Limit THEN silence ELSE silence + 1
    BY <1>6 DEF Pass, Board!Pass
  <2>2. Right /\ ~Board!Obeys
    BY <1>1, <2>1 DEF Right, Board!Obeys
  <2>3. silence' = silence + 1 /\ ~(silence > Hold)
    BY <1>0, <2>1
  <2>4. now' = now + 1 /\ steady <= OrderBound + silence
    BY <1>6, <2>2, <2>3 DEF Pass, Advance, FollowInv, Follow
  <2> QED
    BY <1>0, <1>1, <2>3, <2>4, Clocks
<1>7. CASE Board!Fail /\ UNCHANGED now
  <2>1. left' = order'.left /\ right' = order'.right
    BY <1>7 DEF Board!Fail, Board!Idle
  <2> QED
    BY <2>1 DEF Board!Obeys
<1> QED
  BY <1>3, <1>4, <1>5, <1>6, <1>7, BoardSteps, ClockSteps
LEMMA FollowInvariance == ChainSpec => [](TypeOK /\ CountInv /\ StopInv /\ FollowInv)
<1>1. ChainInit => FollowInv
  <2> SUFFICES ASSUME ChainInit PROVE FollowInv
    OBVIOUS
  <2>1. /\ topic = <<>> /\ lost = 0 /\ steady = 0 /\ silence = 0 /\ Board!Obeys
        /\ now = 0 /\ tnow = 0 /\ until = 0 /\ next_pub = 0 /\ tpc = "idle" /\ ~Ordered
    BY DEF ChainInit, Init, Board!Init, Board!Obeys, Board!Idle, Ordered
  <2>2. FollowType /\ Ticking
    BY <2>1, Gaps DEF FollowType, Ticking
  <2> QED
    BY <2>1, <2>2 DEF FollowInv, Settles, Ahead, Decided, Heard, Follow
<1>2. TypeOK /\ CountInv /\ StopInv /\ FollowInv /\ (TypeOK /\ CountInv /\ StopInv)' /\ [ChainNext]_chain
      => FollowInv'
  <2> SUFFICES ASSUME TypeOK, CountInv, StopInv, FollowInv, TypeOK', StopInv', [ChainNext]_chain
               PROVE  FollowInv'
    OBVIOUS
  <2>1. FollowType'
    BY SteadySteps DEF FollowInv, FollowType
  <2>2. Ticking'
    BY NextTicking DEF FollowInv
  <2>3. Settles'
    BY NextSettles DEF FollowInv, StopInv
  <2>4. LinkType /\ LinkInTime /\ LinkType' /\ LinkInTime'
    BY DEF StopInv
  <2>5. Ahead'
    BY <2>1, <2>2, <2>4, NextAhead DEF FollowInv
  <2>6. Decided'
    BY <2>1, <2>2, <2>4, NextDecided DEF FollowInv
  <2>7. Heard'
    BY <2>1, <2>2, <2>4, NextHeard DEF FollowInv
  <2>8. Follow'
    BY <2>1, NextFollow
  <2> QED
    BY <2>1, <2>2, <2>3, <2>5, <2>6, <2>7, <2>8 DEF FollowInv
<1> QED
  BY <1>1, <1>2, BridgeInChain, StopInvariance, PTL DEF ChainSpec

\* With no more than MaxLost messages lost in a row, the wheels do as the bridge
\* says once that has been the same for FollowBound.
THEOREM ChainFollows == ChainSpec => []WheelsFollow
<1>1. TypeOK /\ StopInv /\ FollowInv => WheelsFollow
  <2> SUFFICES ASSUME TypeOK, StopInv, FollowInv, steady > FollowBound PROVE Right /\ Board!Obeys
    BY DEF WheelsFollow, Right, Board!Obeys
  <2>1. /\ steady \in Nat /\ silence \in Nat /\ lost \in Nat /\ Lag \in Nat /\ Hold \in Nat
        /\ OrderBound \in Nat /\ FollowBound = OrderBound + Lag /\ PubPeriod < FollowBound /\ PubPeriod \in Nat
    BY OrderBounds, Bounds, Gaps DEF StopInv, LinkType, FollowInv, FollowType
  <2>2. Ordered /\ lost <= MaxLost /\ steady > OrderBound + Lag
    BY <2>1 DEF FollowInv, Ticking
  <2>3. Right
    <3>1. ~Right => Age = steady
      BY DEF Age
    <3>2. ~Right => Age <= OrderBound
      BY <2>2, AgeBound DEF StopInv, FollowInv
    <3> QED
      BY <2>1, <2>2, <3>1, <3>2
  <2>4. Board!Obeys
    <3>1. SUFFICES ASSUME ~Board!Obeys PROVE FALSE
      OBVIOUS
    <3>2. ~(silence > Hold)
      <4>1. silence > Hold => steady <= OrderBound
        BY <2>2, <2>3, <3>1, Stutters DEF FollowInv
      <4> QED
        BY <2>1, <2>2, <4>1
    <3>3. steady <= OrderBound + silence
      BY <2>3, <3>1, <3>2 DEF FollowInv, Follow
    <3> QED
      BY <2>1, <2>2, <3>1, <3>2, <3>3 DEF FollowInv, Settles
  <2> QED
    BY <2>3, <2>4
<1> QED
  BY <1>1, FollowInvariance, PTL
=============================================================================
