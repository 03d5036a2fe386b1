---------------------------- MODULE CmdVelBridge ----------------------------
(***************************************************************************)
(* firmware/cmd_vel_bridge.py: the resident process that turns one JSON    *)
(* line into a timed sequence of Twist messages on /cmd_vel.  Two threads  *)
(* share the Bridge object under one lock: the executor thread that runs   *)
(* tick every TICK_S and the daemon thread that runs serve.  Both read the *)
(* monotonic clock BEFORE they take the lock, and tick publishes AFTER it  *)
(* has left it; those two gaps are steps of their own here.                *)
(*                                                                         *)
(* One unit of time is TICK_S, 20 ms.  The scheduling of the two threads   *)
(* is free up to the gaps TickGap and ServeGap.                            *)
(***************************************************************************)
EXTENDS Integers

CONSTANTS
  Lin, Ang,     \* the speeds a client may ask for
  Dur,          \* the durations a client may ask for, valid or not
  MaxDuration,  \* MAX_DURATION
  PubPeriod,    \* 1 / RATE_HZ
  StopRepeat,   \* STOP_REPEAT
  InTime,       \* ticks that start no further apart than this are in time,
  TickGap,      \* but they may be this far apart
  ServeGap,     \* serve gets the lock at most this long after it read the clock
  MaxTime       \* bound of the model: the clock stops here

ASSUME SpeedAssumption == /\ Lin \subseteq Int
                          /\ Ang \subseteq Int
                          /\ 0 \in Lin \cap Ang
ASSUME TimeAssumption == /\ Dur \subseteq Int
                         /\ MaxDuration \in Nat
                         /\ PubPeriod \in Nat \ {0}
                         /\ StopRepeat \in Nat \ {0}
                         /\ InTime \in 1..PubPeriod
                         /\ TickGap \in Nat \ {0}
                         /\ ServeGap \in Nat
                         /\ MaxTime \in Nat

\* A tick that is in time and a serve thread that waits for the lock take less than
\* a period together (20 ms of TICK_S and the lock's few, against 100 ms).
ASSUME PunctualAssumption == InTime + ServeGap < PubPeriod

VARIABLES
  now,         \* time.monotonic()
  up,          \* is the process running?
  lin, ang,    \* the motion being commanded ...
  until,       \* ... and the time at which it ends (0: there is none)
  next_pub,    \* the time of the next publication
  stops_left,  \* stop messages still to be sent
  blocked,     \* has the guard reported an obstacle?
  tpc,         \* executor thread: "idle", "lock" (waits for it), "publish"
  tnow,        \* the clock as tick read it
  out,         \* the Twist tick is about to publish
  spc,         \* serve thread: "accept", "read", "set", "block", "reply", "error",
               \* "dead"
  req,         \* the request set or set_block is honouring
  snow,        \* the clock as it read it
  log          \* history, for the properties only (see LogType)

latch == <<lin, ang, until, next_pub, stops_left, blocked>>
timer == <<tpc, tnow, out>>
server == <<spc, req, snow>>
vars == <<now, up, latch, timer, server, log>>

Twist == [lin : Lin, ang : Ang]
Zero == [lin |-> 0, ang |-> 0]

DriveRequest == [kind : {"drive"}, lin : Lin, ang : Ang, dur : Dur]
BlockRequest == [kind : {"block"}, on : BOOLEAN]
NoRequest == [kind |-> "none"]
Status == [kind |-> "status"]
Garbled == [kind |-> "garbled"]   \* not JSON, a missing key, end of file
Request == DriveRequest \cup BlockRequest \cup {Status, Garbled}

\* History: the order in force (the duration asked for, 0 for a stop; the time
\* at which its motion is to end), the drive and stop messages decided for it,
\* whether a block came after the last forward command and, if so, the forward
\* messages published since, and whether a tick has been late since the order.
LogType == [due : Nat, end : Nat, moves : Nat, stops : Nat,
            shut : BOOLEAN, forward : Nat, late : BOOLEAN]
NewOrder(due, end) ==
  [log EXCEPT !.due = due, !.end = end, !.moves = 0, !.stops = 0, !.late = FALSE]

Moving == now < until
Goal == IF Moving THEN [lin |-> lin, ang |-> ang] ELSE Zero

-----------------------------------------------------------------------------
\* Bridge.__init__, the executor waiting for the timer, serve in accept.
Fresh ==
  /\ lin' = 0 /\ ang' = 0
  /\ until' = 0
  /\ next_pub' = 0
  /\ stops_left' = 0
  /\ blocked' = FALSE
  /\ tpc' = "idle" /\ tnow' = now /\ out' = Zero
  /\ spc' = "accept" /\ req' = NoRequest /\ snow' = 0
  /\ log' = [due |-> 0, end |-> 0, moves |-> 0, stops |-> StopRepeat,
             shut |-> FALSE, forward |-> 0, late |-> FALSE]

Init ==
  /\ now = 0
  /\ up = TRUE
  /\ lin = 0 /\ ang = 0
  /\ until = 0
  /\ next_pub = 0
  /\ stops_left = 0
  /\ blocked = FALSE
  /\ tpc = "idle" /\ tnow = 0 /\ out = Zero
  /\ spc = "accept" /\ req = NoRequest /\ snow = 0
  /\ log = [due |-> 0, end |-> 0, moves |-> 0, stops |-> StopRepeat,
            shut |-> FALSE, forward |-> 0, late |-> FALSE]

-----------------------------------------------------------------------------
(* The clock.                                                              *)

\* The threads are scheduled in time: the clock does not leave a due tick or
\* a serve thread that waits for the lock behind.
MayWait ==
  up => /\ now < tnow + TickGap
        /\ spc \in {"set", "block"} => now < snow + ServeGap

Advance ==
  /\ now < MaxTime
  /\ MayWait
  /\ now' = now + 1
  /\ UNCHANGED <<up, latch, timer, server, log>>

-----------------------------------------------------------------------------
(* The executor thread: tick.                                              *)

\* now = time.monotonic(), before the lock.
TickStart ==
  /\ up /\ tpc = "idle"
  /\ tpc' = "lock"
  /\ tnow' = now
  /\ log' = [log EXCEPT !.late = @ \/ now > tnow + InTime]
  /\ UNCHANGED <<now, up, latch, out, server>>

\* With the lock held, before the next publication is due.
TickEarly ==
  /\ tpc = "lock"
  /\ tnow < next_pub
  /\ tpc' = "idle"
  /\ UNCHANGED <<now, up, latch, tnow, out, server, log>>

\* Bug: the next publication counted from this one (9 Hz, not 10).
NextPubDrifts(t) == t + PubPeriod

\* Bug: every tick takes itself to be late, and adds the period once more (5 Hz).
NextPubTwice(t) == next_pub + PubPeriod + PubPeriod

\* The next publication is one period after this one was due, not after it was
\* made, unless that is already past.
NextPub(t) == IF next_pub + PubPeriod < t THEN t + PubPeriod
                                          ELSE next_pub + PubPeriod

\* Bug: a publication with every tick, due or not.
TickAlwaysDue ==
  /\ tpc = "lock"
  /\ next_pub' = NextPub(tnow)
  /\ UNCHANGED <<now, up, lin, ang, until, blocked, tnow, server>>

TickDue ==
  /\ tpc = "lock"
  /\ tnow >= next_pub
  /\ next_pub' = NextPub(tnow)
  /\ UNCHANGED <<now, up, lin, ang, until, blocked, tnow, server>>

TickDrive ==
  /\ TickDue
  /\ tnow < until
  /\ out' = [lin |-> lin, ang |-> ang]
  /\ tpc' = "publish"
  /\ log' = [log EXCEPT !.moves = @ + 1]
  /\ UNCHANGED stops_left

\* Bug: the stop messages never run out.
TickStopForever ==
  /\ TickDue
  /\ tnow >= until
  /\ stops_left' = stops_left - 1
  /\ out' = Zero
  /\ tpc' = "publish"
  /\ log' = [log EXCEPT !.stops = @ + 1]

TickStop ==
  /\ TickDue
  /\ tnow >= until
  /\ stops_left > 0
  /\ stops_left' = stops_left - 1
  /\ out' = Zero
  /\ tpc' = "publish"
  /\ log' = [log EXCEPT !.stops = @ + 1]

TickQuiet ==
  /\ TickDue
  /\ tnow >= until
  /\ stops_left = 0
  /\ tpc' = "idle"
  /\ UNCHANGED <<stops_left, out, log>>

\* pub.publish(m), the lock already released.
TickPublish ==
  /\ tpc = "publish"
  /\ tpc' = "idle"
  /\ out' = Zero
  /\ log' = IF log.shut /\ out.lin > 0 THEN [log EXCEPT !.forward = @ + 1] ELSE log
  /\ UNCHANGED <<now, up, latch, tnow, server>>

-----------------------------------------------------------------------------
(* The serve thread: one connection at a time, from accept to the reply.   *)

Accept ==
  /\ up /\ spc = "accept"
  /\ spc' = "read"
  /\ UNCHANGED <<now, up, latch, timer, req, snow, log>>

Valid(r) == r.dur \in 0..MaxDuration

\* What comes after the request has been parsed and checked.
Dispatch(r) ==
  CASE r.kind = "garbled" -> "error"
    [] r.kind = "status"  -> "reply"
    [] r.kind = "block"   -> "block"
    [] OTHER              -> IF Valid(r) THEN "set" ELSE "error"

\* readline returns: the request is parsed and dispatched, and set and
\* set_block read the clock first.  readline has no timeout.
Receive(r) ==
  /\ spc = "read"
  /\ spc' = Dispatch(r)
  /\ IF spc' \in {"set", "block"} THEN req' = r /\ snow' = now
                                 ELSE UNCHANGED <<req, snow>>
  /\ UNCHANGED <<now, up, latch, timer, log>>

\* Leaving set or set_block, with the reply or the error to be sent.
Done(pc) ==
  /\ spc' = pc
  /\ req' = NoRequest
  /\ snow' = 0

\* Bug: the block is forgotten when a command comes in.
NeverRefused(r) == FALSE

Refused(r) == blocked /\ r.lin > 0 /\ r.dur > 0
Drives(r) == r.dur > 0 /\ (r.lin # 0 \/ r.ang # 0)

\* set raises: a forward command while the way ahead is blocked.
RefuseForward ==
  /\ spc = "set"
  /\ Refused(req)
  /\ Done("error")
  /\ UNCHANGED <<now, up, latch, timer, log>>

\* Bug: the stop burst is not armed again.
SetKeepsBurst ==
  /\ spc = "set"
  /\ ~Refused(req)
  /\ next_pub' = snow
  /\ Done("reply")
  /\ UNCHANGED <<now, up, stops_left, blocked, timer>>

\* What set does when it does not raise, whichever branch it takes.
Set ==
  /\ spc = "set"
  /\ ~Refused(req)
  /\ stops_left' = StopRepeat
  /\ next_pub' = snow
  /\ Done("reply")
  /\ UNCHANGED <<now, up, blocked, timer>>

SetDrive ==
  /\ Set
  /\ Drives(req)
  /\ lin' = req.lin
  /\ ang' = req.ang
  /\ until' = snow + req.dur
  /\ log' = [NewOrder(req.dur, snow + req.dur) EXCEPT
               !.shut = @ /\ req.lin <= 0,
               !.forward = IF req.lin > 0 THEN 0 ELSE @]

SetStop ==
  /\ Set
  /\ ~Drives(req)
  /\ until' = 0
  /\ log' = NewOrder(0, snow)
  /\ UNCHANGED <<lin, ang>>

\* Bug: a block cuts whatever motion there is, and no way out is left.
CutsAnything(on) == on /\ snow < until

\* Bug: a block only concerns the commands that follow.
CutsNothing(on) == FALSE

\* set_block: a forward motion is cut, and only a forward motion.
Cuts(on) == on /\ lin > 0 /\ snow < until

SetBlock ==
  /\ spc = "block"
  /\ blocked' = req.on
  /\ IF Cuts(req.on)
       THEN /\ until' = 0
            /\ stops_left' = StopRepeat
            /\ next_pub' = snow
            /\ log' = [NewOrder(0, snow) EXCEPT !.shut = TRUE]
       ELSE /\ log' = [log EXCEPT !.shut = @ \/ req.on]
            /\ UNCHANGED <<until, stops_left, next_pub>>
  /\ Done("reply")
  /\ UNCHANGED <<now, up, lin, ang, timer>>

\* current_linear, read for the reply to a request that was honoured.
CurrentLinear == IF Moving THEN lin ELSE 0

\* sendall, and the next accept; an error is reported and survived.
Reply ==
  /\ spc \in {"reply", "error"}
  /\ spc' = "accept"
  /\ UNCHANGED <<now, up, latch, timer, req, snow, log>>

\* The client has reset the connection: sendall raises outside the try, and
\* the thread ends while tick goes on.
ReplyFails ==
  /\ spc \in {"reply", "error"}
  /\ spc' = "dead"
  /\ UNCHANGED <<now, up, latch, timer, req, snow, log>>

-----------------------------------------------------------------------------
(* The process dies, and is started again.  Nothing is stored.             *)

Crash ==
  /\ up
  /\ up' = FALSE
  /\ Fresh
  /\ UNCHANGED now

Restart ==
  /\ ~up
  /\ up' = TRUE
  /\ Fresh
  /\ UNCHANGED now

Tick ==
  \/ TickStart
  \/ TickEarly
  \/ TickDrive
  \/ TickStop
  \/ TickQuiet
  \/ TickPublish

Honour ==
  \/ RefuseForward
  \/ SetDrive
  \/ SetStop
  \/ SetBlock
  \/ Reply
  \/ ReplyFails

Next ==
  \/ Advance
  \/ Tick
  \/ Accept
  \/ \E r \in Request : Receive(r)
  \/ Honour
  \/ Crash
  \/ Restart

Spec == Init /\ [][Next]_vars

-----------------------------------------------------------------------------
(* Properties.                                                             *)

\* Types, and what the fields mean at each program point: a request is held
\* only while it is served, and set and set_block only see theirs.
TypeOK ==
  /\ now \in Nat
  /\ up \in BOOLEAN
  /\ lin \in Lin /\ ang \in Ang
  /\ until \in Nat /\ next_pub \in Nat
  /\ stops_left \in 0..StopRepeat
  /\ blocked \in BOOLEAN
  /\ tpc \in {"idle", "lock", "publish"}
  /\ tnow \in 0..now
  /\ out \in Twist
  /\ spc \in {"accept", "read", "set", "block", "reply", "error", "dead"}
  /\ req \in Request \cup {NoRequest}
  /\ spc = "set" => req \in DriveRequest /\ Valid(req)
  /\ spc = "block" => req \in BlockRequest
  /\ snow \in 0..now
  /\ log \in LogType

\* While an obstacle is reported no forward motion is in force, although
\* set_block judges by a clock it read before it had the lock
\* (cmd_vel_bridge.py:45-52, the docstring's line 12).
BlockedStopsForward == blocked /\ lin > 0 => ~Moving

\* From the moment a block is accepted until a forward command is accepted
\* again, at most one forward message is published: the one tick had decided
\* on when it left the lock (cmd_vel_bridge.py:80-89).
OneForwardAfterBlock == log.forward <= 1

FloorDiv(a, b) == a \div b
CeilDiv(a, b) == (a + b - 1) \div b

\* A command of duration d is published for at most ceil(d / period) messages,
\* however late the ticks are (cmd_vel_bridge.py:76-81).
NeverTooMany == log.moves <= CeilDiv(log.due, PubPeriod)

\* With ticks in time, a command that has run to its end was published
\* floor(d / period) times at least: lateness within a period is made up for,
\* not accumulated (cmd_vel_bridge.py:76-77; BENCHMARK.md counts 20 messages for
\* 2 seconds).
NeverTooFew ==
  log.stops > 0 /\ ~log.late => log.moves >= FloorDiv(log.due, PubPeriod)

\* With ticks in time, the k-th stop is decided within k periods, and the time
\* the threads may take (the tick to come, and to get the lock), of the moment the
\* motion ends: by itself, by a stop command or by a block
\* (cmd_vel_bridge.py:50-52, 63-65, 82-84).
StopsOnTime ==
  up /\ ~log.late /\ now <= tnow + InTime =>
    \A k \in 1..StopRepeat :
      now > log.end + k * PubPeriod + 2 * InTime + ServeGap => log.stops >= k

\* The bridge keeps the promise of DriveLatch: one motion at a time, cut by a
\* block, never resumed when the block is lifted, lost with the process.
Latch == INSTANCE DriveLatch WITH motion <- Goal
LatchSpec == Latch!Spec
=============================================================================
