--------------------------- MODULE ObstacleGuard ----------------------------
(***************************************************************************)
(* vision/obstacle_guard.py beside the bridge: the process that looks at   *)
(* the floor ahead, asks the bridge how fast the robot goes, and blocks    *)
(* and unblocks forward motion over one TCP connection per request.  The   *)
(* bridge is DriveLatch, which CmdVelBridge implements; its single serve   *)
(* thread takes the connections in the order of the listen queue.          *)
(*                                                                         *)
(* What a frame shows is abstracted to how far away the nearest object in  *)
(* the corridor is: close is beyond the stop line at any speed, mid only   *)
(* beyond the one for a moving robot, clear beyond none.                   *)
(***************************************************************************)
EXTENDS DriveLatch, Sequences

LOCAL INSTANCE SequencesExt

CONSTANTS
  NearFrames,   \* frames in a row that show an object before the guard blocks
  ClearFrames,  \* frames in a row that show none before it unblocks
  Backlog,      \* connections that wait for serve
  MaxCrashes    \* bound of the model: times the bridge process dies

ASSUME GuardAssumption == /\ NearFrames \in Nat \ {0}
                          /\ ClearFrames \in Nat \ {0}
                          /\ Backlog \in Nat \ {0}
                          /\ MaxCrashes \in Nat

VARIABLES
  ahead,     \* what is in front of the robot: "clear", "mid", "close"
  latest,    \* what the last frame of the camera shows
  cam,       \* the camera server: "live", "frozen" (its pipeline has ended, and it
             \* serves the last frame for ever), "gone"
  queue,     \* requests that serve has not taken yet
  answer,    \* the reply on the guard's connection, a speed, or no reply yet
  gpc,       \* the guard: see GuardPoints
  img,       \* the frame it is looking at
  near_streak, clear_streak,
  gblocked,  \* the guard's own idea of whether the way is blocked
  v,         \* the speed it believes
  crashes    \* times the bridge died

guard == <<gpc, img, near_streak, clear_streak, gblocked, v>>
wire == <<queue, answer>>
world == <<ahead, latest, cam>>
all == <<motion, blocked, world, wire, guard, crashes>>

Views == {"clear", "mid", "close"}
GuardPoints == {"start", "starting", "grab", "status", "asking", "decide",
                "block", "blocking", "unblock", "unblocking", "dead"}

\* A request on its way to serve; live while its sender waits for the reply.
DriveRequest == [kind : {"drive"}, m : Motion, live : {FALSE}]
GuardRequest == [kind : {"status", "block", "unblock"}, live : BOOLEAN]
Request == DriveRequest \cup GuardRequest

-----------------------------------------------------------------------------
GuardInit ==
  /\ Init
  /\ ahead \in Views
  /\ latest = ahead /\ cam = "live"
  /\ queue = <<>> /\ answer = <<>>
  /\ gpc = "start" /\ img = "clear"
  /\ near_streak = 0 /\ clear_streak = 0
  /\ gblocked = FALSE
  /\ v = 0
  /\ crashes = 0

(* The world: objects come and go, the camera delivers frames, or fails;    *)
(* somebody starts it again.                                               *)

Move ==
  /\ ahead' \in Views \ {ahead}
  /\ UNCHANGED <<motion, blocked, latest, cam, wire, guard, crashes>>

Capture ==
  /\ cam = "live"
  /\ latest' = ahead
  /\ UNCHANGED <<motion, blocked, ahead, cam, wire, guard, crashes>>

\* Its pipeline ends.
CamFreezes ==
  /\ cam = "live"
  /\ cam' = "frozen"
  /\ UNCHANGED <<motion, blocked, ahead, latest, wire, guard, crashes>>

\* No frames are served at all (latest says nothing any more).
CamGoes ==
  /\ cam # "gone"
  /\ cam' = "gone" /\ latest' = "clear"
  /\ UNCHANGED <<motion, blocked, ahead, wire, guard, crashes>>

CamStarts ==
  /\ cam # "live"
  /\ cam' = "live" /\ latest' = ahead
  /\ UNCHANGED <<motion, blocked, ahead, wire, guard, crashes>>

-----------------------------------------------------------------------------
(* The guard.  Each exchange with the bridge is a connection with a        *)
(* timeout: the request is queued, and then the reply comes or it does not.*)

Connect(kind, pc) ==
  /\ Len(queue) < Backlog
  /\ queue' = Append(queue, [kind |-> kind, live |-> TRUE])
  /\ answer' = <<>>
  /\ gpc' = pc
  /\ UNCHANGED <<motion, blocked, world, img, near_streak, clear_streak, gblocked, v, crashes>>

Replied == answer # <<>>

\* Bug: the request keeps its connection, so its reply may be taken for the
\* one to a later request.
AbandonKept ==
  /\ answer' = <<>>
  /\ UNCHANGED queue

\* Nobody waits for the reply any more; the request stays where it is.
Abandon ==
  /\ queue' = [i \in DOMAIN queue |->
                 IF queue[i].live THEN [queue[i] EXCEPT !.live = FALSE] ELSE queue[i]]
  /\ answer' = <<>>

\* Bug: the bridge is not told that the way is free.
StartSilently ==
  /\ gpc = "start"
  /\ gpc' = "grab"
  /\ UNCHANGED <<motion, blocked, world, wire, img, near_streak, clear_streak, gblocked, v, crashes>>

\* The floor is learnt from the first frame, which must show nothing close, and
\* the bridge told that the way is free, whatever it was told before.
Start ==
  /\ gpc = "start" /\ cam # "gone"
  /\ latest # "close"
  /\ Connect("unblock", "starting")

\* The guard's send has its reply.
Told ==
  /\ gpc \in {"starting", "blocking", "unblocking"}
  /\ Replied
  /\ answer' = <<>>
  /\ gpc' = "grab"
  /\ UNCHANGED <<motion, blocked, world, queue, img, near_streak, clear_streak, gblocked,
                 v, crashes>>

\* The bridge died with the request: readline returns the empty line of an end
\* of file, which send takes for a reply like any other.
HungUp ==
  /\ gpc \in {"starting", "blocking", "unblocking"}
  /\ ~Replied
  /\ \A i \in DOMAIN queue : ~queue[i].live
  /\ gpc' = "grab"
  /\ UNCHANGED <<motion, blocked, world, wire, img, near_streak, clear_streak, gblocked,
                 v, crashes>>

\* send raises, and nothing around it catches: no connection, or no reply in
\* time.  A first frame that does not come ends the guard as well.
Die ==
  /\ gpc \in {"start", "starting", "block", "blocking", "unblock", "unblocking"}
  /\ gpc' = "dead"
  /\ Abandon
  /\ UNCHANGED <<motion, blocked, world, img, near_streak, clear_streak, gblocked, v, crashes>>

\* Somebody starts it again.
Rerun ==
  /\ gpc = "dead"
  /\ gpc' = "start"
  /\ img' = "clear"
  /\ near_streak' = 0 /\ clear_streak' = 0
  /\ gblocked' = FALSE
  /\ v' = 0
  /\ UNCHANGED <<motion, blocked, world, wire, crashes>>

\* grab; one that fails is tried again, the streaks as they were.
Grab ==
  /\ gpc = "grab" /\ cam # "gone"
  /\ img' = latest
  /\ gpc' = "status"
  /\ UNCHANGED <<motion, blocked, world, wire, near_streak, clear_streak, gblocked, v, crashes>>

\* bridge_speed: ask, and take 0 for an answer that does not come.
Ask ==
  /\ gpc = "status"
  /\ Connect("status", "asking")

Learn ==
  /\ gpc = "asking"
  /\ Replied
  /\ v' = Head(answer)
  /\ answer' = <<>>
  /\ gpc' = "decide"
  /\ UNCHANGED <<motion, blocked, world, queue, img, near_streak, clear_streak, gblocked, crashes>>

Guess ==
  /\ gpc \in {"status", "asking"}
  /\ v' = 0
  /\ gpc' = "decide"
  /\ Abandon
  /\ UNCHANGED <<motion, blocked, world, img, near_streak, clear_streak, gblocked, crashes>>

Near == img = "close" \/ (img = "mid" /\ v > 0)

\* Streaks count on beyond their thresholds in the code; nothing asks how far.
CountTo(n, bound) == IF n < bound THEN n + 1 ELSE n

Streaks ==
  /\ near_streak' = IF Near THEN CountTo(near_streak, NearFrames) ELSE 0
  /\ clear_streak' = IF Near THEN 0 ELSE CountTo(clear_streak, ClearFrames)

\* Bug: the guard blocks one frame too late, which never comes: the count of
\* frames stops at the threshold.
VerdictLate ==
  IF ~gblocked /\ near_streak' > NearFrames THEN "block"
  ELSE IF gblocked /\ clear_streak' >= ClearFrames THEN "unblock"
  ELSE "grab"

\* Bug: frames that show an object count towards the end of the block as well.
VerdictForgets ==
  IF ~gblocked /\ near_streak' >= NearFrames THEN "block"
  ELSE IF gblocked /\ (clear_streak' >= ClearFrames \/ near_streak' >= NearFrames) THEN "unblock"
  ELSE "grab"

Verdict ==
  IF ~gblocked /\ near_streak' >= NearFrames THEN "block"
  ELSE IF gblocked /\ clear_streak' >= ClearFrames THEN "unblock"
  ELSE "grab"

Decide ==
  /\ gpc = "decide"
  /\ Streaks
  /\ gpc' = Verdict
  /\ gblocked' = CASE Verdict = "block"   -> TRUE
                   [] Verdict = "unblock" -> FALSE
                   [] OTHER               -> gblocked
  /\ UNCHANGED <<motion, blocked, world, wire, img, v, crashes>>

SendBlock ==
  /\ gpc = "block"
  /\ Connect("block", "blocking")

SendUnblock ==
  /\ gpc = "unblock"
  /\ Connect("unblock", "unblocking")

-----------------------------------------------------------------------------
(* The bridge, its other clients, its timer and its death.                 *)

\* A client asks for a motion, or for none.
Command(m) ==
  /\ Len(queue) < Backlog
  /\ queue' = Append(queue, [kind |-> "drive", m |-> m, live |-> FALSE])
  /\ UNCHANGED <<motion, blocked, world, answer, guard, crashes>>

\* serve honours the oldest request; a forward command may be refused.
Honour(r) ==
  CASE r.kind = "block"   -> Block
    [] r.kind = "unblock" -> Unblock
    [] r.kind = "status"  -> UNCHANGED <<motion, blocked>>
    [] OTHER              -> IF r.m = Stopped THEN Halt
                             ELSE IF blocked /\ Forward(r.m) THEN UNCHANGED <<motion, blocked>>
                             ELSE Drive(r.m)

\* Bug: the newest request is taken first, as a thread per connection might.
ServeNewest ==
  /\ queue # <<>>
  /\ Honour(Last(queue))
  /\ queue' = Front(queue)
  /\ answer' = IF Last(queue).live THEN <<motion'.lin>> ELSE answer
  /\ UNCHANGED <<world, guard, crashes>>

Serve ==
  /\ queue # <<>>
  /\ Honour(Head(queue))
  /\ queue' = Tail(queue)
  /\ answer' = IF Head(queue).live THEN <<motion'.lin>> ELSE answer
  /\ UNCHANGED <<world, guard, crashes>>

\* The motion's time is up.
Expire ==
  /\ motion # Stopped
  /\ Halt
  /\ UNCHANGED <<world, wire, guard, crashes>>

\* The bridge dies and is started again: its memory and its connections go.
Crash ==
  /\ crashes < MaxCrashes
  /\ crashes' = crashes + 1
  /\ Fail
  /\ queue' = <<>>
  /\ answer' = <<>>
  /\ UNCHANGED <<world, guard>>

GuardStep ==
  \/ Start
  \/ Told
  \/ HungUp
  \/ Grab
  \/ Ask
  \/ Learn
  \/ Guess
  \/ Decide
  \/ SendBlock
  \/ SendUnblock
  \/ Die

GuardNext ==
  \/ Move
  \/ Capture
  \/ CamFreezes
  \/ CamGoes
  \/ CamStarts
  \/ GuardStep
  \/ Rerun
  \/ \E m \in Motion : Command(m)
  \/ Serve
  \/ Expire
  \/ Crash

\* The guard's loop runs on, a live camera delivers, serve takes its connections.
\* Nothing is promised of clients, of timeouts, or that what died is started again.
Fairness ==
  /\ WF_all(GuardStep)
  /\ WF_all(Capture)
  /\ WF_all(Serve)

GuardSpec == GuardInit /\ [][GuardNext]_all /\ Fairness

-----------------------------------------------------------------------------
(* Properties.                                                             *)

\* Types, and at most one live connection of the guard.
GuardTypeOK ==
  /\ motion \in Motion /\ blocked \in BOOLEAN
  /\ ahead \in Views /\ latest \in Views /\ cam \in {"live", "frozen", "gone"}
  /\ img \in Views
  /\ queue \in Seq(Request) /\ Len(queue) <= Backlog
  /\ answer \in {<<>>} \cup {<<l>> : l \in Lin}
  /\ gpc \in GuardPoints
  /\ near_streak \in 0..NearFrames /\ clear_streak \in 0..ClearFrames
  /\ gblocked \in BOOLEAN
  /\ v \in Lin
  /\ crashes \in Nat
  /\ \A i, j \in DOMAIN queue : queue[i].live /\ queue[j].live => i = j

\* The guard's loop, between one send and the next.
Between == gpc \in {"grab", "status", "asking", "decide"}

\* Between exchanges, and whatever request was abandoned or left behind by a
\* guard that died, the bridge is never left blocked by a guard that believes
\* the way is free and will not lift it; and as long as the bridge lives, it is
\* blocked whenever the guard believes so (obstacle_guard.py:106, 151-156).
Agree ==
  Between => /\ blocked => gblocked
             /\ crashes = 0 /\ gblocked => blocked

\* A guard that dies while it holds the way blocked leaves it blocked: nothing
\* it or an earlier guard had asked for comes later and lifts the block
\* (obstacle_guard.py:19).
DeathKeepsBlock ==
  [][gpc = "dead" /\ gblocked /\ blocked =>
       blocked' \/ gpc' # "dead" \/ crashes' # crashes]_all

Close == ahead = "close"

\* Somebody has to see to the guard or the camera, or the object is gone.
Excused == gpc = "dead" \/ ~Close \/ cam # "live"

\* An object that stays close gets the bridge to block, unless the guard dies
\* of a connection that failed or the bridge dies (obstacle_guard.py:16, "3
\* frames in a row and it blocks").  A camera that has failed is an excuse only
\* until it is back: the loop has gone on (obstacle_guard.py:117).
CloseIsBlocked == Close ~> (blocked \/ Excused \/ crashes > 0)

\* A camera whose last frame shows something close, and that never delivers
\* another, leaves the robot blocked for good: the guard, which cannot tell, is
\* never made to lift the block (cam_stream.py:44; obstacle_guard.py:19, "the safe
\* side").  With a last frame that shows nothing close there is no protection.
Unwatched == gpc \in {"dead", "start", "starting"} \/ crashes > 0
FrozenKeepsBlock ==
  <>[](cam = "frozen" /\ latest = "close") => <>[](blocked \/ Unwatched)

\* The same as CloseIsBlocked without excuse for a bridge that dies and comes
\* back: "if an object is close, forward motion is blocked" (obstacle_guard.py:1).
CloseIsBlockedAgain == Close ~> (blocked \/ Excused)
=============================================================================
