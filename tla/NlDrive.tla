------------------------------ MODULE NlDrive -------------------------------
(***************************************************************************)
(* From a sentence to a motion: firmware/nl2cmdvel.sh, one process for a   *)
(* sentence, with finetune/infer.py, which asks the language model what    *)
(* the sentence means unless it holds a stop word, and with                *)
(* firmware/pub_cmd_vel.py, which drives by itself when the bridge does    *)
(* not answer.  Several sentences may be on their way at once.             *)
(*                                                                         *)
(* What the bridge remembers is DriveLatch, which CmdVelBridge implements, *)
(* behind its listen queue.  DriveLatch publishes nothing: what tick       *)
(* decides on under the lock, and publishes when it has left it, is here.  *)
(* Messages on /cmd_vel arrive (DriveChain treats losses).                 *)
(***************************************************************************)
EXTENDS DriveLatch, Sequences

CONSTANTS
  Client,      \* calls of nl2cmdvel.sh, one sentence each
  Nobody,      \* not a client
  StopRepeat,  \* STOP_REPEAT, and the stops pub_cmd_vel.py ends with
  Bridges,     \* how the bridge may be: "serves", "falters" (it may take more than
               \* a second to reply, be held up, stop serving, die and come back),
               \* or "absent"
  Backlog      \* connections that wait for serve

ASSUME NlAssumption == /\ Nobody \notin Client
                       /\ StopRepeat \in Nat \ {0}
                       /\ Bridges \subseteq {"serves", "falters", "absent"}
                       /\ Backlog \in Nat \ {0}

VARIABLES
  Bridge,   \* how the bridge is, from the first to the last sentence
  port,     \* of the bridge: "open", "held" (by a connection without a line, on
            \* which serve waits), "closed" (nobody listens)
  queue,    \* clients whose command serve has not taken yet
  burst,    \* stops the bridge will publish when the motion is over
  out,      \* the Twist tick has decided on and not yet published: one, or none
  say,      \* the sentence of a client: "stop" (it holds a stop word), "other"
  pc,       \* where nl2cmdvel.sh is, see Points
  answer,   \* what the model made of the sentence, see Answers
  cmd,      \* the command of a client, once it has one
  left,     \* stops pub_cmd_vel.py has still to publish
  heard,    \* the last Twist the motor board heard
  carried,  \* history: how often a client's command was carried out
            \* history with a bridge that serves:
  word,     \* whose stop word was carried out, with no command after it
  slipped   \* forward messages published since the way was blocked, as far as Many

bridge == <<Bridge, motion, blocked, port, queue, burst, out>>
clients == <<say, answer, cmd, left>>
all == <<bridge, clients, pc, heard, word, carried, slipped>>

Points == {"idle", "infer", "model", "send", "await", "replied",
           "slow", "drive", "stops", "done", "failed"}

\* The model is not to be trusted: a command, a refusal, a text that is none
\* (without JSON, with JSON that does not parse, a key missing, a value that is
\* no number), a duration outside 0..MAX_DURATION; "unasked" before, or with a
\* stop word.
Answers == {"command", "reject", "none", "long"}

-----------------------------------------------------------------------------
NlInit ==
  /\ Init
  /\ Bridge \in Bridges
  /\ port = IF Bridge = "absent" THEN "closed" ELSE "open"
  /\ queue = <<>>
  /\ burst = 0
  /\ out = <<>>
  /\ say = [c \in Client |-> "other"]
  /\ pc = [c \in Client |-> "idle"]
  /\ answer = [c \in Client |-> "unasked"]
  /\ cmd = [c \in Client |-> Stopped]
  /\ left = [c \in Client |-> 0]
  /\ heard = Stopped
  /\ word = Nobody
  /\ carried = [c \in Client |-> 0]
  /\ slipped = 0

Goto(c, p) == pc' = [pc EXCEPT ![c] = p]

-----------------------------------------------------------------------------
(* infer.py.                                                               *)

Speak(c, s) ==
  /\ pc[c] = "idle"
  /\ say' = [say EXCEPT ![c] = s]
  /\ Goto(c, "infer")
  /\ UNCHANGED <<bridge, answer, cmd, left, heard, word, carried, slipped>>

\* A stop word: the model is not asked.
Bypass(c) ==
  /\ pc[c] = "infer" /\ say[c] = "stop"
  /\ cmd' = [cmd EXCEPT ![c] = Stopped]
  /\ Goto(c, "send")
  /\ UNCHANGED <<bridge, say, answer, left, heard, word, carried, slipped>>

Ask(c) ==
  /\ pc[c] = "infer" /\ say[c] # "stop"
  /\ Goto(c, "model")
  /\ UNCHANGED <<bridge, clients, heard, word, carried, slipped>>

\* Bug: a duration the model made up is passed on.
ExitUnbounded(a) ==
  CASE a \in {"command", "long"} -> "send"
    [] a = "reject"              -> "done"
    [] OTHER                     -> "failed"

\* Exit codes 0, 2 and 1, and what nl2cmdvel.sh makes of them.
Exit(a) ==
  CASE a = "command" -> "send"
    [] a = "reject"  -> "done"
    [] OTHER         -> "failed"

Answer(c, a, m) ==
  /\ pc[c] = "model"
  /\ answer' = [answer EXCEPT ![c] = a]
  /\ cmd' = [cmd EXCEPT ![c] = IF Exit(a) = "send" THEN m ELSE @]
  /\ Goto(c, Exit(a))
  /\ UNCHANGED <<bridge, say, left, heard, word, carried, slipped>>

\* llama-server is not there, or does not answer within 30 seconds.
NoModel(c) ==
  /\ pc[c] = "model"
  /\ Goto(c, "failed")
  /\ UNCHANGED <<bridge, clients, heard, word, carried, slipped>>

-----------------------------------------------------------------------------
(* nl2cmdvel.sh: one connection to the bridge, with a timeout of a second. *)

Send(c) ==
  /\ pc[c] = "send"
  /\ port # "closed" /\ Len(queue) < Backlog
  /\ queue' = Append(queue, c)
  /\ Goto(c, "await")
  /\ UNCHANGED <<Bridge, motion, blocked, port, burst, out, clients, heard, word, carried,
                 slipped>>

\* The connection is refused, or not accepted in time.
NoBridge(c) ==
  /\ pc[c] = "send"
  /\ port = "closed" \/ (Bridge = "falters" /\ Len(queue) >= Backlog)
  /\ Goto(c, "slow")
  /\ UNCHANGED <<bridge, clients, heard, word, carried, slipped>>

\* The reply is in hand, a refusal or not.
Replied(c) ==
  /\ pc[c] = "replied"
  /\ Goto(c, "done")
  /\ UNCHANGED <<bridge, clients, heard, word, carried, slipped>>

\* Bug: the socket has no timeout.
NoReplyPatient(c) ==
  /\ pc[c] = "await"
  /\ \A i \in DOMAIN queue : queue[i] # c
  /\ Goto(c, "slow")
  /\ UNCHANGED <<bridge, clients, heard, word, carried, slipped>>

\* No reply: the second is over, while the request stays where it is, or the
\* bridge died with it.
NoReply(c) ==
  /\ pc[c] = "await"
  /\ \/ Bridge = "falters"
     \/ \A i \in DOMAIN queue : queue[i] # c
  /\ Goto(c, "slow")
  /\ UNCHANGED <<bridge, clients, heard, word, carried, slipped>>

-----------------------------------------------------------------------------
(* The slow path: pub_cmd_vel.py in a container of its own.                *)

Many == 2

\* A message arrives on /cmd_vel.
Hear(m) ==
  /\ heard' = m
  /\ slipped' = IF Bridge = "serves" /\ blocked /\ Forward(m) /\ slipped < Many
                THEN slipped + 1
                ELSE slipped

CarriedOut(c) ==
  /\ word' = IF Bridge = "serves" /\ say[c] = "stop" THEN c ELSE Nobody
  /\ carried' = [carried EXCEPT ![c] = @ + 1]

\* A subscriber is found, and time begins to count.
Match(c) ==
  /\ pc[c] = "slow"
  /\ CarriedOut(c)
  /\ Goto(c, "drive")
  /\ UNCHANGED <<bridge, clients, heard, slipped>>

\* None within three seconds.
NoSubscriber(c) ==
  /\ pc[c] = "slow"
  /\ Goto(c, "failed")
  /\ UNCHANGED <<bridge, clients, heard, word, carried, slipped>>

PublishDrive(c) ==
  /\ pc[c] = "drive"
  /\ cmd[c] # Stopped
  /\ Hear(cmd[c])
  /\ UNCHANGED <<bridge, clients, pc, word, carried>>

\* The duration is over; at once, for a stop.
TimeUp(c) ==
  /\ pc[c] = "drive"
  /\ left' = [left EXCEPT ![c] = StopRepeat]
  /\ Goto(c, "stops")
  /\ UNCHANGED <<bridge, say, answer, cmd, heard, word, carried, slipped>>

\* Bug: one stop too many.
PublishStopMore(c) ==
  /\ pc[c] = "stops"
  /\ Hear(Stopped)
  /\ left' = [left EXCEPT ![c] = @ - 1]
  /\ Goto(c, IF left[c] = 0 THEN "done" ELSE "stops")
  /\ UNCHANGED <<bridge, say, answer, cmd, word, carried>>

PublishStop(c) ==
  /\ pc[c] = "stops"
  /\ Hear(Stopped)
  /\ left' = [left EXCEPT ![c] = @ - 1]
  /\ Goto(c, IF left[c] = 1 THEN "done" ELSE "stops")
  /\ UNCHANGED <<bridge, say, answer, cmd, word, carried>>

\* pub_cmd_vel.py is killed, or its container: the stops are not sent.  (A call
\* killed before leaves what a failed one does.)
Killed(c) ==
  /\ pc[c] \in {"drive", "stops"}
  /\ left' = [left EXCEPT ![c] = 0]
  /\ Goto(c, "failed")
  /\ UNCHANGED <<bridge, say, answer, cmd, heard, word, carried, slipped>>

-----------------------------------------------------------------------------
(* The bridge, the guard that blocks it, and the motor board.              *)

Take(c) ==
  /\ port = "open" /\ queue # <<>> /\ c = Head(queue)
  /\ queue' = Tail(queue)
  /\ Goto(c, IF pc[c] = "await" THEN "replied" ELSE pc[c])
  /\ UNCHANGED <<Bridge, port, out, clients, heard, slipped>>

\* Refused: forward while blocked, or a duration out of range.
Refused(c) == answer[c] = "long" \/ (blocked /\ Forward(cmd[c]))

ServeRefuse(c) ==
  /\ Take(c)
  /\ Refused(c)
  /\ UNCHANGED <<motion, blocked, burst, word, carried>>

\* Bug: a stop arms the stops, and leaves the motion its time.
ServeStopLater(c) ==
  /\ Take(c)
  /\ ~Refused(c)
  /\ IF cmd[c] = Stopped THEN UNCHANGED <<motion, blocked>> ELSE Drive(cmd[c])
  /\ burst' = StopRepeat
  /\ CarriedOut(c)

Serve(c) ==
  /\ Take(c)
  /\ ~Refused(c)
  /\ IF cmd[c] = Stopped THEN Halt ELSE Drive(cmd[c])
  /\ burst' = StopRepeat
  /\ CarriedOut(c)

\* Bug: the end of the motion is seen to by the thread that serves.
ExpireServed ==
  /\ motion # Stopped /\ port = "open"
  /\ Halt
  /\ UNCHANGED <<Bridge, port, queue, burst, out, clients, pc, heard, word, carried, slipped>>

\* The motion's time is up, which tick sees to, whatever became of serve.
Expire ==
  /\ motion # Stopped
  /\ Halt
  /\ UNCHANGED <<Bridge, port, queue, burst, out, clients, pc, heard, word, carried, slipped>>

\* tick, under the lock, decides on the motion in force ...
TickDrive ==
  /\ out = <<>>
  /\ motion # Stopped
  /\ out' = <<motion>>
  /\ UNCHANGED <<Bridge, motion, blocked, port, queue, burst, clients, pc, heard, word, carried,
                 slipped>>

\* ... or on one of the stops after it, ...
TickStop ==
  /\ out = <<>>
  /\ motion = Stopped /\ burst > 0
  /\ burst' = burst - 1
  /\ out' = <<Stopped>>
  /\ UNCHANGED <<Bridge, motion, blocked, port, queue, clients, pc, heard, word, carried,
                 slipped>>

\* ... and publishes it when it has left the lock, whatever came in between.
BridgePublish ==
  /\ out # <<>>
  /\ Hear(Head(out))
  /\ out' = <<>>
  /\ UNCHANGED <<Bridge, motion, blocked, port, queue, burst, clients, pc, word, carried>>

SetBlock ==
  /\ port = "open"
  /\ \/ Block /\ burst' = (IF Forward(motion) THEN StopRepeat ELSE burst) /\ UNCHANGED slipped
     \/ Unblock /\ slipped' = 0 /\ UNCHANGED burst
  /\ UNCHANGED <<Bridge, port, queue, out, clients, pc, heard, word, carried>>

\* serve takes a connection that says nothing, and waits for its line; when it
\* closes, serve goes on.
Hold ==
  /\ Bridge = "falters"
  /\ \/ port = "open" /\ port' = "held"
     \/ port = "held" /\ port' = "open"
  /\ UNCHANGED <<Bridge, motion, blocked, queue, burst, out, clients, pc, heard, word, carried,
                 slipped>>

\* A reply that cannot be sent ends serve, and the process goes on without it.
ServeEnds ==
  /\ Bridge = "falters" /\ port = "open"
  /\ port' = "closed"
  /\ queue' = <<>>
  /\ UNCHANGED <<Bridge, motion, blocked, burst, out, clients, pc, heard, word, carried, slipped>>

BridgeDies ==
  /\ Bridge = "falters"
  /\ Fail
  /\ port' = "closed"
  /\ queue' = <<>>
  /\ burst' = 0 /\ out' = <<>> /\ slipped' = 0
  /\ UNCHANGED <<Bridge, clients, pc, heard, word, carried>>

\* Nothing survives from the process before.
BridgeStarts ==
  /\ Bridge = "falters" /\ port = "closed"
  /\ Fail
  /\ port' = "open"
  /\ burst' = 0 /\ out' = <<>> /\ slipped' = 0
  /\ UNCHANGED <<Bridge, queue, clients, pc, heard, word, carried>>

\* Nobody drives: the board's watchdog stops it.
Watchdog ==
  /\ motion = Stopped /\ \A c \in Client : pc[c] # "drive"
  /\ heard # Stopped
  /\ heard' = Stopped
  /\ UNCHANGED <<bridge, clients, pc, word, carried, slipped>>

-----------------------------------------------------------------------------
Infer(c) ==
  \/ Bypass(c)
  \/ Ask(c)
  \/ \E a \in Answers, m \in Motion : Answer(c, a, m)
  \/ NoModel(c)

Deliver(c) ==
  \/ Send(c)
  \/ NoBridge(c)
  \/ Replied(c)
  \/ NoReply(c)

SlowPath(c) ==
  \/ Match(c)
  \/ NoSubscriber(c)
  \/ TimeUp(c)
  \/ PublishStop(c)

BridgeStep ==
  \/ \E c \in Client : ServeRefuse(c) \/ Serve(c)
  \/ Expire
  \/ TickDrive
  \/ TickStop
  \/ BridgePublish
  \/ SetBlock
  \/ Hold
  \/ ServeEnds
  \/ BridgeDies
  \/ BridgeStarts

NlNext ==
  \/ \E c \in Client, s \in {"stop", "other"} : Speak(c, s)
  \/ \E c \in Client : Infer(c) \/ Deliver(c) \/ SlowPath(c) \/ PublishDrive(c) \/ Killed(c)
  \/ BridgeStep
  \/ Watchdog

\* Every process runs on and its waits are bounded (urlopen 30 s, the socket
\* 1 s, the match 3 s, the duration 10 s); serve takes its connections unless it
\* is held or gone; the bridge's timer and the board's watchdog run.  No fault has
\* to happen, and none has to be repaired.
Fairness ==
  /\ \A c \in Client : WF_all(Infer(c) \/ Deliver(c) \/ SlowPath(c))
  /\ WF_all(\E c \in Client : ServeRefuse(c) \/ Serve(c))
  /\ WF_all(Expire)
  /\ WF_all(Watchdog)

NlSpec == NlInit /\ [][NlNext]_all /\ Fairness

-----------------------------------------------------------------------------
(* Properties.                                                             *)

\* Types; a request waits once at most.
NlTypeOK ==
  /\ motion \in Motion /\ blocked \in BOOLEAN
  /\ port \in {"open", "held", "closed"}
  /\ queue \in Seq(Client) /\ Len(queue) <= Backlog
  /\ \A i, j \in DOMAIN queue : queue[i] = queue[j] => i = j
  /\ burst \in 0..StopRepeat
  /\ out \in {<<>>} \cup {<<m>> : m \in Motion}
  /\ say \in [Client -> {"stop", "other"}]
  /\ pc \in [Client -> Points]
  /\ answer \in [Client -> Answers \cup {"unasked"}]
  /\ cmd \in [Client -> Motion]
  /\ left \in [Client -> 0..StopRepeat]
  /\ heard \in Motion
  /\ word \in Client \cup {Nobody}
  /\ carried \in [Client -> Nat]
  /\ slipped \in 0..Many

\* The stop word of c was the last thing carried out, and its call has returned.
StopSaid(c) == word = c /\ pc[c] = "done"

\* The robot has been stopped, or will be behind whatever tick had decided on.
StopIsSure ==
  /\ motion = Stopped
  /\ \/ burst > 0
     \/ out = <<Stopped>>
     \/ out = <<>> /\ heard = Stopped

\* With a bridge that serves, a stop word that was the last thing carried out
\* keeps the robot from moving, but for one message that tick may have decided on
\* before and that a stop follows (README.md:44, 152; nl2cmdvel.sh:13-14).
StopIsTheLastWord == Bridge = "serves" => \A c \in Client : StopSaid(c) => StopIsSure

\* A sentence moves the robot once: the slow path is for when there is no bridge
\* (nl2cmdvel.sh:48, 51).
CarriedOutOnce == \A c \in Client : carried[c] <= 1

\* With a bridge that serves, for as long as it holds the way blocked one message
\* at most that moves the robot forward is published, by whomever: the one tick
\* had decided on when the block came (cmd_vel_bridge.py:13, 80-89;
\* obstacle_guard.py:1, 18).
BlockedIsObeyed == Bridge = "serves" /\ blocked => slipped <= 1

\* Nothing is carried out, on either path, for a sentence the model refused or
\* for an answer that is not a whole, finite and bounded command
\* (infer.py:107-131; pub_cmd_vel.py checks nothing again).
OnlySoundCommands ==
  \A c \in Client :
    carried[c] > 0 => IF say[c] = "stop" THEN cmd[c] = Stopped ELSE answer[c] = "command"

\* Whatever fails after the last sentence, a model, a bridge that is held or dead,
\* a call killed while it drives, the robot comes to rest and stays there: the
\* bridge's timer is not serve's, and the board has its watchdog
\* (cmd_vel_bridge.py:46, 85, 121; pub_cmd_vel.py:5).
ComesToRest == <>[](heard = Stopped)

\* Every call returns, whatever the model, the bridge and the board do: a bridge
\* that is held by another connection, or has none to serve it, does not keep it
\* (nl2cmdvel.sh:35; cmd_vel_bridge.py:101, 115).
EveryCallReturns ==
  \A c \in Client : pc[c] = "infer" ~> pc[c] \in {"done", "failed"}
=============================================================================
