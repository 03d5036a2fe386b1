--------------------------- MODULE NlDriveProofs ----------------------------
(***************************************************************************)
(* Theorems about NlDrive, for every set of calls and of motions, every    *)
(* number of stops and length of the listen queue, and whichever way the   *)
(* bridge may be.                                                          *)
(***************************************************************************)
EXTENDS NlDrive, SequenceTheorems, TLAPS

(* The queue.                                                              *)

InQueue(c) == \E i \in DOMAIN queue : queue[i] = c

\* A call that is not in the queue joins it.
LEMMA Joins ==
  ASSUME NlTypeOK, NEW c \in Client, ~InQueue(c), Len(queue) < Backlog, queue' = Append(queue, c)
  PROVE  /\ queue' \in Seq(Client) /\ Len(queue') <= Backlog
         /\ \A i, j \in DOMAIN queue' : queue'[i] = queue'[j] => i = j
         /\ \A d : InQueue(d)' <=> InQueue(d) \/ d = c
<1>1. /\ queue \in Seq(Client) /\ Len(queue) \in Nat /\ Backlog \in Nat
      /\ DOMAIN queue = 1..Len(queue)
  BY NlAssumption DEF NlTypeOK
<1>2. /\ queue' \in Seq(Client) /\ Len(queue') = Len(queue) + 1
      /\ DOMAIN queue' = 1..(Len(queue) + 1)
      /\ \A i \in 1..Len(queue) : queue'[i] = queue[i]
      /\ queue'[Len(queue) + 1] = c
  BY <1>1
<1>3. /\ \A i \in DOMAIN queue' : i \in DOMAIN queue \/ i = Len(queue) + 1
      /\ \A i \in DOMAIN queue : i \in DOMAIN queue' /\ queue'[i] = queue[i] /\ queue[i] # c
      /\ Len(queue) + 1 \in DOMAIN queue'
  BY <1>1, <1>2 DEF InQueue
<1>4. \A i, j \in DOMAIN queue' : queue'[i] = queue'[j] => i = j
  BY <1>2, <1>3 DEF NlTypeOK
<1>5. \A d : InQueue(d)' <=> InQueue(d) \/ d = c
  BY <1>2, <1>3 DEF InQueue
<1> QED
  BY <1>1, <1>2, <1>4, <1>5

\* The first call leaves it, once and for all.
LEMMA Leaves ==
  ASSUME NlTypeOK, NEW c \in Client, queue # <<>>, c = Head(queue), queue' = Tail(queue)
  PROVE  /\ queue' \in Seq(Client) /\ Len(queue') <= Backlog
         /\ \A i, j \in DOMAIN queue' : queue'[i] = queue'[j] => i = j
         /\ \A d : InQueue(d)' <=> InQueue(d) /\ d # c
         /\ InQueue(c)
<1>1. /\ queue \in Seq(Client) /\ Len(queue) \in Nat \ {0} /\ Backlog \in Nat
      /\ Len(queue) <= Backlog /\ DOMAIN queue = 1..Len(queue)
  BY NlAssumption, EmptySeq DEF NlTypeOK
<1>2. /\ queue' \in Seq(Client) /\ Len(queue') = Len(queue) - 1
      /\ DOMAIN queue' = 1..(Len(queue) - 1)
      /\ \A i \in 1..(Len(queue) - 1) : queue'[i] = queue[i + 1]
      /\ queue[1] = c
  BY <1>1, HeadTailProperties
<1>3. /\ \A i \in DOMAIN queue' : i + 1 \in DOMAIN queue /\ queue'[i] = queue[i + 1]
      /\ \A i \in DOMAIN queue : i = 1 \/ (i - 1 \in DOMAIN queue' /\ queue'[i - 1] = queue[i])
      /\ 1 \in DOMAIN queue
  BY <1>1, <1>2
<1>4. ASSUME NEW i \in DOMAIN queue', NEW j \in DOMAIN queue', queue'[i] = queue'[j]
      PROVE  i = j
  <2>1. i + 1 = j + 1
    BY <1>3, <1>4 DEF NlTypeOK
  <2> QED
    BY <1>2, <2>1
<1>5. \A i \in DOMAIN queue : queue[i] = c => i = 1
  BY <1>2, <1>3 DEF NlTypeOK
<1>6. ASSUME NEW d PROVE InQueue(d)' <=> InQueue(d) /\ d # c
  <2>1. ASSUME InQueue(d)' PROVE InQueue(d) /\ d # c
    <3>1. PICK i \in DOMAIN queue' : queue'[i] = d
      BY <2>1 DEF InQueue
    <3>2. i + 1 \in DOMAIN queue /\ queue[i + 1] = d /\ i + 1 # 1
      BY <1>2, <1>3, <3>1
    <3> QED
      BY <1>5, <3>2 DEF InQueue
  <2>2. ASSUME InQueue(d), d # c PROVE InQueue(d)'
    <3>1. PICK i \in DOMAIN queue : queue[i] = d
      BY <2>2 DEF InQueue
    <3>2. i - 1 \in DOMAIN queue' /\ queue'[i - 1] = d
      BY <1>2, <1>3, <2>2, <3>1
    <3> QED
      BY <3>2 DEF InQueue
  <2> QED
    BY <2>1, <2>2
<1>7. InQueue(c)
  BY <1>2, <1>3 DEF InQueue
<1> QED
  BY <1>1, <1>2, <1>4, <1>6, <1>7

LEMMA TakeLeaves ==
  ASSUME NlTypeOK, NEW c \in Client, Take(c)
  PROVE  /\ queue' \in Seq(Client) /\ Len(queue') <= Backlog
         /\ \A i, j \in DOMAIN queue' : queue'[i] = queue'[j] => i = j
         /\ \A d : InQueue(d)' <=> InQueue(d) /\ d # c
         /\ InQueue(c)
         /\ pc' = [pc EXCEPT ![c] = IF pc[c] = "await" THEN "replied" ELSE pc[c]]
  BY Leaves DEF Take, Goto

LEMMA NobodyInEmpty == queue = <<>> => \A d : ~InQueue(d)
  BY DEF InQueue

-----------------------------------------------------------------------------
(* Types.  A call joins the queue once, for it has not been there before.  *)

NotSent == {"idle", "infer", "model", "send"}
SentOnce == \A c \in Client : pc[c] \in NotSent => ~InQueue(c)

\* pub_cmd_vel.py is among its stops only while some are left.
StopsLeft == \A c \in Client : pc[c] = "stops" => left[c] > 0

NlTypeInv == NlTypeOK /\ SentOnce /\ StopsLeft

LEMMA StoppedIsMotion == Stopped \in Motion
  BY LatchAssumption DEF Stopped, Motion

\* tick holds one Twist, or none.
LEMMA OutIsOne ==
  ASSUME NlTypeOK
  PROVE  out # <<>> => Head(out) \in Motion /\ out = <<Head(out)>>
<1> SUFFICES ASSUME out # <<>> PROVE Head(out) \in Motion /\ out = <<Head(out)>>
  OBVIOUS
<1>1. PICK m \in Motion : out = <<m>>
  BY DEF NlTypeOK
<1> QED
  BY <1>1

LEMMA HearTypes ==
  ASSUME NlTypeOK, NEW m \in Motion, Hear(m)
  PROVE  heard' \in Motion /\ slipped' \in 0..Many
  BY DEF NlTypeOK, Hear, Many

LEMMA NoneYet == <<>> \in {<<>>} \cup {<<m>> : m \in Motion} /\ 0 \in 0..Many
<1>1. 0 \in 0..Many
  BY DEF Many
<1>2. <<>> \in {<<>>} \cup {<<m>> : m \in Motion}
  OBVIOUS
<1> QED
  BY <1>1, <1>2

LEMMA InitTypes == NlInit => NlTypeInv
<1> SUFFICES ASSUME NlInit PROVE NlTypeInv
  OBVIOUS
<1>1. motion \in Motion /\ heard \in Motion /\ cmd \in [Client -> Motion]
  BY StoppedIsMotion DEF NlInit, Init
<1>2. queue \in Seq(Client) /\ Len(queue) <= Backlog /\ DOMAIN queue = {}
  BY NlAssumption DEF NlInit
<1>3. SentOnce /\ StopsLeft
  BY NobodyInEmpty DEF NlInit, SentOnce, StopsLeft
<1>4. /\ burst \in 0..StopRepeat /\ left \in [Client -> 0..StopRepeat]
      /\ carried \in [Client -> Nat] /\ word \in Client \cup {Nobody}
  BY NlAssumption DEF NlInit
<1>5. /\ say \in [Client -> {"stop", "other"}] /\ pc \in [Client -> Points]
      /\ answer \in [Client -> Answers \cup {"unasked"}]
  BY DEF NlInit, Points
<1>6. port \in {"open", "held", "closed"} /\ blocked \in BOOLEAN
  BY DEF NlInit, Init
<1>7. out \in {<<>>} \cup {<<m>> : m \in Motion} /\ slipped \in 0..Many
  BY NoneYet DEF NlInit
<1> QED
  BY <1>1, <1>2, <1>3, <1>4, <1>5, <1>6, <1>7 DEF NlTypeInv, NlTypeOK

\* A step of the calls or the bridge that leaves the queue alone and starts no call
\* anew.
LEMMA SameQueue ==
  ASSUME SentOnce, UNCHANGED queue, NEW c \in Client, NEW p,
         pc' = [pc EXCEPT ![c] = p], p \in NotSent => pc[c] \in NotSent, pc \in [Client -> Points]
  PROVE  SentOnce'
  BY DEF SentOnce, InQueue

LEMMA CallTypes ==
  ASSUME NlTypeInv, NEW c \in Client,
         (\E s \in {"stop", "other"} : Speak(c, s))
           \/ Infer(c) \/ Deliver(c) \/ SlowPath(c) \/ PublishDrive(c) \/ Killed(c)
  PROVE  NlTypeInv'
<1> USE DEF NlTypeInv, NlTypeOK, StopsLeft, bridge, clients
<1>0. /\ pc \in [Client -> Points] /\ queue \in Seq(Client)
      /\ Stopped \in Motion /\ StopRepeat \in Nat \ {0}
  BY StoppedIsMotion, NlAssumption
<1>1. ASSUME NEW s \in {"stop", "other"}, Speak(c, s) PROVE NlTypeInv'
  BY <1>0, <1>1, SameQueue DEF Speak, Goto, NotSent, Points
<1>2. CASE Bypass(c)
  BY <1>0, <1>2, SameQueue DEF Bypass, Goto, NotSent, Points
<1>3. CASE Ask(c) \/ NoModel(c)
  BY <1>0, <1>3, SameQueue DEF Ask, NoModel, Goto, NotSent, Points
<1>4. ASSUME NEW a \in Answers, NEW m \in Motion, Answer(c, a, m) PROVE NlTypeInv'
  <2>1. Exit(a) \in {"send", "done", "failed"}
    BY DEF Exit
  <2> QED
    BY <1>0, <1>4, <2>1, SameQueue DEF Answer, Goto, NotSent, Points, Answers
<1>5. CASE Send(c)
  <2>1. ~InQueue(c) /\ Len(queue) < Backlog /\ queue' = Append(queue, c)
    BY <1>5 DEF Send, SentOnce, NotSent
  <2>2. /\ queue' \in Seq(Client) /\ Len(queue') <= Backlog
        /\ \A i, j \in DOMAIN queue' : queue'[i] = queue'[j] => i = j
        /\ \A d : InQueue(d)' <=> InQueue(d) \/ d = c
    BY <2>1, Joins
  <2>3. pc' = [pc EXCEPT ![c] = "await"]
    BY <1>5 DEF Send, Goto
  <2>4. SentOnce'
    BY <1>0, <2>2, <2>3 DEF SentOnce, NotSent
  <2> QED
    BY <1>0, <1>5, <2>2, <2>3, <2>4 DEF Send, Points
<1>6. CASE NoBridge(c) \/ Replied(c) \/ NoReply(c) \/ NoSubscriber(c)
  BY <1>0, <1>6, SameQueue DEF NoBridge, Replied, NoReply, NoSubscriber, Goto, NotSent, Points
<1>7. CASE Match(c)
  <2>1. carried' \in [Client -> Nat] /\ word' \in Client \cup {Nobody}
    BY <1>7 DEF Match, CarriedOut
  <2> QED
    BY <1>0, <1>7, <2>1, SameQueue DEF Match, Goto, NotSent, Points
<1>8. CASE PublishDrive(c)
  <2>1. cmd[c] \in Motion /\ Hear(cmd[c])
    BY <1>8 DEF PublishDrive
  <2>2. heard' \in Motion /\ slipped' \in 0..Many
    BY <2>1, HearTypes
  <2> QED
    BY <1>8, <2>2 DEF PublishDrive, SentOnce, InQueue
<1>9. CASE TimeUp(c)
  <2>1. StopRepeat \in 0..StopRepeat /\ StopRepeat > 0
    BY <1>0
  <2>2. left' = [left EXCEPT ![c] = StopRepeat] /\ pc' = [pc EXCEPT ![c] = "stops"]
    BY <1>9 DEF TimeUp, Goto
  <2>3. left' \in [Client -> 0..StopRepeat]
    BY <2>1, <2>2
  <2>4. StopsLeft'
    BY <1>0, <2>1, <2>2
  <2>5. SentOnce'
    BY <1>0, <1>9, <2>2, SameQueue DEF TimeUp, NotSent
  <2> QED
    BY <1>0, <1>9, <2>2, <2>3, <2>4, <2>5 DEF TimeUp, Points
<1>11. CASE Killed(c)
  <2>1. 0 \in 0..StopRepeat
    BY <1>0
  <2>2. left' = [left EXCEPT ![c] = 0] /\ pc' = [pc EXCEPT ![c] = "failed"]
    BY <1>11 DEF Killed, Goto
  <2>3. left' \in [Client -> 0..StopRepeat]
    BY <2>1, <2>2
  <2>4. StopsLeft'
    BY <1>0, <2>2
  <2>5. SentOnce'
    BY <1>0, <1>11, <2>2, SameQueue DEF Killed, NotSent
  <2> QED
    BY <1>0, <1>11, <2>2, <2>3, <2>4, <2>5 DEF Killed, Points
<1>10. CASE PublishStop(c)
  <2>1. left[c] \in 0..StopRepeat /\ left[c] > 0
    BY <1>10 DEF PublishStop
  <2>2. left[c] - 1 \in 0..StopRepeat /\ (left[c] = 1 \/ left[c] - 1 > 0)
    BY <1>0, <2>1
  <2>3. left' = [left EXCEPT ![c] = left[c] - 1] /\ left' \in [Client -> 0..StopRepeat]
    BY <1>10, <2>2 DEF PublishStop
  <2>4. pc' = [pc EXCEPT ![c] = IF left[c] = 1 THEN "done" ELSE "stops"]
    BY <1>10 DEF PublishStop, Goto
  <2>5. StopsLeft'
    BY <1>0, <2>2, <2>3, <2>4
  <2>6. SentOnce'
    BY <1>0, <1>10, <2>4, SameQueue DEF PublishStop, NotSent
  <2>7. heard' \in Motion /\ slipped' \in 0..Many
    BY <1>0, <1>10, HearTypes DEF PublishStop
  <2> QED
    BY <1>0, <1>10, <2>3, <2>4, <2>5, <2>6, <2>7 DEF PublishStop, Points
<1> QED
  BY <1>1, <1>2, <1>3, <1>4, <1>5, <1>6, <1>7, <1>8, <1>9, <1>10, <1>11 DEF Infer, Deliver, SlowPath

\* A motion of the bridge is a motion, whatever the step of its latch.
LEMMA LatchTypes ==
  ASSUME NlTypeOK,
         (\E m \in Motion : Drive(m)) \/ Halt \/ Block \/ Unblock \/ Fail \/ UNCHANGED <<motion, blocked>>
  PROVE  motion' \in Motion /\ blocked' \in BOOLEAN
  BY StoppedIsMotion DEF NlTypeOK, Drive, Halt, Block, Unblock, Fail

LEMMA ServeTypes ==
  ASSUME NlTypeInv, NEW c \in Client, ServeRefuse(c) \/ Serve(c)
  PROVE  NlTypeInv'
<1> USE DEF NlTypeInv
<1>1. Take(c)
  BY DEF ServeRefuse, Serve
<1>2. /\ queue' \in Seq(Client) /\ Len(queue') <= Backlog
      /\ \A i, j \in DOMAIN queue' : queue'[i] = queue'[j] => i = j
      /\ \A d : InQueue(d)' <=> InQueue(d) /\ d # c
      /\ pc' = [pc EXCEPT ![c] = IF pc[c] = "await" THEN "replied" ELSE pc[c]]
  BY <1>1, TakeLeaves
<1>3. UNCHANGED <<port, out, say, answer, cmd, left, heard, slipped>>
  BY <1>1 DEF Take, clients
<1>4. motion' \in Motion /\ blocked' \in BOOLEAN
  BY LatchTypes DEF ServeRefuse, Serve, NlTypeOK
<1>5. /\ burst' \in 0..StopRepeat
      /\ word' \in Client \cup {Nobody} /\ carried' \in [Client -> Nat]
  <2>1. StopRepeat \in 0..StopRepeat
    BY NlAssumption
  <2>2. burst' \in 0..StopRepeat
    BY <2>1 DEF ServeRefuse, Serve, NlTypeOK
  <2>3. UNCHANGED <<word, carried>> \/ CarriedOut(c)
    BY DEF ServeRefuse, Serve
  <2>4. word' \in Client \cup {Nobody}
    BY <2>3 DEF CarriedOut, NlTypeOK
  <2>5. CASE UNCHANGED carried
    BY <2>2, <2>4, <2>5 DEF NlTypeOK
  <2>6. CASE carried' = [carried EXCEPT ![c] = carried[c] + 1]
    BY <2>2, <2>4, <2>6 DEF NlTypeOK
  <2> QED
    BY <2>3, <2>5, <2>6 DEF CarriedOut
<1>6. pc' \in [Client -> Points] /\ StopsLeft'
  BY <1>2, <1>3 DEF NlTypeOK, StopsLeft, Points
<1>7. SentOnce'
  BY <1>2 DEF NlTypeOK, SentOnce, NotSent
<1> QED
  BY <1>2, <1>3, <1>4, <1>5, <1>6, <1>7 DEF NlTypeOK

LEMMA BridgeTypes ==
  ASSUME NlTypeInv, BridgeStep \/ Watchdog
  PROVE  NlTypeInv'
<1> USE DEF NlTypeInv, NlTypeOK, bridge, clients
<1>0. /\ StopRepeat \in Nat \ {0} /\ Backlog \in Nat \ {0} /\ Stopped \in Motion
      /\ <<>> \in Seq(Client) /\ Len(<<>>) = 0 /\ DOMAIN <<>> = {}
      /\ 0 \in 0..StopRepeat /\ StopRepeat \in 0..StopRepeat
  BY StoppedIsMotion, NlAssumption
<1>1. CASE \E c \in Client : ServeRefuse(c) \/ Serve(c)
  BY <1>1, ServeTypes
<1>2. CASE Expire
  BY <1>0, <1>2 DEF Expire, Halt, SentOnce, StopsLeft, InQueue
<1>3. CASE Watchdog
  BY <1>0, <1>3 DEF Watchdog, SentOnce, StopsLeft, InQueue
<1>4. CASE TickDrive \/ TickStop
  <2>1. burst' \in 0..StopRepeat
    BY <1>0, <1>4 DEF TickDrive, TickStop
  <2>2. out' \in {<<>>} \cup {<<m>> : m \in Motion}
    BY <1>0, <1>4 DEF TickDrive, TickStop
  <2> QED
    BY <1>0, <1>4, <2>1, <2>2 DEF TickDrive, TickStop, SentOnce, StopsLeft, InQueue
<1>9. CASE BridgePublish
  <2>1. heard' \in Motion /\ slipped' \in 0..Many
    BY <1>9, OutIsOne, HearTypes DEF BridgePublish
  <2>2. out' \in {<<>>} \cup {<<m>> : m \in Motion}
    BY <1>9 DEF BridgePublish
  <2> QED
    BY <1>9, <2>1, <2>2 DEF BridgePublish, SentOnce, StopsLeft, InQueue
<1>5. CASE SetBlock
  <2>1. burst' \in 0..StopRepeat /\ motion' \in Motion /\ blocked' \in BOOLEAN
    BY <1>0, <1>5 DEF SetBlock, Block, Unblock
  <2>2. slipped' \in 0..Many /\ UNCHANGED out
    BY <1>5, NoneYet DEF SetBlock
  <2> QED
    BY <1>0, <1>5, <2>1, <2>2 DEF SetBlock, SentOnce, StopsLeft, InQueue
<1>6. CASE Hold
  BY <1>0, <1>6 DEF Hold, SentOnce, StopsLeft, InQueue
<1>7. CASE ServeEnds \/ BridgeDies
  <2>0. queue' = <<>>
    BY <1>7 DEF ServeEnds, BridgeDies
  <2>1. /\ queue' \in Seq(Client) /\ Len(queue') <= Backlog
        /\ \A i, j \in DOMAIN queue' : queue'[i] = queue'[j] => i = j
        /\ \A d : ~InQueue(d)'
    BY <1>0, <2>0 DEF InQueue
  <2>2. SentOnce' /\ StopsLeft'
    BY <1>7, <2>1 DEF ServeEnds, BridgeDies, SentOnce, StopsLeft
  <2>3. out' \in {<<>>} \cup {<<m>> : m \in Motion} /\ slipped' \in 0..Many
    BY <1>7, NoneYet DEF ServeEnds, BridgeDies
  <2>4. motion' \in Motion /\ blocked' \in BOOLEAN
    BY <1>0, <1>7 DEF ServeEnds, BridgeDies, Fail
  <2> QED
    BY <1>0, <1>7, <2>1, <2>2, <2>3, <2>4 DEF ServeEnds, BridgeDies
<1>8. CASE BridgeStarts
  <2>1. out' \in {<<>>} \cup {<<m>> : m \in Motion} /\ slipped' \in 0..Many
    BY <1>8, NoneYet DEF BridgeStarts
  <2> QED
    BY <1>0, <1>8, <2>1 DEF BridgeStarts, Fail, SentOnce, StopsLeft, InQueue
<1> QED
  BY <1>1, <1>2, <1>3, <1>4, <1>5, <1>6, <1>7, <1>8, <1>9 DEF BridgeStep

LEMMA StillTypes ==
  ASSUME NlTypeInv, UNCHANGED all
  PROVE  NlTypeInv'
  BY DEF NlTypeInv, NlTypeOK, SentOnce, StopsLeft, InQueue, all, bridge, clients

LEMMA NlTypeInvariant == NlSpec => []NlTypeInv
<1>1. ASSUME NlTypeInv, [NlNext]_all PROVE NlTypeInv'
  BY <1>1, CallTypes, BridgeTypes, StillTypes DEF NlNext
<1> QED
  BY <1>1, InitTypes, PTL DEF NlSpec

\* Every variable keeps its type, a request waits in the queue once at most, and
\* pub_cmd_vel.py never counts its stops below none.
THEOREM TypeCorrect == NlSpec => []NlTypeOK
<1>1. NlTypeInv => NlTypeOK
  BY DEF NlTypeInv
<1> QED
  BY <1>1, NlTypeInvariant, PTL

-----------------------------------------------------------------------------
(* A step is of one call: the bridge takes the request of one, or of none. *)

CallStep(c) ==
  \/ \E s \in {"stop", "other"} : Speak(c, s)
  \/ Infer(c) \/ Deliver(c) \/ SlowPath(c) \/ PublishDrive(c) \/ Killed(c)

ServeStep(c) == ServeRefuse(c) \/ Serve(c)

OtherStep ==
  \/ Expire \/ TickDrive \/ TickStop \/ BridgePublish \/ SetBlock \/ Hold
  \/ ServeEnds \/ BridgeDies \/ BridgeStarts \/ Watchdog \/ UNCHANGED all

\* What a call d has done, and what was done for it.
Same(d) ==
  /\ pc'[d] = pc[d] /\ say'[d] = say[d] /\ answer'[d] = answer[d] /\ cmd'[d] = cmd[d]
  /\ carried'[d] = carried[d]

LEMMA StepOfOne ==
  ASSUME [NlNext]_all
  PROVE  (\E c \in Client : CallStep(c) \/ ServeStep(c)) \/ OtherStep
  BY DEF NlNext, BridgeStep, CallStep, ServeStep, OtherStep

LEMMA CallFrame ==
  ASSUME NlTypeInv, NEW c \in Client, CallStep(c)
  PROVE  /\ \A d \in Client \ {c} : Same(d) /\ (InQueue(d)' <=> InQueue(d))
         /\ UNCHANGED <<Bridge, motion, blocked, port, burst, out>>
         /\ InQueue(c)' => InQueue(c) \/ Send(c)
         /\ InQueue(c) \/ Send(c) => InQueue(c)'
<1> USE DEF NlTypeInv, NlTypeOK, Same, bridge, clients, Goto
<1>1. UNCHANGED <<Bridge, motion, blocked, port, burst, out>>
  BY DEF CallStep, Speak, Infer, Bypass, Ask, Answer, NoModel, Deliver, Send, NoBridge, Replied,
         NoReply, SlowPath, Match, NoSubscriber, TimeUp, PublishStop, PublishDrive, Killed
<1>2. \A d \in Client \ {c} : Same(d)
  <2>1. CASE (\E s \in {"stop", "other"} : Speak(c, s)) \/ Infer(c)
    BY <2>1 DEF Speak, Infer, Bypass, Ask, Answer, NoModel
  <2>2. CASE Deliver(c)
    BY <2>2 DEF Deliver, Send, NoBridge, Replied, NoReply
  <2>3. CASE SlowPath(c) \/ PublishDrive(c) \/ Killed(c)
    BY <2>3 DEF SlowPath, Match, CarriedOut, NoSubscriber, TimeUp, PublishStop, PublishDrive, Killed
  <2> QED
    BY <2>1, <2>2, <2>3 DEF CallStep
<1>3. CASE Send(c)
  <2>1. ~InQueue(c) /\ Len(queue) < Backlog /\ queue' = Append(queue, c)
    BY <1>3 DEF Send, SentOnce, NotSent
  <2>2. \A d : InQueue(d)' <=> InQueue(d) \/ d = c
    BY <2>1, Joins
  <2> QED
    BY <1>1, <1>2, <1>3, <2>2
<1>4. CASE ~Send(c)
  <2>1. UNCHANGED queue
    BY <1>4 DEF CallStep, Speak, Infer, Bypass, Ask, Answer, NoModel, Deliver, NoBridge, Replied,
         NoReply, SlowPath, Match, NoSubscriber, TimeUp, PublishStop, PublishDrive, Killed
  <2>2. \A d : InQueue(d)' <=> InQueue(d)
    BY <2>1 DEF InQueue
  <2> QED
    BY <1>1, <1>2, <1>4, <2>2
<1> QED
  BY <1>3, <1>4

LEMMA ServeFrame ==
  ASSUME NlTypeInv, NEW c \in Client, ServeStep(c)
  PROVE  /\ \A d \in Client \ {c} : Same(d)
         /\ \A d : InQueue(d)' <=> InQueue(d) /\ d # c
         /\ InQueue(c)
         /\ pc' = [pc EXCEPT ![c] = IF pc[c] = "await" THEN "replied" ELSE pc[c]]
         /\ UNCHANGED <<Bridge, port, out, say, answer, cmd, heard, slipped>>
         /\ port = "open"
         /\ carried'[c] = carried[c] \/ (~Refused(c) /\ carried'[c] = carried[c] + 1)
<1> USE DEF NlTypeInv, NlTypeOK
<1>1. Take(c) /\ (UNCHANGED carried \/ (~Refused(c) /\ CarriedOut(c)))
  BY DEF ServeStep, ServeRefuse, Serve
<1>2. /\ \A d : InQueue(d)' <=> InQueue(d) /\ d # c
      /\ InQueue(c)
      /\ pc' = [pc EXCEPT ![c] = IF pc[c] = "await" THEN "replied" ELSE pc[c]]
  BY <1>1, TakeLeaves
<1>3. UNCHANGED <<Bridge, port, out, say, answer, cmd, heard, slipped>> /\ port = "open"
  BY <1>1 DEF Take, clients
<1>4. /\ \A d \in Client \ {c} : carried'[d] = carried[d]
      /\ carried'[c] = carried[c] \/ (~Refused(c) /\ carried'[c] = carried[c] + 1)
  BY <1>1 DEF CarriedOut
<1> QED
  BY <1>2, <1>3, <1>4 DEF Same

LEMMA OtherFrame ==
  ASSUME NlTypeInv, OtherStep
  PROVE  /\ UNCHANGED <<Bridge, pc, say, answer, cmd, word, carried>>
         /\ \A d \in Client : InQueue(d)' => InQueue(d)
         /\ Bridge = "falters" \/ UNCHANGED <<port, queue>>
<1>1. UNCHANGED <<Bridge, pc, say, answer, cmd, word, carried>>
  BY DEF OtherStep, Expire, TickDrive, TickStop, BridgePublish, Hear, SetBlock, Hold, ServeEnds,
         BridgeDies, BridgeStarts, Watchdog, all, bridge, clients
<1>2. UNCHANGED queue \/ queue' = <<>>
  BY DEF OtherStep, Expire, TickDrive, TickStop, BridgePublish, Hear, SetBlock, Hold, ServeEnds,
         BridgeDies, BridgeStarts, Watchdog, all, bridge
<1>3. Bridge = "falters" \/ UNCHANGED <<port, queue>>
  BY DEF OtherStep, Expire, TickDrive, TickStop, BridgePublish, Hear, SetBlock, Hold, ServeEnds,
         BridgeDies, BridgeStarts, Watchdog, all, bridge
<1>4. \A d \in Client : InQueue(d)' => InQueue(d)
  BY <1>2 DEF InQueue
<1> QED
  BY <1>1, <1>3, <1>4

-----------------------------------------------------------------------------
(* Only sound commands.                                                    *)

\* The command of c is worth carrying out.
Sound(c) == IF say[c] = "stop" THEN cmd[c] = Stopped ELSE answer[c] = "command"

\* c has its command: it is on its way on either path, or waits in the queue
\* though the call has given it up, or was carried out.
Commanded(c) ==
  \/ pc[c] \in {"send", "await", "replied", "slow", "drive", "stops"}
  \/ InQueue(c)
  \/ carried[c] > 0

SoundCall(c) ==
  /\ pc[c] \in NotSent => carried[c] = 0
  /\ pc[c] = "model" => say[c] # "stop"
  /\ Commanded(c) => Sound(c)

SoundInv == \A c \in Client : SoundCall(c)

LEMMA InitSound == NlInit => SoundInv
<1> SUFFICES ASSUME NlInit, NEW c \in Client PROVE SoundCall(c)
  BY DEF SoundInv
<1>1. pc[c] = "idle" /\ carried[c] = 0 /\ ~InQueue(c)
  BY NobodyInEmpty DEF NlInit
<1> QED
  BY <1>1 DEF SoundCall, Commanded

\* What is sound stays so, for a call the step does not touch.
LEMMA SoundStays ==
  ASSUME NlTypeInv, SoundInv, NEW d \in Client, Same(d), InQueue(d)' => InQueue(d)
  PROVE  SoundCall(d)'
  BY DEF SoundInv, SoundCall, Commanded, Sound, Same, Stopped

LEMMA CallSound ==
  ASSUME NlTypeInv, SoundInv, NEW c \in Client, CallStep(c)
  PROVE  SoundCall(c)'
<1> USE DEF NlTypeInv, NlTypeOK, SoundInv, SoundCall, Commanded, Sound, Goto, clients, Stopped,
            NotSent
<1>0. /\ InQueue(c)' => InQueue(c) \/ Send(c)
      /\ pc \in [Client -> Points] /\ carried[c] \in Nat
      /\ pc[c] \in NotSent => ~InQueue(c) /\ carried[c] = 0
  BY CallFrame DEF SentOnce
<1>1. ASSUME NEW s \in {"stop", "other"}, Speak(c, s) PROVE SoundCall(c)'
  BY <1>0, <1>1 DEF Speak, Send
<1>2. CASE Bypass(c)
  BY <1>0, <1>2 DEF Bypass, Send
<1>3. CASE Ask(c) \/ NoModel(c)
  BY <1>0, <1>3 DEF Ask, NoModel, Send
<1>4. ASSUME NEW a \in Answers, NEW m \in Motion, Answer(c, a, m) PROVE SoundCall(c)'
  <2>1. Exit(a) = "send" => a = "command"
    BY DEF Exit
  <2>2. Exit(a) \in {"send", "done", "failed"}
    BY DEF Exit
  <2>3. ~InQueue(c)' /\ carried'[c] = 0 /\ pc'[c] = Exit(a) /\ answer'[c] = a /\ say'[c] # "stop"
    BY <1>0, <1>4 DEF Answer, Send
  <2> QED
    BY <2>1, <2>2, <2>3
<1>5. CASE Deliver(c)
  <2>1. Sound(c)
    BY <1>5 DEF Deliver, Send, NoBridge, Replied, NoReply
  <2>2. UNCHANGED <<say, answer, cmd>> /\ pc'[c] \in {"await", "slow", "done"}
    BY <1>0, <1>5 DEF Deliver, Send, NoBridge, Replied, NoReply
  <2> QED
    BY <2>1, <2>2
<1>6. CASE SlowPath(c) \/ PublishDrive(c) \/ Killed(c)
  <2>1. Sound(c)
    BY <1>6 DEF SlowPath, Match, NoSubscriber, TimeUp, PublishStop, PublishDrive, Killed
  <2>2. UNCHANGED <<say, answer, cmd>> /\ pc'[c] \in {"drive", "failed", "stops", "done"}
    BY <1>0, <1>6 DEF SlowPath, Match, NoSubscriber, TimeUp, PublishStop, PublishDrive, Killed
  <2> QED
    BY <2>1, <2>2
<1> QED
  BY <1>1, <1>2, <1>3, <1>4, <1>5, <1>6 DEF CallStep, Infer

LEMMA ServeSound ==
  ASSUME NlTypeInv, SoundInv, NEW c \in Client, ServeStep(c)
  PROVE  SoundCall(c)'
<1>1. /\ InQueue(c) /\ UNCHANGED <<say, answer, cmd>>
      /\ pc'[c] = IF pc[c] = "await" THEN "replied" ELSE pc[c]
  BY ServeFrame DEF NlTypeInv, NlTypeOK
<1>2. Sound(c) /\ Sound(c)' /\ pc[c] \notin NotSent
  BY <1>1 DEF SoundInv, SoundCall, Commanded, Sound, Stopped, NlTypeInv, SentOnce
<1> QED
  BY <1>1, <1>2 DEF SoundCall, NotSent

LEMMA NextSound == NlTypeInv /\ SoundInv /\ [NlNext]_all => SoundInv'
<1> SUFFICES ASSUME NlTypeInv, SoundInv, [NlNext]_all, NEW d \in Client PROVE SoundCall(d)'
  BY DEF SoundInv
<1>1. ASSUME NEW c \in Client, CallStep(c) PROVE SoundCall(d)'
  BY <1>1, CallSound, CallFrame, SoundStays
<1>2. ASSUME NEW c \in Client, ServeStep(c) PROVE SoundCall(d)'
  BY <1>2, ServeSound, ServeFrame, SoundStays
<1>3. CASE OtherStep
  <2>1. Same(d) /\ (InQueue(d)' => InQueue(d))
    BY <1>3, OtherFrame DEF Same
  <2> QED
    BY <2>1, SoundStays
<1> QED
  BY <1>1, <1>2, <1>3, StepOfOne

\* Nothing is carried out, on either path and however late, for a sentence the
\* model refused or an answer that is no whole, bounded command.
THEOREM OnlySoundIsDriven == NlSpec => []OnlySoundCommands
<1>1. NlSpec => []SoundInv
  BY NlTypeInvariant, InitSound, NextSound, PTL DEF NlSpec
<1>2. SoundInv => OnlySoundCommands
  BY DEF SoundInv, SoundCall, Commanded, Sound, OnlySoundCommands
<1> QED
  BY <1>1, <1>2, PTL

-----------------------------------------------------------------------------
(* A bridge that serves: no call takes the slow path, the stop word included. *)

ServedCall(c) ==
  /\ pc[c] = "await" => InQueue(c)
  /\ pc[c] \notin {"slow", "drive", "stops"}

\* A stop word that was carried out last holds, whatever tick has decided on.
WordHolds == word # Nobody => StopIsSure

ServedInv ==
  Bridge = "serves" =>
    /\ port = "open"
    /\ \A c \in Client : ServedCall(c)
    /\ WordHolds

LEMMA InitServed == NlInit => ServedInv
  BY DEF NlInit, Init, ServedInv, ServedCall, WordHolds, StopIsSure

\* A call keeps to the bridge, for it is not refused and not kept waiting.
LEMMA CallServed ==
  ASSUME NlTypeInv, ServedInv, Bridge = "serves", NEW c \in Client, CallStep(c)
  PROVE  ServedCall(c)' /\ UNCHANGED <<heard, word, slipped>>
<1> USE DEF NlTypeInv, NlTypeOK, ServedInv, ServedCall, Goto
<1>1. CASE (\E s \in {"stop", "other"} : Speak(c, s)) \/ Bypass(c) \/ Ask(c) \/ NoModel(c)
  BY <1>1 DEF Speak, Bypass, Ask, NoModel
<1>2. ASSUME NEW a \in Answers, NEW m \in Motion, Answer(c, a, m)
      PROVE  ServedCall(c)' /\ UNCHANGED <<heard, word, slipped>>
  BY <1>2 DEF Answer, Exit
<1>3. CASE Send(c)
  BY <1>3, CallFrame DEF Send
<1>4. CASE Replied(c)
  BY <1>4 DEF Replied
<1>5. ~NoBridge(c) /\ ~NoReply(c)
  BY DEF NoBridge, NoReply, InQueue
<1>6. ~SlowPath(c) /\ ~PublishDrive(c) /\ ~Killed(c)
  BY DEF SlowPath, Match, NoSubscriber, TimeUp, PublishStop, PublishDrive, Killed
<1> QED
  BY <1>1, <1>2, <1>3, <1>4, <1>5, <1>6 DEF CallStep, Infer, Deliver

\* Whoever is served last has the last word.
LEMMA ServeHolds ==
  ASSUME NlTypeInv, SoundInv, WordHolds, NEW c \in Client, ServeStep(c)
  PROVE  WordHolds'
<1>1. UNCHANGED <<heard, out>>
  BY ServeFrame
<1>0. UNCHANGED <<motion, burst, word>> \/ Serve(c)
  BY DEF ServeStep, ServeRefuse
<1>2. CASE ServeRefuse(c)
  BY <1>0, <1>1, <1>2 DEF ServeRefuse, WordHolds, StopIsSure
<1>3. CASE Serve(c)
  <2>1. Nobody \notin Client /\ StopRepeat > 0
    BY NlAssumption
  <2>2. burst' = StopRepeat /\ (word' # Nobody => say[c] = "stop")
    BY <1>3 DEF Serve, CarriedOut
  <2>3. Sound(c)
    BY ServeFrame DEF SoundInv, SoundCall, Commanded
  <2>4. say[c] = "stop" => motion' = Stopped
    BY <1>3, <2>3 DEF Sound, Serve, Halt
  <2> QED
    BY <2>1, <2>2, <2>4 DEF WordHolds, StopIsSure
<1> QED
  BY <1>2, <1>3 DEF ServeStep

LEMMA OtherHolds ==
  ASSUME NlTypeInv, ServedInv, Bridge = "serves", OtherStep
  PROVE  WordHolds'
<1>0. WordHolds /\ (\A c \in Client : pc[c] # "drive") /\ UNCHANGED word
      /\ burst \in 0..StopRepeat /\ StopRepeat \in Nat \ {0} /\ ~Forward(Stopped)
  BY OtherFrame, NlAssumption DEF ServedInv, ServedCall, NlTypeInv, NlTypeOK, Forward, Stopped
<1> USE DEF WordHolds, StopIsSure
<1>1. CASE Expire
  BY <1>0, <1>1 DEF Expire, Halt
<1>2. CASE TickDrive \/ TickStop
  BY <1>0, <1>2 DEF TickDrive, TickStop
<1>3. CASE BridgePublish
  <2>1. /\ heard' = Head(out) /\ out # <<>> /\ out' = <<>>
        /\ UNCHANGED <<motion, burst>>
    BY <1>3 DEF BridgePublish, Hear
  <2>2. out = <<Stopped>> => Head(out) = Stopped
    OBVIOUS
  <2> QED
    BY <1>0, <2>1, <2>2
<1>4. CASE SetBlock
  BY <1>0, <1>4 DEF SetBlock, Block, Unblock
<1>5. CASE Watchdog
  BY <1>0, <1>5 DEF Watchdog, bridge
<1>6. CASE UNCHANGED all
  BY <1>0, <1>6 DEF all, bridge
<1>7. ~Hold /\ ~ServeEnds /\ ~BridgeDies /\ ~BridgeStarts
  BY DEF Hold, ServeEnds, BridgeDies, BridgeStarts
<1> QED
  BY <1>1, <1>2, <1>3, <1>4, <1>5, <1>6, <1>7 DEF OtherStep

LEMMA NextServed == NlTypeInv /\ SoundInv /\ ServedInv /\ [NlNext]_all => ServedInv'
<1> SUFFICES ASSUME NlTypeInv, SoundInv, ServedInv, [NlNext]_all, Bridge' = "serves"
             PROVE  port' = "open" /\ (\A d \in Client : ServedCall(d)') /\ WordHolds'
  BY DEF ServedInv
<1>1. ASSUME NEW c \in Client, CallStep(c)
      PROVE  port' = "open" /\ (\A d \in Client : ServedCall(d)') /\ WordHolds'
  <2>1. Bridge = "serves" /\ UNCHANGED <<port, motion, burst, out>>
        /\ \A d \in Client \ {c} : Same(d) /\ (InQueue(d)' <=> InQueue(d))
    BY <1>1, CallFrame
  <2>2. ServedCall(c)' /\ UNCHANGED <<heard, word>>
    BY <1>1, <2>1, CallServed
  <2> QED
    BY <2>1, <2>2 DEF ServedInv, ServedCall, WordHolds, StopIsSure, Same
<1>2. ASSUME NEW c \in Client, ServeStep(c)
      PROVE  port' = "open" /\ (\A d \in Client : ServedCall(d)') /\ WordHolds'
  <2>1. /\ Bridge = "serves" /\ UNCHANGED port
        /\ \A d \in Client \ {c} : Same(d)
        /\ \A d : InQueue(d)' <=> InQueue(d) /\ d # c
        /\ pc'[c] = IF pc[c] = "await" THEN "replied" ELSE pc[c]
    BY <1>2, ServeFrame DEF NlTypeInv, NlTypeOK
  <2>2. WordHolds'
    BY <1>2, <2>1, ServeHolds DEF ServedInv
  <2>3. \A d \in Client : ServedCall(d)'
    BY <2>1 DEF ServedInv, ServedCall, Same
  <2> QED
    BY <2>1, <2>2, <2>3 DEF ServedInv
<1>3. CASE OtherStep
  <2>1. UNCHANGED <<Bridge, pc>> /\ Bridge = "serves" /\ UNCHANGED <<port, queue>>
    BY <1>3, OtherFrame
  <2>2. WordHolds'
    BY <1>3, <2>1, OtherHolds
  <2>3. \A d \in Client : ServedCall(d)'
    BY <2>1 DEF ServedInv, ServedCall, InQueue
  <2> QED
    BY <2>1, <2>2, <2>3 DEF ServedInv
<1> QED
  BY <1>1, <1>2, <1>3, StepOfOne

LEMMA ServedInvariant == NlSpec => [](NlTypeInv /\ SoundInv /\ ServedInv)
<1>1. NlInit => NlTypeInv /\ SoundInv /\ ServedInv
  BY InitTypes, InitSound, InitServed
<1>2. NlTypeInv /\ SoundInv /\ ServedInv /\ [NlNext]_all => (NlTypeInv /\ SoundInv /\ ServedInv)'
  BY NextSound, NextServed, CallTypes, BridgeTypes, StillTypes DEF NlNext
<1> QED
  BY <1>1, <1>2, PTL DEF NlSpec

\* With a bridge that serves, a stop word that was the last thing carried out keeps
\* the robot from moving, but for one message tick may have decided on before and
\* that a stop follows.
THEOREM StopHasTheLastWord == NlSpec => []StopIsTheLastWord
<1>1. ServedInv => StopIsTheLastWord
  BY NlAssumption DEF ServedInv, WordHolds, StopIsTheLastWord, StopSaid
<1> QED
  BY <1>1, ServedInvariant, PTL

-----------------------------------------------------------------------------
(* The way that is blocked.                                                *)

\* DriveLatch: no forward motion is remembered while the way is blocked.
Latched == blocked => ~Forward(motion)

\* One forward message was published since the block, and tick holds none any more
\* and cannot decide on one; or none was published yet.
Slipped ==
  \/ slipped = 0
  \/ blocked /\ slipped = 1 /\ (out # <<>> => ~Forward(Head(out)))

BlockInv == Latched /\ (Bridge = "serves" => Slipped)

LEMMA InitBlock == NlInit => BlockInv
  BY DEF NlInit, Init, BlockInv, Latched, Slipped

LEMMA OtherLatched == ASSUME Latched, OtherStep PROVE Latched'
<1>0. ~Forward(Stopped)
  BY DEF Forward, Stopped
<1> QED
  BY <1>0 DEF OtherStep, Expire, Halt, TickDrive, TickStop, BridgePublish, SetBlock, Block, Unblock,
     Hold, ServeEnds, BridgeDies, BridgeStarts, Fail, Watchdog, all, bridge, Latched

LEMMA OtherSlipped ==
  ASSUME NlTypeInv, Latched, Slipped, Bridge = "serves", OtherStep
  PROVE  Slipped'
<1>0. ~Forward(Stopped) /\ \A m : Head(<<m>>) = m
  BY DEF Forward, Stopped
<1> USE DEF Slipped
<1>1. CASE Expire \/ Watchdog \/ UNCHANGED all
  BY <1>1 DEF Expire, Halt, Watchdog, all, bridge
<1>2. CASE TickDrive \/ TickStop
  <2>1. PICK m : out' = <<m>> /\ (blocked => ~Forward(m)) /\ UNCHANGED <<blocked, slipped>>
    BY <1>0, <1>2 DEF TickDrive, TickStop, Latched
  <2> QED
    BY <1>0, <2>1
<1>3. CASE BridgePublish
  <2>1. /\ out # <<>> /\ out' = <<>> /\ UNCHANGED blocked
        /\ slipped' = IF Bridge = "serves" /\ blocked /\ Forward(Head(out)) /\ slipped < Many
                      THEN slipped + 1
                      ELSE slipped
    BY <1>3 DEF BridgePublish, Hear
  <2> QED
    BY <2>1 DEF Many
<1>4. CASE SetBlock
  BY <1>4 DEF SetBlock, Block, Unblock
<1>5. ~Hold /\ ~ServeEnds /\ ~BridgeDies /\ ~BridgeStarts
  BY DEF Hold, ServeEnds, BridgeDies, BridgeStarts
<1> QED
  BY <1>1, <1>2, <1>3, <1>4, <1>5 DEF OtherStep

LEMMA NextBlock == NlTypeInv /\ ServedInv /\ BlockInv /\ [NlNext]_all => BlockInv'
<1> SUFFICES ASSUME NlTypeInv, ServedInv, BlockInv, [NlNext]_all PROVE BlockInv'
  OBVIOUS
<1>0. ~Forward(Stopped)
  BY DEF Forward, Stopped
<1>1. ASSUME NEW c \in Client, CallStep(c) PROVE BlockInv'
  <2>1. UNCHANGED <<Bridge, motion, blocked, out>>
    BY <1>1, CallFrame
  <2>2. Bridge = "serves" => UNCHANGED slipped
    BY <1>1, CallServed
  <2> QED
    BY <2>1, <2>2 DEF BlockInv, Latched, Slipped
<1>2. ASSUME NEW c \in Client, ServeStep(c) PROVE BlockInv'
  <2>1. UNCHANGED <<Bridge, out, slipped>>
    BY <1>2, ServeFrame
  <2>2. Latched' /\ UNCHANGED blocked
    BY <1>0, <1>2 DEF ServeStep, ServeRefuse, Serve, Halt, Drive, BlockInv, Latched
  <2> QED
    BY <2>1, <2>2 DEF BlockInv, Slipped
<1>3. CASE OtherStep
  <2>1. UNCHANGED Bridge
    BY <1>3, OtherFrame
  <2> QED
    BY <1>3, <2>1, OtherLatched, OtherSlipped DEF BlockInv
<1> QED
  BY <1>1, <1>2, <1>3, StepOfOne

\* With a bridge that serves, for as long as it holds the way blocked one message at
\* most that moves the robot forward is published, by the bridge or by anyone else:
\* the one tick had decided on when the block came.
THEOREM BlockIsObeyed == NlSpec => []BlockedIsObeyed
<1>1. NlTypeInv /\ SoundInv /\ ServedInv /\ BlockInv /\ [NlNext]_all => BlockInv'
  BY NextBlock
<1>2. BlockInv => BlockedIsObeyed
  BY DEF BlockInv, Slipped, BlockedIsObeyed
<1> QED
  BY <1>1, <1>2, InitBlock, ServedInvariant, PTL DEF NlSpec

-----------------------------------------------------------------------------
(* Once.                                                                   *)

\* With a bridge that serves, or with none, a call gives up only a bridge that has
\* not its request, and is carried out on one path.
OnceCall(c) ==
  /\ InQueue(c) => pc[c] = "await"
  /\ carried[c] > 0 => pc[c] \in {"replied", "drive", "stops", "done", "failed"}
  /\ carried[c] <= 1

OnceInv ==
  Bridge # "falters" =>
    /\ Bridge = "absent" => port = "closed"
    /\ \A c \in Client : OnceCall(c)

LEMMA InitOnce == NlInit => OnceInv
  BY NobodyInEmpty DEF NlInit, OnceInv, OnceCall

LEMMA CallOnce ==
  ASSUME NlTypeInv, OnceInv, Bridge # "falters", NEW c \in Client, CallStep(c)
  PROVE  OnceCall(c)'
<1> USE DEF NlTypeInv, NlTypeOK, OnceInv, OnceCall, Goto
<1>0. /\ InQueue(c)' => InQueue(c) \/ Send(c)
      /\ carried[c] \in Nat /\ pc \in [Client -> Points]
  BY CallFrame
<1>1. CASE (\E s \in {"stop", "other"} : Speak(c, s)) \/ Infer(c)
  BY <1>0, <1>1 DEF Speak, Infer, Bypass, Ask, Answer, NoModel, Send
<1>2. CASE Send(c)
  BY <1>0, <1>2 DEF Send
<1>3. CASE NoReply(c)
  <2>1. ~InQueue(c)
    BY <1>3 DEF NoReply, InQueue
  <2> QED
    BY <1>0, <1>3, <2>1 DEF NoReply, Send
<1>4. CASE NoBridge(c) \/ Replied(c) \/ NoSubscriber(c)
  BY <1>0, <1>4 DEF NoBridge, Replied, NoSubscriber, Send
<1>5. CASE Match(c)
  <2>1. carried[c] = 0
    <3>1. pc[c] = "slow"
      BY <1>5 DEF Match
    <3>2. ~(carried[c] > 0)
      BY <3>1
    <3> QED
      BY <1>0, <3>2
  <2>3. ~InQueue(c)'
    BY <1>0, <1>5 DEF Match, Send
  <2>2. carried'[c] = carried[c] + 1 /\ pc'[c] = "drive"
    BY <1>0, <1>5 DEF Match, CarriedOut
  <2> QED
    BY <2>1, <2>2, <2>3
<1>6. CASE TimeUp(c) \/ PublishStop(c) \/ PublishDrive(c) \/ Killed(c)
  BY <1>0, <1>6 DEF TimeUp, PublishStop, PublishDrive, Killed, Send
<1> QED
  BY <1>1, <1>2, <1>3, <1>4, <1>5, <1>6 DEF CallStep, Deliver, SlowPath

LEMMA NextOnce == NlTypeInv /\ OnceInv /\ [NlNext]_all => OnceInv'
<1> SUFFICES ASSUME NlTypeInv, OnceInv, [NlNext]_all, Bridge' # "falters"
             PROVE  (Bridge' = "absent" => port' = "closed") /\ \A d \in Client : OnceCall(d)'
  BY DEF OnceInv
<1>1. ASSUME NEW c \in Client, CallStep(c)
      PROVE  (Bridge' = "absent" => port' = "closed") /\ \A d \in Client : OnceCall(d)'
  <2>1. UNCHANGED <<Bridge, port>>
        /\ \A d \in Client \ {c} : Same(d) /\ (InQueue(d)' <=> InQueue(d))
    BY <1>1, CallFrame
  <2>2. OnceCall(c)'
    BY <1>1, <2>1, CallOnce
  <2> QED
    BY <2>1, <2>2 DEF OnceInv, OnceCall, Same
<1>2. ASSUME NEW c \in Client, ServeStep(c)
      PROVE  (Bridge' = "absent" => port' = "closed") /\ \A d \in Client : OnceCall(d)'
  <2>1. /\ UNCHANGED <<Bridge, port>> /\ InQueue(c)
        /\ \A d \in Client \ {c} : Same(d)
        /\ \A d : InQueue(d)' <=> InQueue(d) /\ d # c
        /\ pc'[c] = IF pc[c] = "await" THEN "replied" ELSE pc[c]
        /\ carried'[c] = carried[c] \/ carried'[c] = carried[c] + 1
        /\ carried[c] \in Nat
    BY <1>2, ServeFrame DEF NlTypeInv, NlTypeOK
  <2>2. pc[c] = "await" /\ carried[c] = 0
    BY <2>1 DEF OnceInv, OnceCall
  <2>3. OnceCall(c)'
    BY <2>1, <2>2 DEF OnceCall
  <2> QED
    BY <2>1, <2>3 DEF OnceInv, OnceCall, Same
<1>3. CASE OtherStep
  BY <1>3, OtherFrame DEF OnceInv, OnceCall
<1> QED
  BY <1>1, <1>2, <1>3, StepOfOne

\* A sentence is carried out once at most when the bridge serves, and when there is
\* none: what NlDrive_late shows to fail takes a bridge that falters.
THEOREM OnceUnlessItFalters == NlSpec => [](Bridge # "falters" => CarriedOutOnce)
<1>1. OnceInv => (Bridge # "falters" => CarriedOutOnce)
  BY DEF OnceInv, OnceCall, CarriedOutOnce
<1> QED
  BY <1>1, InitOnce, NextOnce, NlTypeInvariant, PTL DEF NlSpec
=============================================================================
