------------------------ MODULE ObstacleGuardProofs -------------------------
(***************************************************************************)
(* Theorems about ObstacleGuard, for every set of speeds, every threshold  *)
(* of the streaks, length of the listen queue and number of crashes.       *)
(***************************************************************************)
EXTENDS ObstacleGuard, SequenceTheorems, TLAPS

(* Requests and the queue.                                                 *)

LEMMA RequestFields ==
  ASSUME NEW r \in Request
  PROVE  /\ r.kind \in {"drive", "status", "block", "unblock"}
         /\ r.live \in BOOLEAN
         /\ r.live => [r EXCEPT !.live = FALSE] \in Request
         /\ r.live => [r EXCEPT !.live = FALSE].kind = r.kind
         /\ r.live => [r EXCEPT !.live = FALSE].live = FALSE
         /\ r.kind = "drive" => r.m \in Motion
BY DEF Request, DriveRequest, GuardRequest

LEMMA Longer ==
  ASSUME NEW S, NEW q \in Seq(S), NEW x \in S
  PROVE  /\ Append(q, x) \in Seq(S)
         /\ Len(Append(q, x)) = Len(q) + 1
         /\ DOMAIN Append(q, x) = 1..(Len(q) + 1)
         /\ DOMAIN q = 1..Len(q)
         /\ \A i \in 1..Len(q) : Append(q, x)[i] = q[i]
         /\ Append(q, x)[Len(q) + 1] = x
OBVIOUS

LEMMA Shorter ==
  ASSUME NEW S, NEW q \in Seq(S), q # <<>>
  PROVE  /\ Tail(q) \in Seq(S) /\ Head(q) = q[1] /\ Head(q) \in S
         /\ Len(q) \in Nat \ {0} /\ Len(Tail(q)) = Len(q) - 1
         /\ DOMAIN Tail(q) = 1..(Len(q) - 1)
         /\ DOMAIN q = 1..Len(q)
         /\ \A i \in 1..(Len(q) - 1) : Tail(q)[i] = q[i + 1]
BY HeadTailProperties

-----------------------------------------------------------------------------
(* Types.  At most one request is live, and only while the guard waits for  *)
(* its reply.                                                              *)

Waits == {"asking", "starting", "blocking", "unblocking"}
NoLive == \A i \in DOMAIN queue : ~queue[i].live

LiveInv == answer # <<>> \/ gpc \notin Waits => NoLive

TypeInv == GuardTypeOK /\ LiveInv

LEMMA ConnectTypes ==
  ASSUME TypeInv, NEW k \in {"status", "block", "unblock"}, NEW p \in Waits,
         gpc \notin Waits, Connect(k, p)
  PROVE  TypeInv'
<1> DEFINE r == [kind |-> k, live |-> TRUE]
<1>1. r \in Request
  BY DEF Request, GuardRequest
<1>2. queue \in Seq(Request) /\ Len(queue) < Backlog /\ Backlog \in Nat
  BY GuardAssumption DEF TypeInv, GuardTypeOK, Connect
<1>3. queue' = Append(queue, r)
  BY DEF Connect
<1>4. /\ queue' \in Seq(Request) /\ Len(queue') = Len(queue) + 1
      /\ DOMAIN queue' = 1..(Len(queue) + 1) /\ DOMAIN queue = 1..Len(queue)
      /\ \A i \in 1..Len(queue) : queue'[i] = queue[i]
  BY <1>1, <1>2, <1>3, Longer
<1>5. NoLive
  BY DEF TypeInv, LiveInv
<1>6. \A i, j \in DOMAIN queue' : queue'[i].live /\ queue'[j].live => i = j
  BY <1>2, <1>4, <1>5 DEF NoLive
<1>7. Len(queue') <= Backlog
  BY <1>2, <1>4
<1>8. p \in GuardPoints
  BY DEF Waits, GuardPoints
<1> QED
  BY <1>4, <1>6, <1>7, <1>8 DEF Connect, TypeInv, GuardTypeOK, LiveInv, world

\* What is abandoned stays where it is and what it is.
LEMMA AbandonTypes ==
  ASSUME TypeInv, Abandon
  PROVE  /\ queue' \in Seq(Request) /\ Len(queue') = Len(queue)
         /\ DOMAIN queue' = DOMAIN queue
         /\ \A i \in DOMAIN queue : queue'[i].kind = queue[i].kind
         /\ NoLive' /\ answer' = <<>>
<1>1. queue \in Seq(Request)
  BY DEF TypeInv, GuardTypeOK
<1>2. DOMAIN queue = 1..Len(queue) /\ Len(queue) \in Nat
  BY <1>1
<1> DEFINE left(i) == IF queue[i].live THEN [queue[i] EXCEPT !.live = FALSE] ELSE queue[i]
<1>3. queue' = [i \in 1..Len(queue) |-> left(i)] /\ answer' = <<>>
  BY <1>2 DEF Abandon
<1>4. \A i \in 1..Len(queue) :
        left(i) \in Request /\ left(i).kind = queue[i].kind /\ left(i).live = FALSE
  BY <1>1, RequestFields
<1> HIDE DEF left
<1>5. queue' \in Seq(Request) /\ Len(queue') = Len(queue)
  BY <1>2, <1>3, <1>4
<1> QED
  BY <1>2, <1>3, <1>4, <1>5 DEF NoLive

LEMMA ServeTypes ==
  ASSUME TypeInv, Serve
  PROVE  TypeInv'
<1>1. queue \in Seq(Request) /\ queue # <<>>
  BY DEF TypeInv, GuardTypeOK, Serve
<1>2. /\ queue' = Tail(queue) /\ Head(queue) = queue[1] /\ Head(queue) \in Request
      /\ queue' \in Seq(Request) /\ Len(queue') = Len(queue) - 1
      /\ Len(queue) \in Nat \ {0}
      /\ DOMAIN queue' = 1..(Len(queue) - 1) /\ DOMAIN queue = 1..Len(queue)
      /\ \A i \in 1..(Len(queue) - 1) : queue'[i] = queue[i + 1]
  BY <1>1, Shorter DEF Serve
<1>3. motion' \in Motion /\ blocked' \in BOOLEAN
  <2>1. Stopped \in Motion /\ motion \in Motion /\ blocked \in BOOLEAN
    BY LatchAssumption DEF Stopped, Motion, TypeInv, GuardTypeOK
  <2>2. Honour(Head(queue))
    BY DEF Serve
  <2>3. Head(queue).kind = "drive" => Head(queue).m \in Motion
    BY <1>2, RequestFields
  <2>4. Head(queue).kind \in {"drive", "status", "block", "unblock"}
    BY <1>2, RequestFields
  <2> QED
    BY <2>1, <2>2, <2>3, <2>4 DEF Honour, Block, Unblock, Halt, Drive
<1>4. Len(queue') <= Backlog
  BY <1>2, GuardAssumption DEF TypeInv, GuardTypeOK
<1>5. \A i, j \in DOMAIN queue' : queue'[i].live /\ queue'[j].live => i = j
  <2> SUFFICES ASSUME NEW i \in DOMAIN queue', NEW j \in DOMAIN queue',
                      queue'[i].live, queue'[j].live
               PROVE  i = j
    OBVIOUS
  <2>1. queue[i + 1].live /\ queue[j + 1].live /\ i + 1 \in DOMAIN queue /\ j + 1 \in DOMAIN queue
    BY <1>2
  <2>2. i + 1 = j + 1
    BY <2>1 DEF TypeInv, GuardTypeOK
  <2> QED
    BY <1>2, <2>2
<1>6. answer' = IF Head(queue).live THEN <<motion'.lin>> ELSE answer
  BY DEF Serve
<1>7. answer' \in {<<>>} \cup {<<l>> : l \in Lin}
  BY <1>3, <1>6 DEF TypeInv, GuardTypeOK, Motion
<1>8. LiveInv'
  <2>1. CASE Head(queue).live
    <3>1. \A i \in DOMAIN queue' : ~queue'[i].live
      <4> SUFFICES ASSUME NEW i \in DOMAIN queue', queue'[i].live PROVE FALSE
        OBVIOUS
      <4>1. queue[i + 1].live /\ i + 1 \in DOMAIN queue /\ 1 \in DOMAIN queue /\ queue[1].live
        BY <1>2, <2>1
      <4>2. i + 1 = 1
        BY <4>1 DEF TypeInv, GuardTypeOK
      <4> QED
        BY <1>2, <4>2
    <3> QED
      BY <3>1 DEF LiveInv, NoLive
  <2>2. CASE ~Head(queue).live
    <3>1. answer' = answer /\ gpc' = gpc
      BY <1>6, <2>2 DEF Serve, guard
    <3>2. NoLive => NoLive'
      BY <1>2 DEF NoLive
    <3> QED
      BY <3>1, <3>2 DEF LiveInv, TypeInv
  <2> QED
    BY <2>1, <2>2
<1> QED
  BY <1>2, <1>3, <1>4, <1>5, <1>7, <1>8 DEF Serve, TypeInv, GuardTypeOK, guard, world

LEMMA CommandTypes ==
  ASSUME TypeInv, NEW m \in Motion, Command(m)
  PROVE  TypeInv'
<1> DEFINE r == [kind |-> "drive", m |-> m, live |-> FALSE]
<1>1. r \in Request /\ r.live = FALSE
  BY DEF Request, DriveRequest
<1>2. queue \in Seq(Request) /\ Len(queue) < Backlog /\ Backlog \in Nat
  BY GuardAssumption DEF TypeInv, GuardTypeOK, Command
<1>3. queue' = Append(queue, r)
  BY DEF Command
<1>4. /\ queue' \in Seq(Request) /\ Len(queue') = Len(queue) + 1
      /\ DOMAIN queue' = 1..(Len(queue) + 1) /\ DOMAIN queue = 1..Len(queue)
      /\ \A i \in 1..Len(queue) : queue'[i] = queue[i]
      /\ queue'[Len(queue) + 1] = r
  BY <1>1, <1>2, <1>3, Longer
<1>5. \A i \in DOMAIN queue' : queue'[i].live => i \in DOMAIN queue /\ queue[i].live
  BY <1>1, <1>2, <1>4
<1>6. \A i, j \in DOMAIN queue' : queue'[i].live /\ queue'[j].live => i = j
  BY <1>5 DEF TypeInv, GuardTypeOK
<1>7. Len(queue') <= Backlog
  BY <1>2, <1>4
<1>8. LiveInv'
  BY <1>5 DEF Command, TypeInv, LiveInv, NoLive, guard
<1> QED
  BY <1>4, <1>6, <1>7, <1>8 DEF Command, TypeInv, GuardTypeOK, guard, world

LEMMA InitTypes == GuardInit => TypeInv
<1> SUFFICES ASSUME GuardInit PROVE TypeInv
  OBVIOUS
<1>1. motion \in Motion /\ blocked \in BOOLEAN
  BY LatchAssumption DEF GuardInit, Init, Stopped, Motion
<1>2. queue \in Seq(Request) /\ Len(queue) <= Backlog /\ DOMAIN queue = {}
  BY GuardAssumption DEF GuardInit
<1>3. /\ crashes \in Nat
      /\ near_streak \in 0..NearFrames /\ clear_streak \in 0..ClearFrames /\ v \in Lin
      /\ gpc \in GuardPoints /\ img \in Views /\ latest \in Views
  BY GuardAssumption, LatchAssumption DEF GuardInit, GuardPoints, Views
<1> QED
  BY <1>1, <1>2, <1>3 DEF GuardInit, TypeInv, GuardTypeOK, LiveInv, NoLive

LEMMA NextTypes == TypeInv /\ [GuardNext]_all => TypeInv'
<1> SUFFICES ASSUME TypeInv, [GuardNext]_all PROVE TypeInv'
  OBVIOUS
<1> USE DEF TypeInv, GuardTypeOK, LiveInv, NoLive, guard, world, wire
<1>1. CASE UNCHANGED all
  BY <1>1 DEF all
<1>2. CASE Move \/ Capture \/ CamFreezes \/ CamGoes \/ CamStarts
  BY <1>2 DEF Move, Capture, CamFreezes, CamGoes, CamStarts, Views
<1>3. CASE Start \/ Ask \/ SendBlock \/ SendUnblock
  BY <1>3, ConnectTypes DEF Start, Ask, SendBlock, SendUnblock, Waits
<1>4. CASE Told \/ HungUp
  BY <1>4 DEF Told, HungUp, Replied, GuardPoints
<1>5. CASE Grab
  BY <1>5 DEF Grab, GuardPoints, Waits
<1>6. CASE Learn
  <2>1. Head(answer) \in Lin
    BY <1>6 DEF Learn, Replied
  <2> QED
    BY <1>6, <2>1 DEF Learn, Replied, GuardPoints
<1>7. CASE Guess
  BY <1>7, AbandonTypes, LatchAssumption DEF Guess, GuardPoints
<1>8. CASE Decide
  <2>1. near_streak' \in 0..NearFrames /\ clear_streak' \in 0..ClearFrames
    BY <1>8, GuardAssumption DEF Decide, Streaks, CountTo
  <2>2. Verdict \in {"block", "unblock", "grab"}
    BY DEF Verdict
  <2>3. gblocked' \in BOOLEAN
    BY <1>8 DEF Decide
  <2> QED
    BY <1>8, <2>1, <2>2, <2>3 DEF Decide, GuardPoints, Waits
<1>9. CASE Die
  BY <1>9, AbandonTypes DEF Die, GuardPoints
<1>10. CASE Rerun
  <2>1. 0 \in Lin /\ 0 \in 0..NearFrames /\ 0 \in 0..ClearFrames
    BY GuardAssumption, LatchAssumption
  <2>2. NoLive' /\ LiveInv'
    BY <1>10 DEF Rerun, Waits
  <2> QED
    BY <1>10, <2>1, <2>2 DEF Rerun, GuardPoints, Views
<1>11. ASSUME NEW m \in Motion, Command(m) PROVE TypeInv'
  BY <1>11, CommandTypes
<1>12. CASE Serve
  BY <1>12, ServeTypes
<1>13. CASE Expire
  BY <1>13, LatchAssumption DEF Expire, Halt, Stopped, Motion
<1>14. CASE Crash
  <2>1. motion' \in Motion /\ blocked' \in BOOLEAN
    BY <1>14, LatchAssumption DEF Crash, Fail, Stopped, Motion
  <2>2. queue' \in Seq(Request) /\ Len(queue') <= Backlog /\ DOMAIN queue' = {}
    BY <1>14, GuardAssumption DEF Crash
  <2> QED
    BY <1>14, <2>1, <2>2 DEF Crash
<1> QED
  BY <1>1, <1>2, <1>3, <1>4, <1>5, <1>6, <1>7, <1>8, <1>9, <1>10, <1>11, <1>12, <1>13, <1>14
     DEF GuardNext, GuardStep

\* The types hold in every reachable state, and one request of the guard at most
\* has somebody waiting for its reply.
THEOREM TypeCorrect == GuardSpec => []GuardTypeOK
<1>1. TypeInv => GuardTypeOK
  BY DEF TypeInv
<1> QED
  BY <1>1, InitTypes, NextTypes, PTL DEF GuardSpec

-----------------------------------------------------------------------------
(* What the guard believes.  While it waits for the reply to a word, a block *)
(* or its end, that word is the last in the queue, or it has been taken and *)
(* no word is left; older words come before it.  Between exchanges no word  *)
(* is left, so that the bridge stays as it was told.                       *)

Word == {"block", "unblock"}
Silent == \A i \in DOMAIN queue : queue[i].kind \notin Word
LastWord(k) ==
  \E i \in DOMAIN queue :
    /\ queue[i].live /\ queue[i].kind = k
    /\ \A j \in DOMAIN queue : j > i => queue[j].kind \notin Word

\* Nothing that lifts the block is on its way.
NoLift == \A i \in DOMAIN queue : queue[i].kind # "unblock"

WordInv ==
  /\ gpc \in {"start", "starting", "unblock", "unblocking"} => ~gblocked
  /\ gpc \in {"block", "blocking"} => gblocked
  /\ gpc \in {"starting", "unblocking"} => LastWord("unblock") \/ (Silent /\ ~blocked)
  /\ gpc = "blocking" => LastWord("block") \/ (Silent /\ (crashes = 0 => blocked))
  /\ Between \/ gpc \in {"block", "unblock"} => Silent
  /\ gpc \in {"blocking", "dead"} /\ gblocked => NoLift
  /\ Agree

\* A new word is the last one.
LEMMA ConnectWords ==
  ASSUME TypeInv, NEW k \in {"status", "block", "unblock"}, NEW p, Connect(k, p)
  PROVE  /\ k \in Word => LastWord(k)'
         /\ k \notin Word /\ Silent => Silent'
         /\ k = "block" /\ Silent => NoLift'
<1> DEFINE r == [kind |-> k, live |-> TRUE]
<1>1. r \in Request /\ r.kind = k /\ r.live
  BY DEF Request, GuardRequest
<1>2. queue \in Seq(Request) /\ queue' = Append(queue, r) /\ Len(queue) \in Nat
  BY DEF TypeInv, GuardTypeOK, Connect
<1> HIDE DEF r
<1>3. /\ DOMAIN queue' = 1..(Len(queue) + 1) /\ DOMAIN queue = 1..Len(queue)
      /\ \A i \in 1..Len(queue) : queue'[i] = queue[i]
      /\ queue'[Len(queue) + 1] = r
  BY <1>1, <1>2, Longer
<1>4. \A i \in DOMAIN queue' : i \in DOMAIN queue \/ i = Len(queue) + 1
  BY <1>2, <1>3
<1>5. k \in Word => LastWord(k)'
  <2>1. Len(queue) + 1 \in DOMAIN queue'
    BY <1>2, <1>3
  <2>2. \A j \in DOMAIN queue' : ~(j > Len(queue) + 1)
    BY <1>2, <1>3
  <2> QED
    BY <1>1, <1>3, <2>1, <2>2 DEF LastWord
<1> QED
  BY <1>1, <1>3, <1>4, <1>5 DEF Silent, NoLift, Word

\* The words of others and of the past: a command is none, and what is abandoned
\* says what it said.
LEMMA CommandWords ==
  ASSUME TypeInv, NEW m \in Motion, Command(m)
  PROVE  /\ \A k : LastWord(k) => LastWord(k)'
         /\ Silent => Silent'
         /\ NoLift => NoLift'
<1> DEFINE r == [kind |-> "drive", m |-> m, live |-> FALSE]
<1>1. r \in Request /\ r.kind = "drive"
  BY DEF Request, DriveRequest
<1>2. queue \in Seq(Request) /\ queue' = Append(queue, r) /\ Len(queue) \in Nat
  BY DEF TypeInv, GuardTypeOK, Command
<1> HIDE DEF r
<1>3. /\ DOMAIN queue' = 1..(Len(queue) + 1) /\ DOMAIN queue = 1..Len(queue)
      /\ \A i \in 1..Len(queue) : queue'[i] = queue[i]
      /\ queue'[Len(queue) + 1] = r
  BY <1>1, <1>2, Longer
<1>4. \A i \in DOMAIN queue' : (i \in DOMAIN queue /\ queue'[i] = queue[i]) \/ queue'[i] = r
  BY <1>2, <1>3
<1>5. \A i \in DOMAIN queue : i \in DOMAIN queue' /\ queue'[i] = queue[i]
  BY <1>2, <1>3
<1> QED
  BY <1>1, <1>4, <1>5 DEF Silent, NoLift, Word, LastWord

LEMMA AbandonWords ==
  ASSUME TypeInv, Abandon
  PROVE  (Silent => Silent') /\ (NoLift => NoLift')
  BY AbandonTypes DEF Silent, NoLift

\* serve takes a word, which is then what the bridge was told last, or no word.
LEMMA ServeWords ==
  ASSUME TypeInv, Serve
  PROVE  /\ Silent => Silent' /\ blocked' = blocked
         /\ NoLift => NoLift' /\ (blocked => blocked')
         /\ LastWord("unblock") => LastWord("unblock")' \/ (Silent' /\ ~blocked')
         /\ LastWord("block") => LastWord("block")' \/ (Silent' /\ blocked')
<1>1. queue \in Seq(Request) /\ queue # <<>>
  BY DEF TypeInv, GuardTypeOK, Serve
<1>2. /\ queue' = Tail(queue) /\ Head(queue) = queue[1] /\ Head(queue) \in Request
      /\ Len(queue) \in Nat \ {0}
      /\ DOMAIN queue' = 1..(Len(queue) - 1) /\ DOMAIN queue = 1..Len(queue)
      /\ \A i \in 1..(Len(queue) - 1) : queue'[i] = queue[i + 1]
  BY <1>1, Shorter DEF Serve
<1>3. \A i \in DOMAIN queue' : i + 1 \in DOMAIN queue /\ queue'[i] = queue[i + 1]
  BY <1>2
<1>4. 1 \in DOMAIN queue /\ queue[1].kind \in {"drive", "status", "block", "unblock"}
  <2>1. queue[1] \in Request /\ 1 \in 1..Len(queue)
    BY <1>2
  <2> QED
    BY <1>2, <2>1, RequestFields
<1>5. /\ queue[1].kind = "block" => blocked' = TRUE
      /\ queue[1].kind = "unblock" => blocked' = FALSE
      /\ queue[1].kind \notin Word => blocked' = blocked
  <2>1. Honour(queue[1])
    BY <1>2 DEF Serve
  <2>2. CASE queue[1].kind \in Word
    BY <2>1, <2>2 DEF Word, Honour, Block, Unblock
  <2>3. CASE queue[1].kind \notin Word
    BY <1>4, <2>1, <2>3 DEF Word, Honour, Halt, Drive
  <2> QED
    BY <2>2, <2>3 DEF Word
<1>6. Silent => Silent' /\ blocked' = blocked
  BY <1>3, <1>4, <1>5 DEF Silent
<1>7. NoLift => NoLift' /\ (blocked => blocked')
  BY <1>3, <1>4, <1>5 DEF NoLift, Word
<1>8. ASSUME NEW k, LastWord(k)
      PROVE  LastWord(k)' \/ (Silent' /\ queue[1].kind = k)
  <2>1. PICK i \in DOMAIN queue : /\ queue[i].live /\ queue[i].kind = k
                                  /\ \A j \in DOMAIN queue : j > i => queue[j].kind \notin Word
    BY <1>8 DEF LastWord
  <2>2. CASE i = 1
    <3>1. Silent'
      BY <1>2, <1>3, <2>1, <2>2 DEF Silent
    <3> QED
      BY <2>1, <2>2, <3>1
  <2>3. CASE i # 1
    <3>1. i - 1 \in DOMAIN queue' /\ queue'[i - 1] = queue[i]
      BY <1>2, <2>1, <2>3
    <3>2. \A j \in DOMAIN queue' : j > i - 1 => queue'[j].kind \notin Word
      BY <1>2, <1>3, <2>1
    <3> QED
      BY <2>1, <3>1, <3>2 DEF LastWord
  <2> QED
    BY <2>2, <2>3
<1> QED
  BY <1>5, <1>6, <1>7, <1>8

LEMMA InitWords == GuardInit => WordInv
  BY DEF GuardInit, Init, WordInv, Agree, Between, Silent, NoLift

LEMMA NextWords == TypeInv /\ WordInv /\ [GuardNext]_all => WordInv'
<1> SUFFICES ASSUME TypeInv, WordInv, [GuardNext]_all PROVE WordInv'
  OBVIOUS
<1> USE DEF WordInv, Agree, Between
<1>1. CASE UNCHANGED all \/ Move \/ Capture \/ CamFreezes \/ CamGoes \/ CamStarts \/ Expire
  <2>1. UNCHANGED <<blocked, queue, gpc, gblocked, crashes>>
    BY <1>1 DEF all, Move, Capture, CamFreezes, CamGoes, CamStarts, Expire, Halt, guard, wire
  <2> QED
    BY <2>1 DEF Silent, NoLift, LastWord
<1>2. CASE Start
  <2>1. LastWord("unblock")'
    BY <1>2, ConnectWords DEF Start, Word
  <2> QED
    BY <1>2, <2>1 DEF Start, Connect
<1>3. CASE Ask
  <2>1. Silent'
    BY <1>3, ConnectWords DEF Ask, Word
  <2> QED
    BY <1>3, <2>1 DEF Ask, Connect
<1>4. CASE SendBlock
  <2>1. LastWord("block")' /\ NoLift'
    BY <1>4, ConnectWords DEF SendBlock, Word
  <2> QED
    BY <1>4, <2>1 DEF SendBlock, Connect
<1>5. CASE SendUnblock
  <2>1. LastWord("unblock")'
    BY <1>5, ConnectWords DEF SendUnblock, Word
  <2> QED
    BY <1>5, <2>1 DEF SendUnblock, Connect
<1>6. CASE Told \/ HungUp
  <2>1. \A i \in DOMAIN queue : ~queue[i].live
    BY <1>6 DEF Told, HungUp, Replied, TypeInv, LiveInv, NoLive
  <2>2. \A k : ~LastWord(k)
    BY <2>1 DEF LastWord
  <2>3. UNCHANGED <<blocked, queue, gblocked, crashes>> /\ gpc' = "grab"
    BY <1>6 DEF Told, HungUp, wire
  <2> QED
    BY <1>6, <2>2, <2>3 DEF Told, HungUp, Silent
<1>7. CASE Grab \/ Learn
  BY <1>7 DEF Grab, Learn, wire, Silent
<1>8. CASE Guess
  BY <1>8, AbandonWords DEF Guess
<1>9. CASE Decide
  <2>1. UNCHANGED <<blocked, queue, crashes>> /\ gpc = "decide" /\ gpc' = Verdict
    BY <1>9 DEF Decide, wire
  <2>2. Silent /\ Silent'
    BY <2>1 DEF Silent
  <2>3. /\ Verdict = "block" => ~gblocked /\ gblocked' = TRUE
        /\ Verdict = "unblock" => gblocked /\ gblocked' = FALSE
        /\ Verdict \notin {"block", "unblock"} => Verdict = "grab" /\ gblocked' = gblocked
    BY <1>9 DEF Decide, Verdict
  <2> QED
    BY <2>1, <2>2, <2>3
<1>10. CASE Die
  <2>1. gpc' = "dead" /\ UNCHANGED gblocked
    BY <1>10 DEF Die
  <2>2. gblocked => NoLift
    BY <1>10 DEF Die, Silent, NoLift, Word
  <2> QED
    BY <1>10, <2>1, <2>2, AbandonWords DEF Die
<1>11. CASE Rerun
  BY <1>11 DEF Rerun
<1>12. ASSUME NEW m \in Motion, Command(m) PROVE WordInv'
  BY <1>12, CommandWords DEF Command, guard
<1>13. CASE Serve
  <2>1. UNCHANGED <<gpc, gblocked, crashes>>
    BY <1>13 DEF Serve, guard
  <2> QED
    BY <1>13, <2>1, ServeWords
<1>14. CASE Crash
  <2>1. Silent' /\ NoLift' /\ ~blocked' /\ crashes' # 0 /\ UNCHANGED <<gpc, gblocked>>
    <3>1. crashes' = crashes + 1 /\ queue' = <<>>
      BY <1>14 DEF Crash
    <3>2. crashes \in Nat
      BY DEF TypeInv, GuardTypeOK
    <3> QED
      BY <1>14, <3>1, <3>2 DEF Crash, Fail, guard, Silent, NoLift
  <2> QED
    BY <2>1
<1> QED
  BY <1>1, <1>2, <1>3, <1>4, <1>5, <1>6, <1>7, <1>8, <1>9, <1>10, <1>11, <1>12, <1>13, <1>14
     DEF GuardNext, GuardStep

LEMMA WordInvariance == GuardSpec => [](TypeInv /\ WordInv)
<1>1. TypeInv /\ WordInv /\ [GuardNext]_all => (TypeInv /\ WordInv)'
  BY NextTypes, NextWords
<1> QED
  BY InitTypes, InitWords, <1>1, PTL DEF GuardSpec

\* Whatever was abandoned, and whoever died, between exchanges the bridge is
\* blocked only if the guard believes so, and, while it lives, if it does.
THEOREM GuardAndBridgeAgree == GuardSpec => []Agree
<1>1. TypeInv /\ WordInv => Agree
  BY DEF WordInv
<1> QED
  BY <1>1, WordInvariance, PTL

\* Nothing in the queue lifts the block that a dead guard left.
THEOREM DeadGuardBlocks == GuardSpec => DeathKeepsBlock
<1>1. TypeInv /\ WordInv /\ [GuardNext]_all
        => [gpc = "dead" /\ gblocked /\ blocked =>
              blocked' \/ gpc' # "dead" \/ crashes' # crashes]_all
  <2> SUFFICES ASSUME TypeInv, WordInv, [GuardNext]_all,
                      gpc = "dead", gblocked, blocked, gpc' = "dead", crashes' = crashes
               PROVE  blocked'
    OBVIOUS
  <2>1. NoLift
    BY DEF WordInv
  <2>2. CASE Serve
    BY <2>1, <2>2, ServeWords
  <2>3. CASE Crash
    <3>1. crashes' = crashes + 1 /\ crashes \in Nat
      BY <2>3 DEF Crash, TypeInv, GuardTypeOK
    <3> QED
      BY <3>1
  <2>4. CASE ~Serve /\ ~Crash
    BY <2>4 DEF GuardNext, GuardStep, all, Move, Capture, CamFreezes, CamGoes, CamStarts, Start,
                Told, HungUp, Grab, Ask, Learn, Guess, Decide, SendBlock, SendUnblock, Die,
                Rerun, Command, Expire, Halt, Connect
  <2> QED
    BY <2>2, <2>3, <2>4
<1> QED
  BY <1>1, WordInvariance, PTL DEF GuardSpec, DeathKeepsBlock
=============================================================================
