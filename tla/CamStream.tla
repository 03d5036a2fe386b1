----------------------------- MODULE CamStream ------------------------------
(***************************************************************************)
(* vision/cam_stream.py: one thread cuts the JPEG frames out of what       *)
(* GStreamer writes to a pipe and keeps the latest; one thread for each    *)
(* connection sends it on, to a browser as a stream or to the guard as a   *)
(* snapshot.  The frame and its number are shared under a condition.       *)
(*                                                                         *)
(* Bytes are abstracted to what the cutting tells apart: a frame is FF D8, *)
(* a byte that stands for the picture, FF D9.  A chunk read from the pipe  *)
(* may end anywhere, in the middle of a marker too.                        *)
(***************************************************************************)
EXTENDS Integers, Sequences, FiniteSetsExt

CONSTANTS
  Viewer,     \* connections to /stream
  Asker,      \* connections to /snapshot.jpg
  MaxFrames,  \* bound of the model: frames the camera takes
  PipeSize    \* bytes the pipe holds

ASSUME CamAssumption == /\ Viewer \cap Asker = {}
                        /\ MaxFrames \in Nat
                        /\ PipeSize \in Nat

VARIABLES
  gst,     \* does GStreamer run?
  taken,   \* frames the camera has taken
  pipe,    \* bytes written and not read
  cpc,     \* the capture thread: "read", "split", "dead"
  buf,     \* bytes read and not cut
  latest,  \* the last frame cut, empty for None
  seq,     \* its number
  hpc,     \* a connection: "off", "wait", "write"
  last,    \* the number of the frame it took last
  frame    \* the frame it took last

camera == <<gst, taken>>
capture == <<cpc, buf, latest, seq>>
handlers == <<hpc, last, frame>>
vars == <<camera, pipe, capture, handlers>>

Client == Viewer \cup Asker

FF == 255
SOI == 216
EOI == 217
Picture(n) == <<FF, SOI, n, FF, EOI>>
None == <<>>

-----------------------------------------------------------------------------
Init ==
  /\ gst = TRUE /\ taken = 0
  /\ pipe = <<>>
  /\ cpc = "read" /\ buf = <<>> /\ latest = None /\ seq = 0
  /\ hpc = [c \in Client |-> "off"]
  /\ last = [c \in Client |-> -1]
  /\ frame = [c \in Client |-> None]

(* External: GStreamer takes a picture, or dies with what it had written.  *)

Shoot ==
  /\ gst /\ taken < MaxFrames
  /\ Len(pipe) + Len(Picture(0)) <= PipeSize
  /\ taken' = taken + 1
  /\ pipe' = pipe \o Picture(taken + 1)
  /\ UNCHANGED <<gst, capture, handlers>>

CameraDies ==
  /\ gst
  /\ gst' = FALSE
  /\ \E k \in 0..Len(pipe) : pipe' = SubSeq(pipe, 1, k)
  /\ UNCHANGED <<taken, capture, handlers>>

-----------------------------------------------------------------------------
(* The capture thread.                                                     *)

\* proc.stdout.read: some of what is there.
Read ==
  /\ cpc = "read"
  /\ \E k \in 1..Len(pipe) :
       /\ buf' = buf \o SubSeq(pipe, 1, k)
       /\ pipe' = SubSeq(pipe, k + 1, Len(pipe))
  /\ cpc' = "split"
  /\ UNCHANGED <<camera, latest, seq, handlers>>

\* End of file: SystemExit, which ends this thread and nothing else.
ReadEnd ==
  /\ cpc = "read"
  /\ pipe = <<>> /\ ~gst
  /\ cpc' = "dead"
  /\ UNCHANGED <<camera, pipe, buf, latest, seq, handlers>>

\* bytes.find: the first place of a marker from position i on, 0 for none.
Find(s, mark, i) ==
  LET places == {j \in i..(Len(s) - 1) : s[j] = FF /\ s[j + 1] = mark}
  IN  IF places = {} THEN 0 ELSE Min(places)

\* Bug: what is not a whole frame yet is dropped.
SplitsDropping(b) ==
  LET s == Find(b, SOI, 1)
      e == Find(b, EOI, s + 2)
  IN  IF s = 0 \/ e = 0 THEN <<None, <<>>>>
      ELSE <<SubSeq(b, s, e + 1), SubSeq(b, e + 2, Len(b))>>

\* The first frame of what was read and the rest, or no frame.  A begin that is
\* not there leaves the end to be looked for from the second byte on.
Splits(b) ==
  LET s == Find(b, SOI, 1)
      e == Find(b, EOI, s + 2)
  IN  IF s = 0 \/ e = 0 THEN <<None, b>>
      ELSE <<SubSeq(b, s, e + 1), SubSeq(b, e + 2, Len(b))>>

\* A frame is published under the lock; with none left, back to the pipe.
Split ==
  /\ cpc = "split"
  /\ buf' = Splits(buf)[2]
  /\ IF Splits(buf)[1] = None
       THEN cpc' = "read" /\ UNCHANGED <<latest, seq>>
       ELSE latest' = Splits(buf)[1] /\ seq' = seq + 1 /\ UNCHANGED cpc
  /\ UNCHANGED <<camera, pipe, handlers>>

-----------------------------------------------------------------------------
(* A connection.                                                           *)

Connect(c) ==
  /\ hpc[c] = "off"
  /\ hpc' = [hpc EXCEPT ![c] = "wait"]
  /\ last' = [last EXCEPT ![c] = -1]
  /\ frame' = [frame EXCEPT ![c] = None]
  /\ UNCHANGED <<camera, pipe, capture>>

\* What wait_for waits for: a frame this viewer has not had, or any at all.
Awaited(c) == IF c \in Viewer THEN seq # last[c] ELSE latest # None

\* Bug: the frame that comes next is taken for one the connection has had.
TakeAhead(c) ==
  /\ hpc[c] = "wait"
  /\ frame' = [frame EXCEPT ![c] = latest]
  /\ last' = [last EXCEPT ![c] = seq + 1]
  /\ hpc' = [hpc EXCEPT ![c] = "write"]
  /\ UNCHANGED <<camera, pipe, capture>>

\* The latest frame and its number, under the lock.
Take(c) ==
  /\ hpc[c] = "wait"
  /\ frame' = [frame EXCEPT ![c] = latest]
  /\ last' = [last EXCEPT ![c] = seq]
  /\ hpc' = [hpc EXCEPT ![c] = "write"]
  /\ UNCHANGED <<camera, pipe, capture>>

Woken(c) == Awaited(c) /\ Take(c)

\* wait_for gives up after five seconds, and its result is not looked at.
GivesUp(c) == ~Awaited(c) /\ Take(c)

\* Bug: the viewer is sent its frame over and over.
WriteForever(c) ==
  /\ hpc[c] = "write"
  /\ frame[c] # None
  /\ hpc' = [hpc EXCEPT ![c] = IF c \in Viewer THEN "write" ELSE "off"]
  /\ UNCHANGED <<camera, pipe, capture, last, frame>>

\* The frame is sent; a viewer comes back for the next.
Write(c) ==
  /\ hpc[c] = "write"
  /\ frame[c] # None
  /\ hpc' = [hpc EXCEPT ![c] = IF c \in Viewer THEN "wait" ELSE "off"]
  /\ UNCHANGED <<camera, pipe, capture, last, frame>>

\* There is no frame yet, len(None) raises and the connection is closed.
WriteNone(c) ==
  /\ hpc[c] = "write"
  /\ frame[c] = None
  /\ hpc' = [hpc EXCEPT ![c] = "off"]
  /\ UNCHANGED <<camera, pipe, capture, last, frame>>

\* The browser has gone.
Gone(c) ==
  /\ hpc[c] = "write"
  /\ hpc' = [hpc EXCEPT ![c] = "off"]
  /\ UNCHANGED <<camera, pipe, capture, last, frame>>

Capture == Read \/ ReadEnd \/ Split
Handle(c) == Woken(c) \/ GivesUp(c) \/ Write(c) \/ WriteNone(c)

Next ==
  \/ Shoot
  \/ CameraDies
  \/ Capture
  \/ \E c \in Client : Connect(c) \/ Handle(c) \/ Gone(c)

\* The threads run on; a connection takes what it is sent, and a timed
\* wait ends.  The camera need not deliver.
Spec == /\ Init /\ [][Next]_vars
        /\ WF_vars(Capture)
        /\ \A c \in Client : WF_vars(Handle(c))

-----------------------------------------------------------------------------
(* Properties.                                                             *)

\* However the bytes are cut into chunks, the frame that is held is the seq-th
\* the camera took, whole (cam_stream.py:45-55).
LatestIsWhole == latest = IF seq = 0 THEN None ELSE Picture(seq)

\* What a connection sends goes by the number it holds: no frame is passed for
\* another (cam_stream.py:89, the docstring's line 7).
NumberAndFrameAgree ==
  \A c \in Client : last[c] > 0 => frame[c] = Picture(last[c])

\* A frame the camera has taken is published, and a viewer that stays gets it
\* or a later one (cam_stream.py:55, 88).
Reaches(n, c) == hpc[c] = "off" \/ last[c] >= n
ViewersKeepUp ==
  \A c \in Viewer, n \in 1..MaxFrames : seq >= n ~> Reaches(n, c)

=============================================================================
