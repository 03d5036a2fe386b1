--------------------------- MODULE ServicesProofs ---------------------------
(***************************************************************************)
(* Theorems about the two services the robot's programs rely on: the       *)
(* camera's pictures, for every number of pictures and connections, every  *)
(* size of the pipe and every way the bytes are cut into chunks; and the   *)
(* clock of the GPU, for every set of frequencies.                         *)
(***************************************************************************)
EXTENDS CamStream, LlamaServer, SequenceTheorems, TLAPS

-----------------------------------------------------------------------------
(* The pictures.  What is in the buffer and the pipe together are the      *)
(* bytes of the pictures after the seq-th, one after the other.            *)

InOrder(s, n) ==
  \A i \in 1..Len(s) : \A k \in Nat, r \in 1..5 : i = 5 * k + r => s[i] = Picture(n + 1 + k)[r]

CamTypes ==
  /\ gst \in BOOLEAN /\ taken \in Nat /\ seq \in Nat
  /\ pipe \in Seq(Nat) /\ buf \in Seq(Nat)
  /\ last \in [Client -> Int]
  /\ DOMAIN frame = Client

Pending == buf \o pipe

InPipe ==
  /\ InOrder(Pending, seq)
  /\ gst => Len(buf) + Len(pipe) = 5 * (taken - seq)

CamInv == CamTypes /\ InPipe /\ LatestIsWhole /\ NumberAndFrameAgree

\* The bytes of a picture.
LEMMA Bytes ==
  ASSUME NEW n \in Nat
  PROVE  /\ Picture(n) \in Seq(Nat) /\ Len(Picture(n)) = 5
         /\ Picture(n)[1] = FF /\ Picture(n)[2] = SOI /\ Picture(n)[4] = FF /\ Picture(n)[5] = EOI
         /\ Picture(n) # None
  BY DEF Picture, FF, SOI, EOI, None

\* Two sequences, one after the other.
LEMMA Joined ==
  ASSUME NEW s \in Seq(Nat), NEW t \in Seq(Nat)
  PROVE  /\ s \o t \in Seq(Nat) /\ Len(s \o t) = Len(s) + Len(t)
         /\ Len(s) \in Nat /\ Len(t) \in Nat
         /\ \A i \in 1..Len(s) : (s \o t)[i] = s[i]
         /\ \A i \in 1..Len(t) : (s \o t)[Len(s) + i] = t[i]
         /\ \A i \in 1..(Len(s) + Len(t)) : i > Len(s) => (s \o t)[i] = t[i - Len(s)]
  OBVIOUS

\* The first of a set of numbers.
LEMMA First ==
  ASSUME NEW S \in SUBSET Int, NEW m \in S, \A k \in S : m <= k
  PROVE  Min(S) = m
<1>1. Min(S) \in S /\ \A k \in S : Min(S) <= k
  BY DEF Min
<1> DEFINE x == Min(S)
<1>2. x \in Int /\ m \in Int /\ x <= m /\ m <= x
  BY <1>1
<1> HIDE DEF x
<1>3. x = m
  BY <1>2
<1> QED
  BY <1>3 DEF x

\* A picture is cut from bytes that begin with it, as soon as it is whole.
LEMMA Cut ==
  ASSUME NEW b \in Seq(Nat), NEW n \in Nat, InOrder(b, n)
  PROVE  /\ Len(b) < 5 => Splits(b) = <<None, b>>
         /\ Len(b) >= 5 => /\ Splits(b)[1] = Picture(n + 1)
                           /\ Splits(b)[2] = SubSeq(b, 6, Len(b))
<1>1. Len(b) \in Nat
  OBVIOUS
<1>2. \A i \in 1..Len(b) : i <= 5 => b[i] = Picture(n + 1)[i]
  <2>1. SUFFICES ASSUME NEW i \in 1..Len(b), i <= 5 PROVE b[i] = Picture(n + 1)[i]
    OBVIOUS
  <2>2. i \in 1..5 /\ i = 5 * 0 + i /\ 0 \in Nat /\ n + 1 + 0 = n + 1
    BY <2>1
  <2>3. b[i] = Picture(n + 1 + 0)[i]
    BY <2>2 DEF InOrder
  <2> QED
    BY <2>2, <2>3
<1>3. /\ Picture(n + 1)[1] = FF /\ Picture(n + 1)[2] = SOI /\ Picture(n + 1)[4] = FF /\ Picture(n + 1)[5] = EOI
  <2>1. n + 1 \in Nat
    OBVIOUS
  <2> QED
    BY <2>1, Bytes
<1>4. ASSUME Len(b) >= 2 PROVE Find(b, SOI, 1) = 1
  <2> DEFINE S == {j \in 1..(Len(b) - 1) : b[j] = FF /\ b[j + 1] = SOI}
  <2>1. 1 \in S
    BY <1>1, <1>2, <1>3, <1>4
  <2>2. S \in SUBSET Int /\ \A k \in S : 1 <= k
    OBVIOUS
  <2> HIDE DEF S
  <2>3. Min(S) = 1 /\ S # {}
    BY <2>1, <2>2, First
  <2> QED
    BY <2>3 DEF Find, S
<1>5. ASSUME Len(b) < 2 PROVE Find(b, SOI, 1) = 0
  BY <1>1, <1>5 DEF Find
<1>6. ASSUME Len(b) >= 2, Len(b) < 5 PROVE Find(b, EOI, 3) = 0
  <2>1. ASSUME NEW j \in 3..(Len(b) - 1), b[j] = FF, b[j + 1] = EOI PROVE FALSE
    <3> DEFINE l == Len(b)
    <3>0. l \in Nat /\ l < 5 /\ j \in 3..(l - 1)
      BY <1>1, <1>6
    <3> HIDE DEF l
    <3>9. j = 3 /\ l = 4
      BY <3>0
    <3>1. j = 3 /\ Len(b) = 4
      BY <3>9 DEF l
    <3>2. b[4] = FF
      BY <1>2, <1>3, <3>1
    <3> QED
      BY <2>1, <3>1, <3>2 DEF FF, EOI
  <2> QED
    BY <2>1 DEF Find
<1>7. ASSUME Len(b) >= 5 PROVE Find(b, EOI, 3) = 4
  <2> DEFINE S == {j \in 3..(Len(b) - 1) : b[j] = FF /\ b[j + 1] = EOI}
  <2>1. 4 \in S
    <3>1. 4 \in 1..Len(b) /\ 5 \in 1..Len(b) /\ 4 \in 3..(Len(b) - 1) /\ 4 + 1 = 5
      BY <1>1, <1>7
    <3>2. b[4] = FF /\ b[4 + 1] = EOI
      BY <1>2, <1>3, <3>1
    <3> QED
      BY <3>1, <3>2
  <2>2. 3 \notin S
    BY <1>1, <1>2, <1>3, <1>7 DEF FF, EOI
  <2>3. S \in SUBSET Int /\ \A k \in S : 3 <= k
    OBVIOUS
  <2>4. \A k \in S : 4 <= k
    BY <2>2, <2>3
  <2> HIDE DEF S
  <2>5. Min(S) = 4 /\ S # {}
    BY <2>1, <2>3, <2>4, First
  <2> QED
    BY <2>5 DEF Find, S
<1>8. ASSUME Len(b) < 5 PROVE Splits(b) = <<None, b>>
  <2>1. CASE Len(b) < 2
    BY <1>5, <2>1 DEF Splits
  <2>2. CASE Len(b) >= 2
    <3>1. Find(b, SOI, 1) = 1 /\ Find(b, EOI, 1 + 2) = 0
      BY <1>4, <1>6, <1>8, <2>2
    <3> QED
      BY <3>1 DEF Splits
  <2> QED
    BY <1>1, <2>1, <2>2
<1>9. ASSUME Len(b) >= 5
      PROVE  Splits(b)[1] = Picture(n + 1) /\ Splits(b)[2] = SubSeq(b, 6, Len(b))
  <2>1. Find(b, SOI, 1) = 1 /\ Find(b, EOI, 1 + 2) = 4
    BY <1>1, <1>4, <1>7, <1>9
  <2>2. Splits(b) = <<SubSeq(b, 1, 5), SubSeq(b, 6, Len(b))>>
    <3> DEFINE s == Find(b, SOI, 1)
               e == Find(b, EOI, s + 2)
    <3>1. Splits(b) = IF s = 0 \/ e = 0 THEN <<None, b>>
                      ELSE <<SubSeq(b, s, e + 1), SubSeq(b, e + 2, Len(b))>>
      BY DEF Splits
    <3>2. s = 1 /\ e = 4
      BY <2>1
    <3> HIDE DEF s, e
    <3> QED
      BY <3>1, <3>2
  <2>3. SubSeq(b, 1, 5) = Picture(n + 1)
    <3>1. SubSeq(b, 1, 5) \in Seq(Nat) /\ Len(SubSeq(b, 1, 5)) = 5
          /\ \A i \in 1..5 : SubSeq(b, 1, 5)[i] = b[i]
      BY <1>1, <1>9
    <3>2. Picture(n + 1) \in Seq(Nat) /\ Len(Picture(n + 1)) = 5
      <4>1. n + 1 \in Nat
        OBVIOUS
      <4> QED
        BY <4>1, Bytes
    <3>3. \A i \in 1..5 : SubSeq(b, 1, 5)[i] = Picture(n + 1)[i]
      <4>1. \A i \in 1..5 : i \in 1..Len(b) /\ i <= 5
        BY <1>1, <1>9
      <4> QED
        BY <1>2, <3>1, <4>1
    <3> QED
      BY <3>1, <3>2, <3>3
  <2> QED
    BY <2>2, <2>3
<1> QED
  BY <1>8, <1>9
\* The two parts of a sequence.
LEMMA Parts ==
  ASSUME NEW s \in Seq(Nat), NEW n \in 0..Len(s)
  PROVE  /\ SubSeq(s, 1, n) \in Seq(Nat) /\ Len(SubSeq(s, 1, n)) = n
         /\ \A i \in 1..n : SubSeq(s, 1, n)[i] = s[i]
         /\ SubSeq(s, n + 1, Len(s)) \in Seq(Nat) /\ Len(SubSeq(s, n + 1, Len(s))) = Len(s) - n
         /\ \A i \in 1..(Len(s) - n) : SubSeq(s, n + 1, Len(s))[i] = s[n + i]
         /\ SubSeq(s, 1, n) \o SubSeq(s, n + 1, Len(s)) = s
<1> DEFINE l == Len(s)
<1>1. l \in Nat /\ \A i \in 1..l : s[i] \in Nat
  OBVIOUS
<1>2. n \in Nat /\ n <= l
  BY <1>1
<1> HIDE DEF l
<1>3. SubSeq(s, 1, n) \in Seq(Nat) /\ Len(SubSeq(s, 1, n)) = n /\ \A i \in 1..n : SubSeq(s, 1, n)[i] = s[i]
  <2>1. \A i \in 1..n : s[i] \in Nat
    BY <1>1, <1>2
  <2>2. /\ SubSeq(s, 1, n) \in Seq(Nat) /\ Len(SubSeq(s, 1, n)) = IF 1 <= n THEN n - 1 + 1 ELSE 0
        /\ \A i \in 1..(n - 1 + 1) : SubSeq(s, 1, n)[i] = s[1 + i - 1]
    BY <1>2, <2>1, SubSeqProperties
  <2>3. n - 1 + 1 = n /\ (IF 1 <= n THEN n - 1 + 1 ELSE 0) = n /\ \A i \in 1..n : 1 + i - 1 = i
    BY <1>2
  <2> QED
    BY <2>2, <2>3
<1>4. /\ SubSeq(s, n + 1, l) \in Seq(Nat) /\ Len(SubSeq(s, n + 1, l)) = l - n
      /\ \A i \in 1..(l - n) : SubSeq(s, n + 1, l)[i] = s[n + i]
  <2>1. \A i \in (n + 1)..l : s[i] \in Nat
    BY <1>1, <1>2
  <2>2. n + 1 \in Int /\ l \in Int
    BY <1>1, <1>2
  <2>3. /\ SubSeq(s, n + 1, l) \in Seq(Nat)
        /\ Len(SubSeq(s, n + 1, l)) = IF n + 1 <= l THEN l - (n + 1) + 1 ELSE 0
        /\ \A i \in 1..(l - (n + 1) + 1) : SubSeq(s, n + 1, l)[i] = s[(n + 1) + i - 1]
    BY <2>1, <2>2, SubSeqProperties
  <2>4. /\ l - (n + 1) + 1 = l - n /\ (IF n + 1 <= l THEN l - (n + 1) + 1 ELSE 0) = l - n
        /\ \A i \in 1..(l - n) : (n + 1) + i - 1 = n + i
    BY <1>1, <1>2
  <2> QED
    BY <2>3, <2>4
<1>5. SubSeq(s, 1, n) \o SubSeq(s, n + 1, l) = s
  <2>1. 1 \in 1..(Len(s) + 1) /\ n \in (1 - 1)..Len(s) /\ Len(s) \in n..Len(s)
    BY <1>1, <1>2 DEF l
  <2>2. SubSeq(s, 1, n) \o SubSeq(s, n + 1, Len(s)) = SubSeq(s, 1, Len(s))
    BY <2>1, ConcatAdjacentSubSeq
  <2> QED
    BY <2>2, SubSeqFull DEF l
<1> QED
  BY <1>3, <1>4, <1>5 DEF l

LEMMA Assoc ==
  ASSUME NEW s \in Seq(Nat), NEW t \in Seq(Nat), NEW p \in Seq(Nat)
  PROVE  (s \o t) \o p = s \o (t \o p)
  BY ConcatAssociative

\* What is added at the end, left off at the end, moved, or dropped at the front.
LEMMA Added ==
  ASSUME NEW s \in Seq(Nat), NEW t \in Seq(Nat), NEW p \in Seq(Nat)
  PROVE  /\ t \o p \in Seq(Nat) /\ Len(t \o p) = Len(t) + Len(p)
         /\ Len(s \o (t \o p)) = Len(s \o t) + Len(p)
         /\ \A i \in 1..Len(s \o t) : (s \o (t \o p))[i] = (s \o t)[i]
         /\ \A i \in 1..Len(p) : (s \o (t \o p))[Len(s \o t) + i] = p[i]
<1>1. s \o t \in Seq(Nat) /\ t \o p \in Seq(Nat) /\ Len(t \o p) = Len(t) + Len(p)
  BY Joined
<1>2. s \o (t \o p) = (s \o t) \o p
  BY Assoc
<1> QED
  BY <1>1, <1>2, Joined

LEMMA LeftOff ==
  ASSUME NEW s \in Seq(Nat), NEW t \in Seq(Nat), NEW n \in 0..Len(t)
  PROVE  /\ SubSeq(t, 1, n) \in Seq(Nat)
         /\ Len(s \o SubSeq(t, 1, n)) <= Len(s \o t)
         /\ \A i \in 1..Len(s \o SubSeq(t, 1, n)) : (s \o SubSeq(t, 1, n))[i] = (s \o t)[i]
<1> DEFINE a == SubSeq(t, 1, n)
           c == SubSeq(t, n + 1, Len(t))
<1>1. a \in Seq(Nat) /\ c \in Seq(Nat) /\ t = a \o c
  BY Parts
<1> HIDE DEF a, c
<1>2. s \o t = (s \o a) \o c /\ s \o a \in Seq(Nat)
  <2>0. a \in Seq(Nat) /\ c \in Seq(Nat)
    BY <1>1
  <2>1. (s \o a) \o c = s \o (a \o c)
    BY <2>0, Assoc
  <2>2. s \o a \in Seq(Nat)
    BY <1>1, Joined
  <2> QED
    BY <1>1, <2>1, <2>2
<1>3. Len(s \o t) = Len(s \o a) + Len(c) /\ Len(c) \in Nat /\ Len(s \o a) \in Nat
      /\ \A i \in 1..Len(s \o a) : (s \o t)[i] = (s \o a)[i]
  BY <1>1, <1>2, Joined
<1> QED
  BY <1>1, <1>3 DEF a

LEMMA Moved ==
  ASSUME NEW s \in Seq(Nat), NEW t \in Seq(Nat), NEW n \in 1..Len(t)
  PROVE  /\ s \o SubSeq(t, 1, n) \in Seq(Nat) /\ Len(s \o SubSeq(t, 1, n)) = Len(s) + n
         /\ SubSeq(t, n + 1, Len(t)) \in Seq(Nat) /\ Len(SubSeq(t, n + 1, Len(t))) = Len(t) - n
         /\ (s \o SubSeq(t, 1, n)) \o SubSeq(t, n + 1, Len(t)) = s \o t
<1> DEFINE a == SubSeq(t, 1, n)
           c == SubSeq(t, n + 1, Len(t))
<1>1. /\ a \in Seq(Nat) /\ Len(a) = n /\ c \in Seq(Nat) /\ Len(c) = Len(t) - n /\ a \o c = t
  BY Parts
<1> HIDE DEF a, c
<1>2. s \o a \in Seq(Nat) /\ Len(s \o a) = Len(s) + n
  BY <1>1, Joined
<1>3. (s \o a) \o c = s \o t
  <2>0. a \in Seq(Nat) /\ c \in Seq(Nat)
    BY <1>1
  <2>1. (s \o a) \o c = s \o (a \o c)
    BY <2>0, Assoc
  <2> QED
    BY <1>1, <2>1
<1> QED
  BY <1>1, <1>2, <1>3 DEF a, c

LEMMA Dropped ==
  ASSUME NEW s \in Seq(Nat), NEW t \in Seq(Nat), Len(s) >= 5
  PROVE  /\ SubSeq(s, 6, Len(s)) \in Seq(Nat) /\ Len(SubSeq(s, 6, Len(s))) = Len(s) - 5
         /\ Len(s \o t) = Len(SubSeq(s, 6, Len(s)) \o t) + 5
         /\ \A i \in 1..Len(SubSeq(s, 6, Len(s)) \o t) :
              i + 5 \in 1..Len(s \o t) /\ (SubSeq(s, 6, Len(s)) \o t)[i] = (s \o t)[i + 5]
<1> DEFINE h == SubSeq(s, 1, 5)
           a == SubSeq(s, 6, Len(s))
<1>1. h \in Seq(Nat) /\ Len(h) = 5 /\ a \in Seq(Nat) /\ Len(a) = Len(s) - 5 /\ s = h \o a
  <2> DEFINE n == 5
  <2>1. n \in 0..Len(s)
    OBVIOUS
  <2> HIDE DEF n
  <2>2. /\ SubSeq(s, 1, n) \in Seq(Nat) /\ Len(SubSeq(s, 1, n)) = n
        /\ SubSeq(s, n + 1, Len(s)) \in Seq(Nat) /\ Len(SubSeq(s, n + 1, Len(s))) = Len(s) - n
        /\ SubSeq(s, 1, n) \o SubSeq(s, n + 1, Len(s)) = s
    BY <2>1, Parts
  <2>3. n = 5 /\ n + 1 = 6
    BY DEF n
  <2> QED
    BY <2>2, <2>3
<1> HIDE DEF h, a
<1>2. s \o t = h \o (a \o t) /\ a \o t \in Seq(Nat)
  <2>0. h \in Seq(Nat) /\ a \in Seq(Nat)
    BY <1>1
  <2>1. (h \o a) \o t = h \o (a \o t)
    BY <2>0, Assoc
  <2>2. a \o t \in Seq(Nat)
    BY <1>1, Joined
  <2> QED
    BY <1>1, <2>1, <2>2
<1>3. Len(s \o t) = 5 + Len(a \o t) /\ Len(a \o t) \in Nat
      /\ \A i \in 1..Len(a \o t) : (s \o t)[5 + i] = (a \o t)[i]
  <2> DEFINE b == a \o t
  <2>1. /\ b \in Seq(Nat) /\ s \o t = h \o b
    BY <1>2
  <2> HIDE DEF b
  <2>2. /\ Len(h \o b) = Len(h) + Len(b) /\ Len(b) \in Nat
        /\ \A i \in 1..Len(b) : (h \o b)[Len(h) + i] = b[i]
    BY <1>1, <2>1, Joined
  <2> QED
    BY <1>1, <2>1, <2>2 DEF b
<1>4. \A i \in 1..Len(a \o t) : i + 5 \in 1..Len(s \o t) /\ i + 5 = 5 + i
  BY <1>3
<1>5. Len(s \o t) = Len(a \o t) + 5
  BY <1>3
<1> QED
  BY <1>1, <1>3, <1>4, <1>5 DEF a

\* What the camera and the capture thread do to the bytes.
LEMMA ShootInPipe ==
  ASSUME CamInv, Shoot
  PROVE  pipe' \in Seq(Nat) /\ InPipe'
<1>1. /\ gst /\ taken \in Nat /\ seq \in Nat /\ pipe \in Seq(Nat) /\ buf \in Seq(Nat)
      /\ taken' = taken + 1 /\ pipe' = pipe \o Picture(taken + 1)
      /\ UNCHANGED <<gst, buf, seq>>
  BY DEF CamInv, CamTypes, Shoot, capture
<1> DEFINE p == Picture(taken + 1)
           l == Len(Pending)
<1>2. p \in Seq(Nat) /\ Len(p) = 5
  <2>1. taken + 1 \in Nat
    BY <1>1
  <2> QED
    BY <2>1, Bytes
<1>3. l = Len(buf) + Len(pipe) /\ l \in Nat /\ l = 5 * (taken - seq)
  BY <1>1, Joined DEF CamInv, InPipe, Pending
<1>4. /\ pipe' \in Seq(Nat) /\ Len(pipe') = Len(pipe) + 5
      /\ Len(Pending') = l + 5
      /\ \A i \in 1..l : Pending'[i] = Pending[i]
      /\ \A i \in 1..5 : Pending'[l + i] = p[i]
  <2>1. pipe' = pipe \o p /\ Pending' = buf \o (pipe \o p) /\ Pending = buf \o pipe
    BY <1>1 DEF Pending
  <2> HIDE DEF p
  <2>2. /\ pipe \o p \in Seq(Nat) /\ Len(pipe \o p) = Len(pipe) + 5
        /\ Len(buf \o (pipe \o p)) = Len(buf \o pipe) + 5
        /\ \A i \in 1..Len(buf \o pipe) : (buf \o (pipe \o p))[i] = (buf \o pipe)[i]
        /\ \A i \in 1..5 : (buf \o (pipe \o p))[Len(buf \o pipe) + i] = p[i]
    <3>1. /\ pipe \o p \in Seq(Nat) /\ Len(pipe \o p) = Len(pipe) + Len(p)
          /\ Len(buf \o (pipe \o p)) = Len(buf \o pipe) + Len(p)
          /\ \A i \in 1..Len(buf \o pipe) : (buf \o (pipe \o p))[i] = (buf \o pipe)[i]
          /\ \A i \in 1..Len(p) : (buf \o (pipe \o p))[Len(buf \o pipe) + i] = p[i]
      BY <1>1, <1>2, Added
    <3> QED
      BY <1>2, <3>1
  <2> QED
    BY <2>1, <2>2
<1>7. InOrder(Pending', seq')
  <2> SUFFICES ASSUME NEW i \in 1..(l + 5), NEW k \in Nat, NEW r \in 1..5, i = 5 * k + r
               PROVE  Pending'[i] = Picture(seq + 1 + k)[r]
    BY <1>1, <1>4 DEF InOrder
  <2>1. CASE i <= l
    <3>1. i \in 1..l
      BY <1>3, <2>1
    <3>2. Pending[i] = Picture(seq + 1 + k)[r]
      BY <3>1 DEF CamInv, InPipe, InOrder
    <3> QED
      BY <1>4, <3>1, <3>2
  <2>2. CASE i > l
    <3> HIDE DEF l, p
    <3>1. k = taken - seq /\ i = l + r
      <4> DEFINE d == taken - seq
      <4>0. taken \in Nat /\ seq \in Nat /\ l = 5 * (taken - seq)
        BY <1>1, <1>3
      <4>1. d \in Int /\ l = 5 * d
        BY <4>0
      <4> HIDE DEF d
      <4>2. 5 * k + r > 5 * d /\ 5 * k + r <= 5 * d + 5
        BY <1>3, <2>2, <4>1
      <4>3. k < d + 1 /\ k > d - 1
        BY <4>1, <4>2
      <4>4. k = d
        BY <4>1, <4>3
      <4> QED
        BY <4>1, <4>4 DEF d
    <3>2. seq + 1 + k = taken + 1
      BY <1>1, <3>1
    <3> QED
      BY <1>4, <3>1, <3>2 DEF p
  <2> QED
    BY <1>3, <2>1, <2>2
<1>8. Len(buf') + Len(pipe') = 5 * (taken' - seq')
  <2> DEFINE a == Len(buf)
             c == Len(pipe)
             d == Len(pipe')
  <2>1. a \in Nat /\ c \in Nat /\ d = c + 5 /\ a + c = 5 * (taken - seq)
    <3>1. Len(buf) \in Nat /\ Len(pipe) \in Nat
      BY <1>1
    <3> QED
      BY <1>3, <1>4, <3>1
  <2> HIDE DEF a, c, d
  <2>2. a + d = 5 * (taken + 1 - seq)
    BY <1>1, <2>1
  <2> QED
    BY <1>1, <2>2 DEF a, d
<1> QED
  BY <1>4, <1>7, <1>8 DEF InPipe

\* A camera that dies leaves the first bytes of what it had written.
LEMMA DiesInPipe ==
  ASSUME CamInv, CameraDies
  PROVE  pipe' \in Seq(Nat) /\ InPipe'
<1>1. /\ pipe \in Seq(Nat) /\ buf \in Seq(Nat) /\ seq \in Nat
      /\ ~gst' /\ UNCHANGED <<buf, seq>>
  BY DEF CamInv, CamTypes, CameraDies, capture
<1>2. PICK n \in 0..Len(pipe) : pipe' = SubSeq(pipe, 1, n)
  BY DEF CameraDies
<1>3. Pending' = buf \o SubSeq(pipe, 1, n)
  BY <1>1, <1>2 DEF Pending
<1>4. /\ pipe' \in Seq(Nat) /\ Len(Pending') <= Len(Pending)
      /\ \A i \in 1..Len(Pending') : Pending'[i] = Pending[i]
  BY <1>1, <1>2, <1>3, LeftOff DEF Pending
<1>5. Len(Pending') \in Nat /\ Len(Pending) \in Nat
  BY <1>1, <1>4, Joined DEF Pending
<1>6. \A i \in 1..Len(Pending') : i \in 1..Len(Pending)
  BY <1>4, <1>5
<1>7. InOrder(Pending', seq')
  BY <1>1, <1>4, <1>6 DEF InOrder, CamInv, InPipe
<1> QED
  BY <1>1, <1>4, <1>7 DEF InPipe

\* Reading moves bytes from the pipe to the buffer.
LEMMA ReadInPipe ==
  ASSUME CamInv, Read
  PROVE  pipe' \in Seq(Nat) /\ buf' \in Seq(Nat) /\ InPipe'
<1>1. /\ pipe \in Seq(Nat) /\ buf \in Seq(Nat) /\ seq \in Nat
      /\ UNCHANGED <<gst, taken, seq>>
  BY DEF CamInv, CamTypes, Read, camera
<1>2. PICK n \in 1..Len(pipe) : buf' = buf \o SubSeq(pipe, 1, n) /\ pipe' = SubSeq(pipe, n + 1, Len(pipe))
  BY DEF Read
<1>3. /\ buf' \in Seq(Nat) /\ Len(buf') = Len(buf) + n /\ pipe' \in Seq(Nat) /\ Len(pipe') = Len(pipe) - n
      /\ Pending' = Pending
  BY <1>1, <1>2, Moved DEF Pending
<1>4. Len(buf') + Len(pipe') = Len(buf) + Len(pipe)
  <2> DEFINE a == Len(buf)
             c == Len(pipe)
  <2>1. a \in Nat /\ c \in Nat
    BY <1>1
  <2> HIDE DEF a, c
  <2>2. (a + n) + (c - n) = a + c
    BY <2>1
  <2> QED
    BY <1>3, <2>2 DEF a, c
<1> QED
  BY <1>1, <1>3, <1>4 DEF InPipe, CamInv

\* What is cut is the next picture, and what is left begins with the one after.
LEMMA SplitInPipe ==
  ASSUME CamInv, Split
  PROVE  buf' \in Seq(Nat) /\ seq' \in Nat /\ InPipe' /\ LatestIsWhole'
<1>1. /\ pipe \in Seq(Nat) /\ buf \in Seq(Nat) /\ seq \in Nat /\ taken \in Nat
      /\ UNCHANGED <<gst, taken, pipe>> /\ buf' = Splits(buf)[2]
  BY DEF CamInv, CamTypes, Split, camera
<1>2. InOrder(buf, seq)
  <2>1. /\ \A i \in 1..Len(buf) : i \in 1..Len(Pending) /\ Pending[i] = buf[i]
    <3>1. Len(Pending) = Len(buf) + Len(pipe) /\ Len(buf) \in Nat /\ Len(pipe) \in Nat
      BY <1>1, Joined DEF Pending
    <3>2. \A i \in 1..Len(buf) : i \in 1..Len(Pending)
      BY <3>1
    <3> QED
      BY <1>1, <3>2, Joined DEF Pending
  <2> QED
    BY <2>1 DEF CamInv, InPipe, InOrder
<1>3. CASE Len(buf) < 5
  <2>1. Splits(buf) = <<None, buf>>
    BY <1>1, <1>2, <1>3, Cut
  <2>2. UNCHANGED <<buf, latest, seq>>
    BY <1>1, <2>1 DEF Split
  <2> QED
    BY <1>1, <2>2 DEF CamInv, InPipe, Pending, LatestIsWhole
<1>4. CASE Len(buf) >= 5
  <2>1. Splits(buf)[1] = Picture(seq + 1) /\ buf' = SubSeq(buf, 6, Len(buf)) /\ Picture(seq + 1) # None
    <3>1. seq + 1 \in Nat
      BY <1>1
    <3> QED
      BY <1>1, <1>2, <1>4, <3>1, Cut, Bytes
  <2>2. latest' = Picture(seq + 1) /\ seq' = seq + 1
    BY <2>1 DEF Split
  <2>3. /\ buf' \in Seq(Nat) /\ Len(buf') = Len(buf) - 5
        /\ Len(Pending) = Len(Pending') + 5
        /\ \A i \in 1..Len(Pending') : i + 5 \in 1..Len(Pending) /\ Pending'[i] = Pending[i + 5]
    <3>1. Pending' = SubSeq(buf, 6, Len(buf)) \o pipe /\ Pending = buf \o pipe
      BY <1>1, <2>1 DEF Pending
    <3> DEFINE a == SubSeq(buf, 6, Len(buf))
    <3>2. /\ a \in Seq(Nat) /\ Len(a) = Len(buf) - 5
          /\ Len(buf \o pipe) = Len(a \o pipe) + 5
          /\ \A i \in 1..Len(a \o pipe) :
               i + 5 \in 1..Len(buf \o pipe) /\ (a \o pipe)[i] = (buf \o pipe)[i + 5]
      BY <1>1, <1>4, Dropped
    <3> HIDE DEF a
    <3>3. buf' = a /\ Pending' = a \o pipe
      BY <2>1, <3>1 DEF a
    <3> QED
      BY <3>1, <3>2, <3>3
  <2>4. InOrder(Pending', seq')
    <3> SUFFICES ASSUME NEW i \in 1..Len(Pending'), NEW k \in Nat, NEW r \in 1..5, i = 5 * k + r
                 PROVE  Pending'[i] = Picture(seq + 1 + 1 + k)[r]
      BY <2>2 DEF InOrder
    <3>1. k + 1 \in Nat /\ i + 5 = 5 * (k + 1) + r /\ seq + 1 + (k + 1) = seq + 1 + 1 + k
      BY <1>1
    <3>2. Pending[i + 5] = Picture(seq + 1 + (k + 1))[r]
      BY <2>3, <3>1 DEF CamInv, InPipe, InOrder
    <3> QED
      BY <2>3, <3>1, <3>2
  <2>5. gst' => Len(buf') + Len(pipe') = 5 * (taken' - seq')
    <3> DEFINE a == Len(buf)
               c == Len(pipe)
    <3>1. a \in Nat /\ c \in Nat /\ (gst => a + c = 5 * (taken - seq))
      BY <1>1 DEF CamInv, InPipe
    <3> HIDE DEF a, c
    <3>2. gst => (a - 5) + c = 5 * (taken - (seq + 1))
      BY <1>1, <3>1
    <3> QED
      BY <1>1, <2>2, <2>3, <3>2 DEF a, c
  <2>6. seq' # 0 /\ seq' \in Nat
    BY <1>1, <2>2
  <2> QED
    BY <2>2, <2>3, <2>4, <2>5, <2>6 DEF InPipe, LatestIsWhole
<1>5. Len(buf) \in Nat
  BY <1>1
<1> QED
  BY <1>3, <1>4, <1>5

\* A step that leaves the bytes and the frame that is held alone.
LEMMA Unmoved ==
  ASSUME CamInv, UNCHANGED <<camera, pipe, buf, latest, seq>>
  PROVE  /\ gst' \in BOOLEAN /\ taken' \in Nat /\ seq' \in Nat /\ pipe' \in Seq(Nat) /\ buf' \in Seq(Nat)
         /\ InPipe' /\ LatestIsWhole'
<1>1. gst' = gst /\ taken' = taken /\ pipe' = pipe /\ buf' = buf /\ latest' = latest /\ seq' = seq
  BY DEF camera
<1>2. Pending' = Pending
  BY <1>1 DEF Pending
<1>3. InOrder(Pending', seq')
  BY <1>1, <1>2 DEF CamInv, InPipe
<1> QED
  BY <1>1, <1>3 DEF CamInv, CamTypes, InPipe, LatestIsWhole

\* A connection takes the frame that is held with its number, and never the one
\* without the other.
LEMMA HandlerAgrees ==
  ASSUME CamInv, NEW c \in Client, Connect(c) \/ Handle(c) \/ Gone(c)
  PROVE  /\ last' \in [Client -> Int] /\ DOMAIN frame' = Client
         /\ NumberAndFrameAgree'
<1>1. /\ last \in [Client -> Int] /\ DOMAIN frame = Client /\ seq \in Nat
      /\ NumberAndFrameAgree /\ LatestIsWhole
  BY DEF CamInv, CamTypes
<1>2. CASE Connect(c)
  <2>1. last' = [last EXCEPT ![c] = -1] /\ frame' = [frame EXCEPT ![c] = None]
    BY <1>2 DEF Connect
  <2> QED
    BY <1>1, <2>1 DEF NumberAndFrameAgree
<1>3. CASE Take(c)
  <2>1. frame' = [frame EXCEPT ![c] = latest] /\ last' = [last EXCEPT ![c] = seq]
    BY <1>3 DEF Take
  <2>2. seq > 0 => latest = Picture(seq)
    BY <1>1 DEF LatestIsWhole
  <2> QED
    BY <1>1, <2>1, <2>2 DEF NumberAndFrameAgree
<1>4. CASE UNCHANGED <<last, frame>>
  BY <1>1, <1>4 DEF NumberAndFrameAgree
<1> QED
  BY <1>2, <1>3, <1>4 DEF Handle, Woken, GivesUp, Write, WriteNone, Gone

LEMMA CamInitially == ASSUME Init PROVE CamInv
<1>1. /\ gst = TRUE /\ taken = 0 /\ pipe = <<>> /\ buf = <<>> /\ latest = None /\ seq = 0
      /\ last = [c \in Client |-> -1] /\ frame = [c \in Client |-> None]
  BY DEF Init
<1>2. CamTypes /\ LatestIsWhole /\ NumberAndFrameAgree
  BY <1>1 DEF CamTypes, LatestIsWhole, NumberAndFrameAgree
<1>3. Pending = <<>> /\ Len(Pending) = 0 /\ Len(buf) + Len(pipe) = 5 * (taken - seq)
  BY <1>1 DEF Pending
<1> QED
  BY <1>2, <1>3 DEF CamInv, InPipe, InOrder

LEMMA CamKept == ASSUME CamInv, [Next]_vars PROVE CamInv'
<1>0. /\ gst \in BOOLEAN /\ taken \in Nat /\ seq \in Nat
      /\ pipe \in Seq(Nat) /\ buf \in Seq(Nat)
      /\ last \in [Client -> Int] /\ DOMAIN frame = Client
      /\ LatestIsWhole /\ NumberAndFrameAgree
  BY DEF CamInv, CamTypes
<1>1. CASE Shoot
  <2>1. /\ pipe' \in Seq(Nat) /\ InPipe'
    BY <1>1, ShootInPipe
  <2>2. taken' = taken + 1 /\ UNCHANGED <<gst, capture, handlers>>
    BY <1>1 DEF Shoot
  <2> QED
    BY <1>0, <2>1, <2>2 DEF CamInv, CamTypes, capture, handlers, LatestIsWhole, NumberAndFrameAgree
<1>2. CASE CameraDies
  <2>1. /\ pipe' \in Seq(Nat) /\ InPipe'
    BY <1>2, DiesInPipe
  <2>2. gst' = FALSE /\ UNCHANGED <<taken, capture, handlers>>
    BY <1>2 DEF CameraDies
  <2> QED
    BY <1>0, <2>1, <2>2 DEF CamInv, CamTypes, capture, handlers, LatestIsWhole, NumberAndFrameAgree
<1>3. CASE Read
  <2>1. /\ pipe' \in Seq(Nat) /\ buf' \in Seq(Nat) /\ InPipe'
    BY <1>3, ReadInPipe
  <2>2. UNCHANGED <<camera, latest, seq, handlers>>
    BY <1>3 DEF Read
  <2> QED
    BY <1>0, <2>1, <2>2 DEF CamInv, CamTypes, camera, handlers, LatestIsWhole, NumberAndFrameAgree
<1>4. CASE ReadEnd
  <2>1. UNCHANGED <<camera, pipe, buf, latest, seq, handlers>>
    BY <1>4 DEF ReadEnd
  <2> QED
    BY <1>0, <2>1, Unmoved DEF CamInv, CamTypes, handlers, NumberAndFrameAgree
<1>5. CASE Split
  <2>1. /\ buf' \in Seq(Nat) /\ seq' \in Nat /\ InPipe' /\ LatestIsWhole'
    BY <1>5, SplitInPipe
  <2>2. UNCHANGED <<camera, pipe, handlers>>
    BY <1>5 DEF Split
  <2> QED
    BY <1>0, <2>1, <2>2 DEF CamInv, CamTypes, camera, handlers, NumberAndFrameAgree
<1>6. ASSUME NEW c \in Client, Connect(c) \/ Handle(c) \/ Gone(c) PROVE CamInv'
  <2>1. UNCHANGED <<camera, pipe, buf, latest, seq>>
    BY <1>6 DEF Connect, Handle, Woken, GivesUp, Take, Write, WriteNone, Gone, capture
  <2> QED
    BY <1>6, <2>1, Unmoved, HandlerAgrees DEF CamInv, CamTypes
<1>7. CASE UNCHANGED vars
  <2>1. UNCHANGED <<camera, pipe, buf, latest, seq, handlers>>
    BY <1>7 DEF vars, capture
  <2> QED
    BY <1>0, <2>1, Unmoved DEF CamInv, CamTypes, handlers, NumberAndFrameAgree
<1> QED
  BY <1>1, <1>2, <1>3, <1>4, <1>5, <1>6, <1>7 DEF Next, Capture

LEMMA CamInvariance == Spec => []CamInv
<1>1. Init => CamInv
  BY CamInitially
<1>2. CamInv /\ [Next]_vars => CamInv'
  BY CamKept
<1> QED
  BY <1>1, <1>2, PTL DEF Spec

\* However the bytes are cut into chunks, the frame that is held is the last
\* one the capture thread has counted, whole (cam_stream.py:45-55).
THEOREM FrameIsWhole == Spec => []LatestIsWhole
<1>1. CamInv => LatestIsWhole
  BY DEF CamInv
<1> QED
  BY <1>1, CamInvariance, PTL

\* The frame a connection sends is the one whose number it holds
\* (cam_stream.py:89).
THEOREM NumberTellsTheFrame == Spec => []NumberAndFrameAgree
<1>1. CamInv => NumberAndFrameAgree
  BY DEF CamInv
<1> QED
  BY <1>1, CamInvariance, PTL

-----------------------------------------------------------------------------
(* The clock of the GPU.  What is restored is right when one script runs   *)
(* at a time: one that starts while another holds the clock notes the      *)
(* pinned frequency, and puts that back.                                   *)

OneTerminal == \E s : Shell = {s}

Points == {"off", "armed", "pinned", "wait", "kill", "reap", "restore"}

ClockTypes ==
  /\ pc \in [Shell -> Points]
  /\ server \in [Shell -> {"none", "up", "down"}]
  /\ DOMAIN orig_min = Shell

\* What a script has noted is what the clock was, and with the script ended it
\* is so again.
Noted(s) == IF pc[s] = "off" THEN min_freq = idle ELSE orig_min[s] = idle

\* From the pinning to the restoring, and for as long as a server is left.
Pinned(s) == /\ pc[s] \in {"pinned", "wait"} => min_freq = MaxFreq
             /\ server[s] = "up" => /\ min_freq = MaxFreq
                                    /\ pc[s] \in {"wait", "kill", "reap", "off"}

ClockInv == /\ ClockTypes
            /\ \A s \in Shell : Pinned(s)
            /\ ~rushed => \A s \in Shell : Noted(s)

LEMMA ClockInitially == ASSUME ScriptInit PROVE ClockInv
  BY DEF ScriptInit, ClockInv, ClockTypes, Points, Noted, Pinned

\* One step of the one script there is.
LEMMA ClockKept ==
  ASSUME OneTerminal, ClockInv, [ScriptNext]_script
  PROVE  ClockInv'
<1>1. CASE UNCHANGED script
  BY <1>1 DEF script, ClockInv, ClockTypes, Noted, Pinned
<1>2. ASSUME NEW s \in Shell,
             \/ Start(s) \/ Pin(s) \/ Launch(s) \/ ServerEnds(s) \/ Waited(s)
             \/ Signal(s) \/ SignalAgain(s)
             \/ Kill(s) \/ Reap(s) \/ Restore(s)
      PROVE  ClockInv'
  <2>0. /\ pc \in [Shell -> Points] /\ server \in [Shell -> {"none", "up", "down"}] /\ DOMAIN orig_min = Shell
        /\ \A t \in Shell : t = s
        /\ Pinned(s) /\ (~rushed => Noted(s))
    BY <1>2 DEF ClockInv, ClockTypes, OneTerminal
  <2> SUFFICES ClockTypes' /\ Pinned(s)' /\ (~rushed' => Noted(s)')
    BY <2>0 DEF ClockInv
  <2> USE DEF ClockTypes, Points, Noted, Pinned, Goto
  <2>1. CASE Start(s)
    BY <2>0, <2>1 DEF Start
  <2>2. CASE Pin(s)
    BY <2>0, <2>2 DEF Pin
  <2>3. CASE Launch(s)
    BY <2>0, <2>3 DEF Launch
  <2>4. CASE ServerEnds(s)
    BY <2>0, <2>4 DEF ServerEnds
  <2>5. CASE Waited(s)
    BY <2>0, <2>5 DEF Waited
  <2>6. CASE Signal(s)
    BY <2>0, <2>6 DEF Signal
  <2>7. CASE SignalAgain(s)
    BY <2>0, <2>7 DEF SignalAgain
  <2>8. CASE Kill(s)
    BY <2>0, <2>8 DEF Kill
  <2>9. CASE Reap(s)
    BY <2>0, <2>9 DEF Reap
  <2>10. CASE Restore(s)
    BY <2>0, <2>10 DEF Restore
  <2> QED
    BY <1>2, <2>1, <2>2, <2>3, <2>4, <2>5, <2>6, <2>7, <2>8, <2>9, <2>10
<1> QED
  BY <1>1, <1>2 DEF ScriptNext

LEMMA ClockInvariance == OneTerminal /\ ScriptSpec => []ClockInv
<1> SUFFICES ASSUME OneTerminal PROVE ScriptSpec => []ClockInv
  OBVIOUS
<1>1. ScriptInit => ClockInv
  BY ClockInitially
<1>2. ClockInv /\ [ScriptNext]_script => ClockInv'
  BY ClockKept
<1> QED
  BY <1>1, <1>2, PTL DEF ScriptSpec

\* A script that is left to clean up puts the clock back, however often it was
\* started and wherever it was signalled (llama_server.sh:16-17).
THEOREM PutsTheClockBack == OneTerminal /\ ScriptSpec => []ClockRestored
<1>1. ASSUME OneTerminal, ClockInv PROVE ClockRestored
  <2>1. PICK s : Shell = {s}
    BY <1>1 DEF OneTerminal
  <2>2. s \in Shell /\ (~rushed => Noted(s))
    BY <1>1, <2>1 DEF ClockInv
  <2> QED
    BY <2>2 DEF Noted, ClockRestored
<1> SUFFICES ASSUME OneTerminal PROVE ScriptSpec => []ClockRestored
  OBVIOUS
<1>2. ClockInv => ClockRestored
  BY <1>1
<1> QED
  BY <1>2, ClockInvariance, PTL

\* A server that answers has the highest clock, for as long as it is there
\* (llama_server.sh:15-17).
THEOREM ServesPinned == OneTerminal /\ ScriptSpec => []PinnedWhileServing
<1> SUFFICES ASSUME OneTerminal PROVE ScriptSpec => []PinnedWhileServing
  OBVIOUS
<1>1. ClockInv => PinnedWhileServing
  BY DEF ClockInv, Pinned, PinnedWhileServing
<1> QED
  BY <1>1, ClockInvariance, PTL
=============================================================================
