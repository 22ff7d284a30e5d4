-------------------------- MODULE WholeFramesProofs --------------------------
(***************************************************************************)
(* Whatever the network loses, duplicates or reorders, viewer_stdin cuts   *)
(* where a frame with a start code begins (but for a bare start code in    *)
(* front), and when it has caught up it holds back the last NAL of the     *)
(* last such frame; for any camera's frames, any content of fresh memory,  *)
(* all limits and streams of any length, in each of the four compositions. *)
(*                                                                         *)
(* The splitter's invariant says that no start code of the bytes seen is   *)
(* missed.  What is added here says where the frames are: each one that    *)
(* arrived lies in the stream (what was seen and what is in the pipe) at   *)
(* its place in starts, the last one at its end, and no two of those       *)
(* places are four bytes apart, as nothing but a start code would be.  So  *)
(* the start code of a frame is in the stream whatever lies around it, and *)
(* the splitter cut at it or at a bare start code right in front of it     *)
(* with which no frame begins.                                             *)
(***************************************************************************)
EXTENDS WholeFrames, DestreamerProofs

(* The bytes written. *)
Stream == seen \o pipe

(* d lies in the stream behind its first o bytes. *)
IsAt(d, o) ==
  /\ o + Len(d) <= Len(Stream)
  /\ \A j \in 1..Len(d) : Stream[o + j] = d[j]

(* What each of the compositions leaves alone. *)
PathSettled ==
  /\ Player = "viewer_udp_ocv" => seen = EmptyRegister /\ pipe = <<>>
  /\ Player # "viewer_udp_ocv" => decoded = <<>>
  /\ Sender = "encoder_h264" => net = <<>> /\ pc # "encode"
  /\ eof => Sender = "encoder_h264" /\ pc = "dead" /\ pipe = <<>>

(* What may arrive of what was sent. *)
Delivers(d, frame) ==
  d = frame \/ (mIO = "READ" /\ IsPrefix(frame, d) /\ Len(d) = SizeImage)

(* Only what was sent is under way or has arrived. *)
SentOnly ==
  /\ ToSet(net) \subseteq ToSet(sent) \cap Frames
  /\ \A d \in ToSet(arrived) : \E frame \in ToSet(sent) : Delivers(d, frame)

(* What viewer_udp_ocv decodes is what arrived, up to recvfrom's limit. *)
DecodedOnly ==
  /\ Player = "viewer_udp_ocv" => Len(decoded) = Len(arrived)
  /\ \A i \in DOMAIN decoded :
       \/ decoded[i] = arrived[i]
       \/ /\ Len(decoded[i]) = MAXRECVSTRING
          /\ IsStrictPrefix(decoded[i], arrived[i])

(* Each frame that went into the pipe lies in the stream. *)
FramesPlaced ==
  Player # "viewer_udp_ocv" =>
    \A i \in 1..Len(arrived) : IsAt(arrived[i], starts[i])

(* No frame begins four bytes behind another one. *)
StartsApart ==
  /\ \A i \in 1..Len(starts) : starts[i] <= Len(Stream)
  /\ \A i, j \in 1..Len(starts) : starts[j] # starts[i] + 4
  /\ ~eof => \A i \in 1..Len(starts) :
                starts[i] = Len(Stream) \/ starts[i] + 4 < Len(Stream)

(* The last frame that is not empty ends the stream. *)
LastAtEnd ==
  Player # "viewer_udp_ocv" /\ ~eof =>
    \A i \in Filled :
      (\A k \in Filled : k <= i) => starts[i] + Len(arrived[i]) = Len(Stream)

StreamPlaced == FramesPlaced /\ StartsApart /\ LastAtEnd

(* The inductive invariant. *)
FramesInv == /\ IInv /\ TypeOK /\ CutsInOrder
             /\ PathSettled
             /\ SentOnly
             /\ DecodedOnly
             /\ StreamPlaced

-----------------------------------------------------------------------------
(* The stream is made of bytes. *)
LEMMA StreamBytes ==
  ASSUME FramesInv
  PROVE  /\ seen \in Seq(AnyByte) /\ pipe \in Seq(AnyByte) /\ pipe \in Seq(Byte)
         /\ Stream \in Seq(AnyByte)
         /\ Len(Stream) = Len(seen) + Len(pipe)
         /\ Len(seen) \in Nat /\ Len(seen) >= 4 /\ Len(pipe) \in Nat
         /\ Len(Stream) \in Nat
         /\ arrived \in Seq(Seq(Byte)) /\ eof \in BOOLEAN
         /\ starts \in Seq(Nat) /\ Len(starts) = Len(arrived) /\ Len(arrived) \in Nat
<1>1. seen \in Seq(AnyByte) /\ Len(seen) >= 4 /\ eof \in BOOLEAN
  BY DEF FramesInv, IInv, ViewerTypeOK, PacketsTileStream, RegisterIsTail
<1>2. pipe \in Seq(Byte) /\ arrived \in Seq(Seq(Byte))
      /\ starts \in Seq(Nat) /\ Len(starts) = Len(arrived)
  BY DEF FramesInv, TypeOK
<1>3. pipe \in Seq(AnyByte)
  BY <1>2, SeqMonotonic DEF AnyByte
<1>4. /\ Stream \in Seq(AnyByte)
      /\ Len(Stream) = Len(seen) + Len(pipe)
  BY <1>1, <1>3, ConcatProperties DEF Stream
<1>5. Len(seen) \in Nat /\ Len(pipe) \in Nat /\ Len(arrived) \in Nat
  BY <1>1, <1>2, <1>3
<1> QED BY <1>1, <1>2, <1>3, <1>4, <1>5

(* What is written to the pipe is behind the stream. *)
LEMMA StreamGrows ==
  ASSUME seen \in Seq(AnyByte), pipe \in Seq(AnyByte), NEW d \in Seq(AnyByte),
         pipe' = pipe \o d, seen' = seen
  PROVE  Stream' = Stream \o d
BY ConcatAssociative DEF Stream

(* Where the next frame begins. *)
LEMMA NextStart ==
  ASSUME FramesInv, NEW m \in Nat, m = 0 \/ m > 4, ~eof, eof' = eof,
         starts' = Append(starts, Len(seen) + Len(pipe)),
         Len(Stream') = Len(Stream) + m
  PROVE  /\ StartsApart'
         /\ Len(starts') = Len(starts) + 1 /\ starts' \in Seq(Nat)
         /\ \A i \in 1..Len(starts) : starts'[i] = starts[i]
         /\ starts'[Len(starts) + 1] = Len(Stream)
<1>1. PICK n \in Nat, z \in Nat :
        /\ n = Len(starts) /\ z = Len(Stream) /\ z = Len(seen) + Len(pipe)
        /\ starts \in Seq(Nat) /\ Len(Stream') = z + m
  BY StreamBytes
<1>2. /\ starts' \in Seq(Nat) /\ Len(starts') = n + 1
      /\ \A i \in 1..n : starts'[i] = starts[i]
      /\ starts'[n + 1] = z
  BY <1>1, AppendProperties
<1>3. /\ \A i \in 1..n : starts[i] \in Nat
      /\ \A i \in 1..n : starts[i] <= z
      /\ \A i, j \in 1..n : starts[j] # starts[i] + 4
      /\ \A i \in 1..n : starts[i] = z \/ starts[i] + 4 < z
  BY <1>1, ElementOfSeq DEF FramesInv, StreamPlaced, StartsApart
<1>4. \A i \in 1..(n + 1) : i \in 1..n \/ i = n + 1
  OBVIOUS
<1>5. \A i \in 1..(n + 1) :
        /\ starts'[i] \in Nat /\ starts'[i] <= z
        /\ starts'[i] = z \/ starts'[i] + 4 < z
  BY <1>2, <1>3, <1>4
<1>6. \A i, j \in 1..(n + 1) : starts'[j] # starts'[i] + 4
  <2> SUFFICES ASSUME NEW i \in 1..(n + 1), NEW j \in 1..(n + 1),
                      starts'[j] = starts'[i] + 4
               PROVE  FALSE
    OBVIOUS
  <2>0. PICK x \in Nat, y \in Nat :
          /\ x = starts'[i] /\ y = starts'[j] /\ y = x + 4
          /\ x = z \/ x + 4 < z
          /\ y <= z
    BY <1>5
  <2>9. \A a, b, c \in Nat : b = a + 4 /\ (a = c \/ a + 4 < c) /\ b <= c
                                 => a # c /\ b # c
    OBVIOUS
  <2>1. CASE j = n + 1
    <3>1. y = z
      BY <1>2, <2>0, <2>1
    <3> QED BY <2>0, <2>9, <3>1
  <2>2. CASE i = n + 1
    <3>1. x = z
      BY <1>2, <2>0, <2>2
    <3> QED BY <2>0, <2>9, <3>1
  <2>3. CASE i \in 1..n /\ j \in 1..n
    BY <1>2, <1>3, <2>3
  <2> QED BY <1>4, <2>1, <2>2, <2>3
<1>7. \A i \in 1..(n + 1) :
        /\ starts'[i] <= z + m
        /\ starts'[i] = z + m \/ starts'[i] + 4 < z + m
  <2> SUFFICES ASSUME NEW i \in 1..(n + 1)
               PROVE  /\ starts'[i] <= z + m
                      /\ starts'[i] = z + m \/ starts'[i] + 4 < z + m
    OBVIOUS
  <2>1. PICK x \in Nat : x = starts'[i] /\ x <= z /\ (x = z \/ x + 4 < z)
    BY <1>5
  <2>2. \A a, b, c \in Nat : a <= b /\ (a = b \/ a + 4 < b) /\ (c = 0 \/ c > 4)
                                 => a <= b + c /\ (a = b + c \/ a + 4 < b + c)
    OBVIOUS
  <2> QED BY <2>1, <2>2
<1> QED BY <1>1, <1>2, <1>6, <1>7 DEF StartsApart

(* A frame is written behind the stream. *)
LEMMA FrameWritten ==
  ASSUME FramesInv, NEW d \in Seq(Byte), d = <<>> \/ Len(d) > 4, ~eof,
         Player # "viewer_udp_ocv",
         pipe' = pipe \o d, arrived' = Append(arrived, d),
         starts' = Append(starts, Len(seen) + Len(pipe)),
         UNCHANGED <<seen, eof, path>>
  PROVE  StreamPlaced'
<1>1. d \in Seq(AnyByte) /\ Len(d) \in Nat /\ (Len(d) = 0 \/ Len(d) > 4)
  BY SeqMonotonic DEF AnyByte
<1>2. Stream' = Stream \o d /\ Stream \in Seq(AnyByte) /\ Player' = Player
  BY <1>1, StreamBytes, StreamGrows DEF Player
<1>3. PICK n \in Nat, z \in Nat, m \in Nat :
        /\ n = Len(arrived) /\ n = Len(starts) /\ z = Len(Stream) /\ m = Len(d)
        /\ m = 0 \/ m > 4
  BY <1>1, StreamBytes
<1>4. /\ Stream' \in Seq(AnyByte) /\ Len(Stream') = z + m
      /\ \A i \in 1..(z + m) : Stream'[i] = IF i <= z THEN Stream[i] ELSE d[i - z]
  BY <1>1, <1>2, <1>3, ConcatProperties
<1>5. /\ StartsApart'
      /\ Len(starts') = n + 1 /\ \A i \in 1..n : starts'[i] = starts[i]
      /\ starts'[n + 1] = z
  BY <1>3, <1>4, NextStart
<1>6. /\ arrived \in Seq(Seq(Byte)) /\ Len(arrived') = n + 1
      /\ \A i \in 1..n : arrived'[i] = arrived[i]
      /\ arrived'[n + 1] = d
      /\ DOMAIN arrived = 1..n /\ DOMAIN arrived' = 1..(n + 1)
  <2>1. arrived \in Seq(Seq(Byte))
    BY StreamBytes
  <2>2. /\ arrived' \in Seq(Seq(Byte)) /\ Len(arrived') = Len(arrived) + 1
        /\ \A i \in 1..Len(arrived) : arrived'[i] = arrived[i]
        /\ arrived'[Len(arrived) + 1] = d
    BY <2>1, AppendProperties
  <2> QED BY <1>3, <2>1, <2>2, LenProperties
<1>7. \A i \in 1..(n + 1) : i \in 1..n \/ i = n + 1
  OBVIOUS
<1>8. /\ \A i \in 1..n : starts[i] \in Nat
      /\ \A i \in 1..n : arrived[i] \in Seq(Byte) /\ Len(arrived[i]) \in Nat
  <2>1. starts \in Seq(Nat) /\ Len(starts) = n /\ Len(arrived) = n
    BY <1>3, StreamBytes
  <2>2. \A i \in 1..n : arrived[i] \in Seq(Byte)
    BY <1>6, <2>1, ElementOfSeq
  <2>3. \A i \in 1..n : starts[i] \in Nat
    BY <2>1, ElementOfSeq
  <2> QED BY <2>2, <2>3, LenProperties
<1>9. FramesPlaced'
  <2> SUFFICES ASSUME NEW i \in 1..(n + 1)
               PROVE  IsAt(arrived[i], starts[i])'
    BY <1>6 DEF FramesPlaced
  <2>1. CASE i \in 1..n
    <3>1. PICK o \in Nat, l \in Nat : o = starts[i] /\ l = Len(arrived[i])
      BY <1>8, <2>1
    <3>2. o + l <= z /\ \A j \in 1..l : Stream[o + j] = arrived[i][j]
      BY <1>3, <2>1, <3>1 DEF FramesInv, StreamPlaced, FramesPlaced, IsAt
    <3>3. \A j \in 1..l : o + j \in 1..(z + m) /\ o + j <= z
      BY <3>2
    <3>4. \A j \in 1..l : Stream'[o + j] = arrived[i][j]
      BY <1>4, <3>2, <3>3
    <3>5. o + l <= z + m
      BY <3>2
    <3> QED BY <1>4, <1>5, <1>6, <2>1, <3>1, <3>4, <3>5 DEF IsAt
  <2>2. CASE i = n + 1
    <3>1. \A j \in 1..m : z + j \in 1..(z + m) /\ ~(z + j <= z) /\ (z + j) - z = j
      OBVIOUS
    <3>2. \A j \in 1..m : Stream'[z + j] = d[j]
      BY <1>4, <3>1
    <3>3. IsAt(d, z)'
      BY <1>3, <1>4, <3>2 DEF IsAt
    <3>4. arrived'[i] = d /\ starts'[i] = z
      BY <1>5, <1>6, <2>2
    <3> QED BY <3>3, <3>4 DEF IsAt
  <2> QED BY <1>7, <2>1, <2>2
<1>10. LastAtEnd'
  <2> SUFFICES ASSUME NEW i \in Filled', \A k \in Filled' : k <= i
               PROVE  starts'[i] + Len(arrived'[i]) = Len(Stream')
    BY DEF LastAtEnd
  <2>1. i \in 1..(n + 1) /\ arrived'[i] # <<>>
    BY <1>6 DEF Filled
  <2>2. CASE i = n + 1
    BY <1>3, <1>4, <1>5, <1>6, <2>2
  <2>3. CASE i \in 1..n
    <3>1. n + 1 \notin Filled'
      BY <2>3
    <3>2. d = <<>>
      BY <1>6, <3>1 DEF Filled
    <3>3. m = 0
      BY <1>3, <3>2
    <3>4. i \in Filled /\ \A k \in Filled : k <= i
      <4>1. \A k \in Filled : k \in Filled'
        BY <1>6 DEF Filled
      <4> QED BY <1>6, <2>1, <2>3, <4>1 DEF Filled
    <3>5. starts[i] + Len(arrived[i]) = z
      BY <1>3, <3>4 DEF FramesInv, StreamPlaced, LastAtEnd
    <3> QED BY <1>4, <1>5, <1>6, <2>3, <3>3, <3>5
  <2> QED BY <1>7, <2>1, <2>2, <2>3
<1> QED BY <1>5, <1>9, <1>10 DEF StreamPlaced

(* What LockFrame gives in mode READ. *)
LEMMA LockedBytes ==
  ASSUME FramesInv, mIO = "READ", NEW frame \in CameraFrames,
         NEW buf, buf = LockedFrame(frame)
  PROVE  /\ buf \in Seq(Byte) /\ Len(buf) = SizeImage
         /\ image \in Seq(Byte) /\ Len(image) = SizeImage
         /\ frame \in Seq(Byte) /\ Len(frame) \in Nat /\ Len(frame) <= SizeImage
         /\ \A i \in 1..Len(frame) : buf[i] = frame[i]
         /\ \A i \in (Len(frame) + 1)..SizeImage : buf[i] = image[i]
         /\ frame = <<>> => buf = image
<1> DEFINE n == Len(frame)
           rest == SubSeq(image, n + 1, SizeImage)
<1>1. /\ image \in Seq(Byte) /\ Len(image) = SizeImage
      /\ frame \in Seq(Byte) /\ n \in Nat /\ n <= SizeImage /\ SizeImage \in Nat
  BY FramesAssumption, LimitsAssumption DEF FramesInv, TypeOK
<1>2. buf = frame \o rest
  BY DEF LockedFrame
<1> HIDE DEF n
<1>3. \A i \in (n + 1)..SizeImage : image[i] \in Byte
  BY <1>1, ElementOfSeq
<1>4. /\ rest \in Seq(Byte) /\ Len(rest) = SizeImage - n
      /\ \A i \in 1..(SizeImage - n) : rest[i] = image[n + i]
  <2>1. /\ rest \in Seq(Byte)
        /\ Len(rest) = IF n + 1 <= SizeImage THEN SizeImage - (n + 1) + 1 ELSE 0
        /\ \A i \in 1..(SizeImage - (n + 1) + 1) : rest[i] = image[(n + 1) + i - 1]
    BY <1>1, <1>3, SubSeqProperties
  <2> HIDE DEF rest
  <2>2. \A i \in 1..(SizeImage - n) :
          i \in 1..(SizeImage - (n + 1) + 1) /\ (n + 1) + i - 1 = n + i
    BY <1>1
  <2>3. \A i \in 1..(SizeImage - n) : rest[i] = image[n + i]
    BY <2>1, <2>2
  <2> QED BY <1>1, <2>1, <2>3
<1> HIDE DEF rest
<1>5. /\ buf \in Seq(Byte) /\ Len(buf) = n + Len(rest)
      /\ \A i \in 1..(n + Len(rest)) :
           buf[i] = IF i <= n THEN frame[i] ELSE rest[i - n]
  BY <1>1, <1>2, <1>4, ConcatProperties DEF n
<1>6. Len(buf) = SizeImage
  BY <1>1, <1>4, <1>5
<1>7. \A i \in 1..n : buf[i] = frame[i]
  BY <1>1, <1>4, <1>5
<1>8. \A i \in (n + 1)..SizeImage : buf[i] = image[i]
  <2> SUFFICES ASSUME NEW i \in (n + 1)..SizeImage PROVE buf[i] = image[i]
    OBVIOUS
  <2>1. /\ i \in 1..(n + Len(rest)) /\ ~(i <= n)
        /\ i - n \in 1..(SizeImage - n) /\ n + (i - n) = i
    BY <1>1, <1>4
  <2> QED BY <1>4, <1>5, <2>1
<1>9. ASSUME frame = <<>> PROVE buf = image
  <2>1. n = 0
    BY <1>9 DEF n
  <2> QED BY <1>1, <1>5, <1>6, <1>8, <2>1, SeqEqual
<1> QED BY <1>1, <1>5, <1>6, <1>7, <1>8, <1>9 DEF n

LEMMA InitFramesInv == Init => FramesInv
<1> SUFFICES ASSUME Init PROVE FramesInv
  OBVIOUS
<1>1. /\ ViewerInit /\ path \in Paths /\ pc = "capture" /\ listening \in BOOLEAN
      /\ net = <<>> /\ pipe = <<>> /\ decoded = <<>> /\ sent = <<>> /\ arrived = <<>>
      /\ starts = <<>> /\ seen = EmptyRegister /\ cuts = <<>> /\ eof = FALSE
  BY DEF Init, ViewerInit
<1>2. IInv
  BY <1>1, InitIInv
<1>3. image \in Seq(Byte) /\ Len(image) = IF mIO = "READ" THEN SizeImage ELSE 0
  <2>1. CASE mIO = "READ"
    <3>1. image \in Memory
      BY <2>1 DEF Init
    <3> QED BY <2>1, <3>1, FramesAssumption
  <2>2. CASE mIO # "READ"
    <3>1. image = <<>>
      BY <2>2 DEF Init
    <3> QED BY <2>2, <3>1
  <2> QED BY <2>1, <2>2
<1>4. TypeOK
  BY <1>1, <1>2, <1>3 DEF IInv, TypeOK
<1>5. CutsInOrder /\ PathSettled /\ SentOnly /\ DecodedOnly
  BY <1>1 DEF CutsInOrder, PathSettled, SentOnly, DecodedOnly, ToSet
<1>6. StreamPlaced
  <2>1. FramesPlaced
    BY <1>1 DEF FramesPlaced
  <2>2. StartsApart
    BY <1>1 DEF StartsApart
  <2>3. LastAtEnd
    BY <1>1 DEF LastAtEnd, Filled
  <2> QED BY <2>1, <2>2, <2>3 DEF StreamPlaced
<1> QED BY <1>2, <1>4, <1>5, <1>6 DEF FramesInv

(* Steps that touch neither the stream nor what arrived. *)
LEMMA StreamUntouched ==
  ASSUME FramesInv, UNCHANGED <<viewerVars, path, pipe, arrived, starts>>
  PROVE  /\ IInv' /\ CutsInOrder' /\ StreamPlaced' /\ ViewerTypeOK'
<1>1. IInv' /\ ViewerTypeOK'
  BY ReadIInv DEF FramesInv, IInv
<1>2. /\ UNCHANGED <<seen, cuts, eof, path, pipe, arrived, starts>>
      /\ Stream' = Stream /\ Filled' = Filled /\ Player' = Player
  BY DEF viewerVars, Stream, Filled, Player
<1>3. CutsInOrder'
  BY <1>2 DEF FramesInv, CutsInOrder
<1>4. StreamPlaced'
  BY <1>2 DEF FramesInv, StreamPlaced, FramesPlaced, StartsApart, LastAtEnd, IsAt
<1> QED BY <1>1, <1>3, <1>4

(* The steps of the encoder that send nothing. *)
LEMMA EncoderWaits ==
  ASSUME FramesInv, Capture \/ CaptureFails \/ SendFails \/ UNCHANGED vars
  PROVE  FramesInv'
<1>1. /\ UNCHANGED <<viewerVars, path, image, sent, channelVars>>
      /\ \/ pc' = pc
         \/ pc' = "encode" /\ Sender = "encoder_udp"
         \/ pc' = "dead"
  BY DEF Capture, CaptureFails, SendFails, vars, encoderVars
<1>2. UNCHANGED <<path, image, sent, listening, net, pipe, decoded, arrived, starts,
                  seen, eof>>
  BY <1>1 DEF channelVars, viewerVars
<1>3. IInv' /\ CutsInOrder' /\ StreamPlaced' /\ ViewerTypeOK'
  BY <1>1, <1>2, StreamUntouched
<1>4. TypeOK'
  BY <1>1, <1>2, <1>3 DEF FramesInv, TypeOK, mIO
<1>5. PathSettled'
  BY <1>1, <1>2 DEF FramesInv, PathSettled, Sender, Player
<1>6. SentOnly' /\ DecodedOnly'
  BY <1>2 DEF FramesInv, SentOnly, DecodedOnly, Delivers, mIO, Player
<1> QED BY <1>3, <1>4, <1>5, <1>6 DEF FramesInv

-----------------------------------------------------------------------------
(* The members of a sequence, and of one without its i-th. *)
LEMMA MembersOfRest ==
  ASSUME NEW S, NEW s \in Seq(S), NEW i \in 1..Len(s)
  PROVE  /\ RemoveAt(s, i) \in Seq(S)
         /\ ToSet(RemoveAt(s, i)) \subseteq ToSet(s)
<1> DEFINE n == Len(s)
           a == SubSeq(s, 1, i - 1)
           b == SubSeq(s, i + 1, n)
<1>1. n \in Nat /\ i \in 1..n /\ \A k \in 1..n : s[k] \in S
  BY ElementOfSeq
<1>2. /\ a \in Seq(S) /\ Len(a) = i - 1
      /\ \A k \in 1..(i - 1) : a[k] = s[k]
  <2>1. \A k \in 1..(i - 1) : s[k] \in S
    BY <1>1
  <2>2. /\ a \in Seq(S) /\ Len(a) = IF 1 <= i - 1 THEN (i - 1) - 1 + 1 ELSE 0
        /\ \A k \in 1..((i - 1) - 1 + 1) : a[k] = s[1 + k - 1]
    BY <1>1, <2>1, SubSeqProperties
  <2> HIDE DEF a
  <2>3. \A k \in 1..(i - 1) : k \in 1..((i - 1) - 1 + 1) /\ 1 + k - 1 = k
    BY <1>1
  <2> QED BY <1>1, <2>2, <2>3
<1>3. /\ b \in Seq(S) /\ Len(b) = n - i
      /\ \A k \in 1..(n - i) : b[k] = s[i + k]
  <2>1. \A k \in (i + 1)..n : s[k] \in S
    BY <1>1
  <2>2. /\ b \in Seq(S) /\ Len(b) = IF i + 1 <= n THEN n - (i + 1) + 1 ELSE 0
        /\ \A k \in 1..(n - (i + 1) + 1) : b[k] = s[(i + 1) + k - 1]
    BY <1>1, <2>1, SubSeqProperties
  <2> HIDE DEF b
  <2>3. \A k \in 1..(n - i) : k \in 1..(n - (i + 1) + 1) /\ (i + 1) + k - 1 = i + k
    BY <1>1
  <2> QED BY <1>1, <2>2, <2>3
<1> HIDE DEF n, a, b
<1>4. /\ a \o b \in Seq(S) /\ Len(a \o b) = n - 1
      /\ \A k \in 1..(n - 1) : (a \o b)[k] = IF k <= i - 1 THEN a[k] ELSE b[k - (i - 1)]
  <2>1. /\ a \o b \in Seq(S) /\ Len(a \o b) = Len(a) + Len(b)
        /\ \A k \in 1..(Len(a) + Len(b)) :
             (a \o b)[k] = IF k <= Len(a) THEN a[k] ELSE b[k - Len(a)]
    BY <1>2, <1>3, ConcatProperties
  <2>2. Len(a) + Len(b) = n - 1
    BY <1>1, <1>2, <1>3
  <2> QED BY <1>2, <2>1, <2>2
<1>5. \A k \in 1..(n - 1) : \E j \in 1..n : (a \o b)[k] = s[j]
  <2> SUFFICES ASSUME NEW k \in 1..(n - 1) PROVE \E j \in 1..n : (a \o b)[k] = s[j]
    OBVIOUS
  <2>1. CASE k <= i - 1
    <3>1. k \in 1..(i - 1) /\ k \in 1..n
      BY <1>1, <2>1
    <3> QED BY <1>2, <1>4, <2>1, <3>1
  <2>2. CASE ~(k <= i - 1)
    <3>1. k - (i - 1) \in 1..(n - i) /\ i + (k - (i - 1)) \in 1..n
      BY <1>1, <2>2
    <3> QED BY <1>3, <1>4, <2>2, <3>1
  <2> QED BY <2>1, <2>2
<1>6. /\ DOMAIN s = 1..n /\ DOMAIN (a \o b) = 1..(n - 1)
  BY <1>4, LenProperties DEF n
<1>7. ToSet(a \o b) \subseteq ToSet(s)
  BY <1>5, <1>6 DEF ToSet
<1> QED BY <1>4, <1>7 DEF RemoveAt, a, b, n

(* The members of a concatenation. *)
LEMMA MembersOfConcat ==
  ASSUME NEW S, NEW s \in Seq(S), NEW t \in Seq(S)
  PROVE  ToSet(s \o t) = ToSet(s) \cup ToSet(t)
<1> DEFINE n == Len(s)
           m == Len(t)
<1>1. /\ n \in Nat /\ m \in Nat
      /\ s \o t \in Seq(S) /\ Len(s \o t) = n + m
      /\ \A i \in 1..(n + m) : (s \o t)[i] = IF i <= n THEN s[i] ELSE t[i - n]
  BY ConcatProperties
<1>2. DOMAIN s = 1..n /\ DOMAIN t = 1..m /\ DOMAIN (s \o t) = 1..(n + m)
  BY <1>1, LenProperties
<1> HIDE DEF n, m
<1>3. \A i \in 1..n : i \in 1..(n + m) /\ i <= n
  BY <1>1
<1>4. \A j \in 1..m : n + j \in 1..(n + m) /\ ~(n + j <= n) /\ (n + j) - n = j
  BY <1>1
<1>6. \A i \in 1..n : (s \o t)[i] = s[i]
  BY <1>1, <1>3
<1>7. \A j \in 1..m : (s \o t)[n + j] = t[j]
  BY <1>1, <1>4
<1>8. ASSUME NEW x
      PROVE  x \in ToSet(s \o t) <=> x \in ToSet(s) \cup ToSet(t)
  <2>1. /\ x \in ToSet(s) <=> \E k \in 1..n : x = s[k]
        /\ x \in ToSet(t) <=> \E k \in 1..m : x = t[k]
        /\ x \in ToSet(s \o t) <=> \E k \in 1..(n + m) : x = (s \o t)[k]
    BY <1>2 DEF ToSet
  <2>2. ASSUME NEW k \in 1..(n + m), x = (s \o t)[k]
        PROVE  x \in ToSet(s) \cup ToSet(t)
    <3>1. CASE k <= n
      BY <1>1, <2>1, <2>2, <3>1
    <3>2. CASE ~(k <= n)
      BY <1>1, <2>1, <2>2, <3>2
    <3> QED BY <3>1, <3>2
  <2>3. x \in ToSet(s) => x \in ToSet(s \o t)
    BY <1>3, <1>6, <2>1
  <2>4. x \in ToSet(t) => x \in ToSet(s \o t)
    BY <1>4, <1>7, <2>1
  <2> QED BY <2>1, <2>2, <2>3, <2>4
<1> QED BY <1>8

LEMMA MembersOfAppend ==
  ASSUME NEW S, NEW s \in Seq(S), NEW e \in S
  PROVE  ToSet(Append(s, e)) = ToSet(s) \cup {e}
<1>1. /\ Len(s) \in Nat /\ Len(Append(s, e)) = Len(s) + 1
      /\ DOMAIN s = 1..Len(s) /\ DOMAIN Append(s, e) = 1..(Len(s) + 1)
      /\ \A i \in 1..Len(s) : Append(s, e)[i] = s[i]
      /\ Append(s, e)[Len(s) + 1] = e
  BY AppendProperties, LenProperties
<1>2. PICK n \in Nat : n = Len(s)
  BY <1>1
<1>3. \A i : i \in 1..(n + 1) <=> i \in 1..n \/ i = n + 1
  BY <1>2
<1> QED BY <1>1, <1>2, <1>3 DEF ToSet

-----------------------------------------------------------------------------
LEMMA SendStep ==
  ASSUME FramesInv, NEW buf \in Frames, Send(buf)
  PROVE  FramesInv'
<1> DEFINE S == Frames \cup CameraFrames
<1>1. PICK copies \in 0..2 : net' = net \o [i \in 1..copies |-> buf]
  BY DEF Send, Datagram
<1>2. /\ pc = "encode" /\ pc' = "capture" /\ sent' = Append(sent, buf)
      /\ UNCHANGED <<viewerVars, path, image, listening, pipe, decoded, arrived,
                      starts>>
  BY DEF Send, Datagram
<1>3. net \in Seq(S) /\ sent \in Seq(S) /\ buf \in S
  BY DEF FramesInv, TypeOK
<1> DEFINE t == [i \in 1..copies |-> buf]
<1>4. t \in Seq(S) /\ ToSet(t) \subseteq {buf}
  <2>1. copies \in Nat
    OBVIOUS
  <2>2. t \in Seq(S)
    BY <1>3, <2>1
  <2>3. ToSet(t) \subseteq {buf}
    BY DEF ToSet
  <2> QED BY <2>2, <2>3
<1> HIDE DEF t
<1>5. net' \in Seq(S) /\ ToSet(net') \subseteq ToSet(net) \cup {buf}
  <2>1. net' = net \o t
    BY <1>1 DEF t
  <2>2. net \o t \in Seq(S)
    BY <1>3, <1>4, ConcatProperties
  <2>3. ToSet(net \o t) = ToSet(net) \cup ToSet(t)
    BY <1>3, <1>4, MembersOfConcat
  <2> QED BY <1>4, <2>1, <2>2, <2>3
<1>6. sent' \in Seq(S) /\ ToSet(sent') = ToSet(sent) \cup {buf}
  <2>1. Append(sent, buf) \in Seq(S)
    BY <1>3, AppendProperties
  <2>2. ToSet(Append(sent, buf)) = ToSet(sent) \cup {buf}
    BY <1>3, MembersOfAppend
  <2> QED BY <1>2, <2>1, <2>2
<1>7. /\ UNCHANGED <<path, image, listening, pipe, decoded, arrived, starts, seen,
                     eof>>
      /\ mIO' = mIO /\ Player' = Player /\ Sender' = Sender
  BY <1>2 DEF viewerVars, mIO, Player, Sender
<1>8. IInv' /\ CutsInOrder' /\ StreamPlaced' /\ ViewerTypeOK'
  BY <1>2, <1>7, StreamUntouched
<1>9. TypeOK'
  BY <1>2, <1>5, <1>6, <1>7, <1>8 DEF FramesInv, TypeOK
<1>10. PathSettled'
  BY <1>2, <1>7 DEF FramesInv, PathSettled
<1>11. SentOnly' /\ DecodedOnly'
  <2>1. ToSet(net') \subseteq ToSet(sent') \cap Frames
    BY <1>5, <1>6 DEF FramesInv, SentOnly
  <2>2. \A d \in ToSet(arrived') : \E frame \in ToSet(sent') : Delivers(d, frame)'
    BY <1>6, <1>7 DEF FramesInv, SentOnly, Delivers
  <2>3. DecodedOnly'
    BY <1>7 DEF FramesInv, DecodedOnly
  <2> QED BY <2>1, <2>2, <2>3 DEF SentOnly
<1> QED BY <1>8, <1>9, <1>10, <1>11 DEF FramesInv

(* The player of the datagrams dies: what is under way is lost. *)
LEMMA ReceiveFailsStep ==
  ASSUME FramesInv, ReceiveFails
  PROVE  FramesInv'
<1>1. /\ UNCHANGED <<viewerVars, path, pc, image, sent, pipe, decoded, arrived,
                     starts>>
      /\ listening' = FALSE /\ net' = <<>>
  BY DEF ReceiveFails, encoderVars
<1>2. /\ UNCHANGED <<path, pc, image, sent, pipe, decoded, arrived, starts, seen,
                     eof>>
      /\ mIO' = mIO /\ Player' = Player /\ Sender' = Sender
  BY <1>1 DEF viewerVars, mIO, Player, Sender
<1>3. IInv' /\ CutsInOrder' /\ StreamPlaced' /\ ViewerTypeOK'
  BY <1>1, <1>2, StreamUntouched
<1>4. TypeOK'
  <2>1. <<>> \in Seq(Frames \cup CameraFrames)
    BY EmptySeq
  <2> QED BY <1>1, <1>2, <1>3, <2>1 DEF FramesInv, TypeOK
<1>5. PathSettled' /\ DecodedOnly'
  BY <1>1, <1>2 DEF FramesInv, PathSettled, DecodedOnly
<1>6. ToSet(net') = {}
  BY <1>1 DEF ToSet
<1>7. SentOnly'
  BY <1>2, <1>6 DEF FramesInv, SentOnly, Delivers
<1> QED BY <1>3, <1>4, <1>5, <1>7 DEF FramesInv

(* A datagram arrives. *)
LEMMA ArriveStep ==
  ASSUME FramesInv, NEW i \in DOMAIN net, Arrive(i)
  PROVE  FramesInv'
<1> DEFINE S == Frames \cup CameraFrames
           d == net[i]
<1>1. /\ listening /\ net' = RemoveAt(net, i) /\ arrived' = Append(arrived, d)
      /\ IF Player = "netcat"
           THEN pipe' = pipe \o d /\ decoded' = decoded
           ELSE decoded' = Append(decoded, Received(d)) /\ pipe' = pipe
      /\ starts' = Append(starts, Len(seen) + Len(pipe))
      /\ UNCHANGED <<viewerVars, path, pc, image, sent, listening>>
  BY DEF Arrive, encoderVars
<1>2. /\ UNCHANGED <<path, pc, image, sent, listening, seen, eof, cuts>>
      /\ mIO' = mIO /\ Player' = Player /\ Sender' = Sender
  BY <1>1 DEF viewerVars, mIO, Player, Sender
<1>3. net \in Seq(S) /\ arrived \in Seq(Seq(Byte)) /\ decoded \in Seq(Seq(Byte))
      /\ pipe \in Seq(Byte)
  BY DEF FramesInv, TypeOK
<1>4. i \in 1..Len(net) /\ d \in ToSet(net) /\ net # <<>>
  BY <1>3, LenProperties DEF ToSet
<1>5. d \in Frames /\ d \in ToSet(sent) /\ d \in Seq(Byte)
      /\ (d = <<>> \/ Len(d) > 4)
  <2>1. d \in Frames /\ d \in ToSet(sent)
    BY <1>4 DEF FramesInv, SentOnly
  <2> QED BY <2>1, FramesAssumption
<1> HIDE DEF d
<1>6. Sender = "encoder_udp" /\ mIO # "READ" /\ ~eof
      /\ Player \in {"viewer_udp_ocv", "netcat"}
  <2>1. path \in Paths /\ Sender # "encoder_h264"
    BY <1>4 DEF FramesInv, TypeOK, PathSettled
  <2>2. eof \in BOOLEAN /\ ~eof
    BY <2>1 DEF FramesInv, PathSettled, TypeOK, ViewerTypeOK
  <2> QED BY <2>1, <2>2 DEF Paths, Sender, mIO, Player
<1>7. net' \in Seq(S) /\ ToSet(net') \subseteq ToSet(net)
  BY <1>1, <1>3, <1>4, MembersOfRest
<1>8. /\ arrived' \in Seq(Seq(Byte)) /\ ToSet(arrived') = ToSet(arrived) \cup {d}
      /\ Len(arrived) \in Nat /\ Len(arrived') = Len(arrived) + 1
      /\ \A k \in 1..Len(arrived) : arrived'[k] = arrived[k]
      /\ arrived'[Len(arrived) + 1] = d
  <2>1. d \in Seq(Byte)
    BY <1>5
  <2>2. ToSet(Append(arrived, d)) = ToSet(arrived) \cup {d}
    BY <1>3, <2>1, MembersOfAppend
  <2> QED BY <1>1, <1>3, <2>1, <2>2, AppendProperties, LenProperties
<1>9. SentOnly'
  <2>1. ToSet(net') \subseteq ToSet(sent') \cap Frames
    BY <1>2, <1>7 DEF FramesInv, SentOnly
  <2>2. \A e \in ToSet(arrived') : \E frame \in ToSet(sent') : Delivers(e, frame)'
    BY <1>2, <1>5, <1>6, <1>8 DEF FramesInv, SentOnly, Delivers
  <2> QED BY <2>1, <2>2 DEF SentOnly
<1>10. IInv' /\ ViewerTypeOK' /\ CutsInOrder'
  <2>1. IInv' /\ ViewerTypeOK'
    BY <1>1, ReadIInv DEF FramesInv, IInv
  <2> QED BY <1>2, <2>1 DEF FramesInv, CutsInOrder
<1>11. starts' \in Seq(Nat) /\ Len(starts') = Len(arrived')
  <2>1. starts \in Seq(Nat) /\ Len(seen) + Len(pipe) \in Nat
    BY StreamBytes
  <2> QED BY <1>1, <1>8, <2>1, StreamBytes, AppendProperties
<1>12. CASE Player = "netcat"
  <2>1. pipe' = pipe \o d /\ decoded' = decoded /\ pipe' \in Seq(Byte)
    BY <1>1, <1>3, <1>5, <1>12, ConcatProperties
  <2>2. decoded = <<>>
    BY <1>12 DEF FramesInv, PathSettled
  <2>3. StreamPlaced'
    BY <1>1, <1>2, <1>5, <1>6, <1>12, <2>1, FrameWritten
  <2>4. TypeOK'
    BY <1>2, <1>3, <1>7, <1>8, <1>10, <1>11, <2>1 DEF FramesInv, TypeOK
  <2>5. PathSettled'
    BY <1>2, <1>6, <1>12, <2>1, <2>2 DEF PathSettled
  <2>6. DecodedOnly'
    BY <1>2, <1>12, <2>1, <2>2 DEF DecodedOnly
  <2> QED BY <1>9, <1>10, <2>3, <2>4, <2>5, <2>6 DEF FramesInv
<1>13. CASE Player = "viewer_udp_ocv"
  <2> DEFINE r == Received(d)
  <2>1. pipe' = pipe /\ decoded' = Append(decoded, r)
    BY <1>1, <1>13
  <2>2. seen = EmptyRegister /\ pipe = <<>>
    BY <1>13 DEF FramesInv, PathSettled
  <2>3. /\ r \in Seq(Byte)
        /\ r = d \/ (Len(r) = MAXRECVSTRING /\ IsStrictPrefix(r, d))
    <3>1. CASE Len(d) <= MAXRECVSTRING
      <4>1. r = d
        BY <3>1 DEF Received
      <4> QED BY <1>5, <4>1
    <3>2. CASE ~(Len(d) <= MAXRECVSTRING)
      <4>1. r = SubSeq(d, 1, MAXRECVSTRING) /\ Len(d) \in Nat
            /\ MAXRECVSTRING \in Nat /\ 1 <= MAXRECVSTRING
            /\ MAXRECVSTRING < Len(d)
        BY <1>5, <3>2, LimitsAssumption DEF Received
      <4> HIDE DEF r
      <4>2. \A k \in 1..MAXRECVSTRING : d[k] \in Byte
        <5>1. \A k \in 1..MAXRECVSTRING : k \in 1..Len(d)
          BY <4>1
        <5> QED BY <1>5, <5>1, ElementOfSeq
      <4>3. r \in Seq(Byte) /\ Len(r) = MAXRECVSTRING
        <5>1. /\ r \in Seq(Byte)
              /\ Len(r) = IF 1 <= MAXRECVSTRING THEN MAXRECVSTRING - 1 + 1 ELSE 0
          BY <4>1, <4>2, SubSeqProperties
        <5> QED BY <4>1, <5>1
      <4>4. SubSeq(r, 1, MAXRECVSTRING) = r
        <5>1. SubSeq(r, 1, Len(r)) = r
          BY <4>3, SubSeqFull
        <5> QED BY <4>3, <5>1
      <4>5. r # d
        BY <4>1, <4>3
      <4>6. IsPrefix(r, d)
        BY <4>1, <4>3, <4>4 DEF IsPrefix
      <4> QED BY <4>3, <4>5, <4>6 DEF IsStrictPrefix
    <3> QED BY <3>1, <3>2
  <2> HIDE DEF r
  <2>4. /\ decoded' \in Seq(Seq(Byte)) /\ Len(decoded) \in Nat
        /\ Len(decoded') = Len(decoded) + 1
        /\ DOMAIN decoded' = 1..(Len(decoded) + 1)
        /\ DOMAIN decoded = 1..Len(decoded)
        /\ \A k \in 1..Len(decoded) : decoded'[k] = decoded[k]
        /\ decoded'[Len(decoded) + 1] = r
    BY <1>3, <2>1, <2>3, AppendProperties, LenProperties
  <2>5. Len(decoded) = Len(arrived)
    BY <1>13 DEF FramesInv, DecodedOnly
  <2>6. DecodedOnly'
    <3>1. Len(decoded') = Len(arrived')
      BY <1>8, <2>4, <2>5
    <3>2. ASSUME NEW k \in DOMAIN decoded'
          PROVE \/ decoded'[k] = arrived'[k]
                \/ /\ Len(decoded'[k]) = MAXRECVSTRING
                   /\ IsStrictPrefix(decoded'[k], arrived'[k])
      <4>1. CASE k = Len(decoded) + 1
        BY <1>8, <2>3, <2>4, <2>5, <4>1
      <4>2. CASE k \in 1..Len(decoded)
        BY <1>8, <2>4, <2>5, <4>2 DEF FramesInv, DecodedOnly
      <4> QED BY <2>4, <4>1, <4>2
    <3> QED BY <3>1, <3>2 DEF DecodedOnly
  <2>7. TypeOK'
    BY <1>2, <1>3, <1>7, <1>8, <1>10, <1>11, <2>1, <2>4 DEF FramesInv, TypeOK
  <2>8. PathSettled'
    BY <1>2, <1>6, <1>13, <2>1, <2>2 DEF PathSettled
  <2>9. StreamPlaced'
    <3>1. Len(Stream') = Len(Stream) + 0 /\ Len(Stream) \in Nat
      BY <1>2, <2>1, StreamBytes DEF Stream
    <3>2. StartsApart'
      BY <1>1, <1>2, <1>6, <3>1, NextStart
    <3>3. FramesPlaced' /\ LastAtEnd'
      BY <1>2, <1>13 DEF FramesPlaced, LastAtEnd
    <3> QED BY <3>2, <3>3 DEF StreamPlaced
  <2> QED BY <1>9, <1>10, <2>6, <2>7, <2>8, <2>9 DEF FramesInv
<1> QED BY <1>6, <1>12, <1>13


(* What arrives of a frame of the camera. *)
LEMMA LockedDelivers ==
  ASSUME FramesInv, NEW frame \in CameraFrames, NEW buf, buf = LockedFrame(frame)
  PROVE  /\ buf \in Seq(Byte) /\ Delivers(buf, frame)
         /\ mIO = "READ" => Len(buf) = SizeImage
<1>1. CASE mIO # "READ"
  <2>1. buf = frame
    BY <1>1 DEF LockedFrame
  <2> QED BY <1>1, <2>1, FramesAssumption DEF Delivers
<1>2. CASE mIO = "READ"
  <2>1. /\ buf \in Seq(Byte) /\ Len(buf) = SizeImage
        /\ frame \in Seq(Byte) /\ Len(frame) \in Nat /\ Len(frame) <= SizeImage
        /\ \A i \in 1..Len(frame) : buf[i] = frame[i]
    BY <1>2, LockedBytes
  <2>2. PICK n \in Nat : n = Len(frame)
    BY <2>1
  <2> DEFINE b == SubSeq(buf, 1, n)
  <2>3. /\ b \in Seq(Byte) /\ Len(b) = n
        /\ \A i \in 1..n : b[i] = buf[i]
    <3>1. \A i \in 1..n : buf[i] \in Byte
      <4>1. \A i \in 1..n : frame[i] \in Byte
        BY <2>1, <2>2, ElementOfSeq
      <4> QED BY <2>1, <2>2, <4>1
    <3>2. /\ b \in Seq(Byte) /\ Len(b) = IF 1 <= n THEN n - 1 + 1 ELSE 0
          /\ \A i \in 1..(n - 1 + 1) : b[i] = buf[1 + i - 1]
      <4>1. 1 \in Int /\ n \in Int
        OBVIOUS
      <4> QED BY <2>1, <3>1, <4>1, SubSeqProperties
    <3> HIDE DEF b
    <3>3. \A i \in 1..n : i \in 1..(n - 1 + 1) /\ 1 + i - 1 = i
      OBVIOUS
    <3> QED BY <3>2, <3>3
  <2> HIDE DEF b
  <2>4. b = frame
    <3>1. Len(b) = Len(frame) /\ \A i \in 1..Len(b) : b[i] = frame[i]
      BY <2>1, <2>2, <2>3
    <3> QED BY <2>1, <2>3, <3>1, SeqEqual
  <2>5. SubSeq(frame, 1, Len(frame)) = frame
    BY <2>1, SubSeqFull
  <2>6. IsPrefix(frame, buf)
    BY <2>1, <2>2, <2>4, <2>5 DEF IsPrefix, b
  <2> QED BY <1>2, <2>1, <2>6 DEF Delivers
<1> QED BY <1>1, <1>2

LEMMA ForwardStep ==
  ASSUME FramesInv, NEW frame \in CameraFrames, Forward(frame)
  PROVE  FramesInv'
<1> DEFINE S == Frames \cup CameraFrames
<1>1. PICK buf : buf = LockedFrame(frame)
  OBVIOUS
<1>2. /\ Sender = "encoder_h264" /\ pc = "capture" /\ sent' = Append(sent, frame)
      /\ image' = IF mIO = "READ" THEN buf ELSE image
      /\ IF Len(buf) > 4
           THEN /\ pipe' = pipe \o buf /\ arrived' = Append(arrived, buf)
                /\ starts' = Append(starts, Len(seen) + Len(pipe))
           ELSE pipe' = pipe /\ arrived' = arrived /\ starts' = starts
      /\ UNCHANGED <<viewerVars, path, pc, listening, net, decoded>>
  BY <1>1 DEF Forward, IsWritten
<1>3. /\ UNCHANGED <<path, pc, listening, net, decoded, seen, eof, cuts>>
      /\ mIO' = mIO /\ Player' = Player /\ Sender' = Sender
  BY <1>2 DEF viewerVars, mIO, Player, Sender
<1>4. Player # "viewer_udp_ocv" /\ net = <<>>
  <2>1. Sender = "encoder_h264" /\ path \in Paths
    BY <1>2 DEF FramesInv, TypeOK
  <2>2. Player # "viewer_udp_ocv"
    BY <2>1 DEF Paths, Sender, Player
  <2> QED BY <2>1, <2>2 DEF FramesInv, PathSettled
<1>5. decoded = <<>> /\ ~eof
  <2>1. eof \in BOOLEAN
    BY DEF FramesInv, TypeOK, ViewerTypeOK
  <2> QED BY <1>2, <1>4, <2>1 DEF FramesInv, PathSettled
<1>6. sent' \in Seq(S) /\ ToSet(sent') = ToSet(sent) \cup {frame}
  <2>1. sent \in Seq(S) /\ frame \in S
    BY DEF FramesInv, TypeOK
  <2>2. Append(sent, frame) \in Seq(S)
    BY <2>1, AppendProperties
  <2>3. ToSet(Append(sent, frame)) = ToSet(sent) \cup {frame}
    BY <2>1, MembersOfAppend
  <2> QED BY <1>2, <2>2, <2>3
<1>7. /\ buf \in Seq(Byte) /\ Delivers(buf, frame)
      /\ mIO = "READ" => Len(buf) = SizeImage
  BY <1>1, LockedDelivers
<1>8. IInv' /\ ViewerTypeOK' /\ CutsInOrder'
  <2>1. IInv' /\ ViewerTypeOK'
    BY <1>2, ReadIInv DEF FramesInv, IInv
  <2> QED BY <1>3, <2>1 DEF FramesInv, CutsInOrder
<1>9. /\ StreamPlaced'
      /\ pipe' \in Seq(Byte) /\ arrived' \in Seq(Seq(Byte))
      /\ starts' \in Seq(Nat) /\ Len(starts') = Len(arrived')
      /\ ToSet(arrived') \subseteq ToSet(arrived) \cup {buf}
  <2>0. pipe \in Seq(Byte) /\ arrived \in Seq(Seq(Byte)) /\ starts \in Seq(Nat)
        /\ Len(starts) = Len(arrived) /\ Len(seen) + Len(pipe) \in Nat
    BY StreamBytes
  <2>1. CASE Len(buf) > 4
    <3>1. /\ pipe' = pipe \o buf /\ arrived' = Append(arrived, buf)
          /\ starts' = Append(starts, Len(seen) + Len(pipe))
      BY <1>2, <2>1
    <3>2. StreamPlaced'
      BY <1>3, <1>4, <1>5, <1>7, <2>1, <3>1, FrameWritten
    <3>3. pipe' \in Seq(Byte)
      BY <1>7, <2>0, <3>1, ConcatProperties
    <3>4. arrived' \in Seq(Seq(Byte)) /\ Len(arrived') = Len(arrived) + 1
      BY <1>7, <2>0, <3>1, AppendProperties
    <3>5. starts' \in Seq(Nat) /\ Len(starts') = Len(starts) + 1
      BY <2>0, <3>1, AppendProperties
    <3>6. ToSet(arrived') = ToSet(arrived) \cup {buf}
      BY <1>7, <2>0, <3>1, MembersOfAppend
    <3> QED BY <2>0, <3>2, <3>3, <3>4, <3>5, <3>6
  <2>2. CASE ~(Len(buf) > 4)
    <3>1. UNCHANGED <<viewerVars, path, pipe, arrived, starts>>
      BY <1>2, <2>2
    <3> QED BY <2>0, <3>1, StreamUntouched
  <2> QED BY <2>1, <2>2
<1>10. image' \in Seq(Byte) /\ Len(image') = IF mIO' = "READ" THEN SizeImage ELSE 0
  BY <1>2, <1>3, <1>7 DEF FramesInv, TypeOK
<1>11. TypeOK'
  BY <1>3, <1>6, <1>8, <1>9, <1>10 DEF FramesInv, TypeOK
<1>12. PathSettled' /\ DecodedOnly'
  BY <1>2, <1>3, <1>4, <1>5 DEF FramesInv, PathSettled, DecodedOnly
<1>13. SentOnly'
  <2>1. ToSet(net') \subseteq ToSet(sent') \cap Frames
    BY <1>3, <1>6 DEF FramesInv, SentOnly
  <2>2. \A d \in ToSet(arrived') : \E f \in ToSet(sent') : Delivers(d, f)'
    BY <1>3, <1>6, <1>7, <1>9 DEF FramesInv, SentOnly, Delivers
  <2> QED BY <2>1, <2>2 DEF SentOnly
<1> QED BY <1>8, <1>9, <1>11, <1>12, <1>13 DEF FramesInv

-----------------------------------------------------------------------------
LEMMA ViewerReadStep ==
  ASSUME FramesInv, ViewerRead
  PROVE  FramesInv'
<1>1. /\ pipe # <<>> /\ pipe' = Tail(pipe) /\ ReadByte(Head(pipe))
      /\ UNCHANGED <<path, pc, image, sent, listening, net, decoded, arrived, starts>>
      /\ ~eof /\ eof' = eof /\ Input(Head(pipe)) /\ seen' = Append(seen, Head(pipe))
      /\ mIO' = mIO /\ Player' = Player /\ Sender' = Sender
  BY DEF ViewerRead, encoderVars, ReadByte, Input, mIO, Player, Sender
<1>2. seen \in Seq(AnyByte) /\ pipe \in Seq(AnyByte) /\ pipe \in Seq(Byte)
  BY StreamBytes
<1>3. Head(pipe) \in Byte /\ Head(pipe) \in AnyByte /\ Tail(pipe) \in Seq(Byte)
  BY <1>1, <1>2, HeadTailProperties DEF AnyByte
<1>4. IInv' /\ ViewerTypeOK' /\ CutsInOrder'
  <2>1. IInv'
    BY <1>1, <1>3, ReadIInv DEF FramesInv
  <2>2. CutsInOrder'
    BY <1>1, <1>3, InputCutsInOrder DEF FramesInv
  <2> QED BY <2>1, <2>2 DEF IInv
<1>5. Stream' = Stream /\ Filled' = Filled
  <2>1. Append(seen, Head(pipe)) \o Tail(pipe) = seen \o pipe
    BY <1>1, <1>2, ReadingKeepsStream
  <2> QED BY <1>1, <2>1 DEF Stream, Filled
<1>6. TypeOK'
  BY <1>1, <1>3, <1>4 DEF FramesInv, TypeOK
<1>7. PathSettled'
  BY <1>1 DEF FramesInv, PathSettled
<1>8. SentOnly' /\ DecodedOnly'
  BY <1>1 DEF FramesInv, SentOnly, DecodedOnly, Delivers
<1>9. StreamPlaced'
  BY <1>1, <1>5 DEF FramesInv, StreamPlaced, FramesPlaced, StartsApart, LastAtEnd, IsAt
<1> QED BY <1>4, <1>6, <1>7, <1>8, <1>9 DEF FramesInv

(* The byte that EOF becomes lies behind the last frame. *)
LEMMA ViewerEofStep ==
  ASSUME FramesInv, ViewerEof
  PROVE  FramesInv'
<1>1. /\ Sender = "encoder_h264" /\ pc = "dead" /\ pipe = <<>>
      /\ UNCHANGED <<path, pc, image, sent, listening, net, pipe, decoded, arrived,
                     starts>>
      /\ ~eof /\ eof' = TRUE /\ Input(255) /\ seen' = Append(seen, 255) /\ ReadEof
      /\ mIO' = mIO /\ Player' = Player /\ Sender' = Sender
  BY DEF ViewerEof, encoderVars, channelVars, ReadEof, EofByte, Input,
     mIO, Player, Sender
<1>2. seen \in Seq(AnyByte) /\ Len(seen) \in Nat /\ 255 \in AnyByte
      /\ arrived \in Seq(Seq(Byte)) /\ starts \in Seq(Nat) /\ Len(starts) = Len(arrived)
      /\ Len(arrived) \in Nat
  BY StreamBytes DEF AnyByte
<1>3. IInv' /\ ViewerTypeOK' /\ CutsInOrder'
  <2>1. IInv'
    BY <1>1, ReadIInv DEF FramesInv
  <2>2. CutsInOrder'
    BY <1>1, <1>2, InputCutsInOrder DEF FramesInv
  <2> QED BY <2>1, <2>2 DEF IInv
<1>4. PICK z \in Nat, n \in Nat : z = Len(seen) /\ n = Len(arrived) /\ n = Len(starts)
  BY <1>2
<1>5. /\ Stream = seen /\ Stream' = seen' /\ Len(seen') = z + 1
      /\ \A i \in 1..z : seen'[i] = seen[i]
  <2>1. /\ seen' \in Seq(AnyByte) /\ Len(seen') = z + 1
        /\ \A i \in 1..z : seen'[i] = seen[i]
    BY <1>1, <1>2, <1>4, AppendProperties
  <2>2. seen \o <<>> = seen
    BY <1>2, ConcatEmptySeq
  <2>3. seen' \o <<>> = seen'
    <3>1. \A s \in Seq(AnyByte) : s \o <<>> = s
      BY ConcatEmptySeq
    <3> QED BY <2>1, <3>1
  <2> QED BY <1>1, <2>1, <2>2, <2>3 DEF Stream
<1>6. StreamPlaced'
  <2>1. FramesPlaced'
    <3> SUFFICES ASSUME Player # "viewer_udp_ocv", NEW i \in 1..n
                 PROVE  IsAt(arrived[i], starts[i])'
      BY <1>1, <1>4 DEF FramesPlaced
    <3>1. PICK o \in Nat, l \in Nat : o = starts[i] /\ l = Len(arrived[i])
      <4>1. arrived[i] \in Seq(Byte)
        BY <1>2, <1>4, ElementOfSeq
      <4>2. starts[i] \in Nat
        BY <1>2, <1>4, ElementOfSeq
      <4> QED BY <4>1, <4>2, LenProperties
    <3>2. o + l <= z /\ \A j \in 1..l : seen[o + j] = arrived[i][j]
      BY <1>4, <1>5, <3>1 DEF FramesInv, StreamPlaced, FramesPlaced, IsAt
    <3>3. o + l <= z + 1 /\ \A j \in 1..l : o + j \in 1..z
      BY <3>2
    <3>4. \A j \in 1..l : seen'[o + j] = arrived[i][j]
      BY <1>5, <3>2, <3>3
    <3> QED BY <1>1, <1>5, <3>1, <3>3, <3>4 DEF IsAt
  <2>2. StartsApart'
    <3>1. \A i \in 1..n : starts[i] \in Nat /\ starts[i] <= z
      BY <1>2, <1>4, <1>5, ElementOfSeq DEF FramesInv, StreamPlaced, StartsApart
    <3>2. \A i \in 1..n : starts[i] <= z + 1
      BY <3>1
    <3>3. \A i, j \in 1..n : starts[j] # starts[i] + 4
      BY <1>4 DEF FramesInv, StreamPlaced, StartsApart
    <3> QED BY <1>1, <1>4, <1>5, <3>2, <3>3 DEF StartsApart
  <2>3. LastAtEnd'
    BY <1>1 DEF LastAtEnd
  <2> QED BY <2>1, <2>2, <2>3 DEF StreamPlaced
<1>7. TypeOK'
  BY <1>1, <1>3 DEF FramesInv, TypeOK
<1>8. PathSettled'
  <2>1. Player # "viewer_udp_ocv"
    BY <1>1 DEF FramesInv, TypeOK, Paths, Sender, Player
  <2> QED BY <1>1, <2>1 DEF FramesInv, PathSettled
<1>9. SentOnly' /\ DecodedOnly'
  BY <1>1 DEF FramesInv, SentOnly, DecodedOnly, Delivers
<1> QED BY <1>3, <1>6, <1>7, <1>8, <1>9 DEF FramesInv

LEMMA NextFramesInv == FramesInv /\ [Next]_vars => FramesInv'
<1> SUFFICES ASSUME FramesInv, [Next]_vars PROVE FramesInv'
  OBVIOUS
<1>1. CASE Capture \/ CaptureFails \/ SendFails \/ UNCHANGED vars
  BY <1>1, EncoderWaits
<1>2. ASSUME NEW buf \in Frames, Send(buf) PROVE FramesInv'
  BY <1>2, SendStep
<1>3. ASSUME NEW i \in DOMAIN net, Arrive(i) PROVE FramesInv'
  BY <1>3, ArriveStep
<1>4. CASE ReceiveFails
  BY <1>4, ReceiveFailsStep
<1>5. ASSUME NEW frame \in CameraFrames, Forward(frame) PROVE FramesInv'
  BY <1>5, ForwardStep
<1>6. CASE ViewerRead
  BY <1>6, ViewerReadStep
<1>7. CASE ViewerEof
  BY <1>7, ViewerEofStep
<1> QED BY <1>1, <1>2, <1>3, <1>4, <1>5, <1>6, <1>7 DEF Next

-----------------------------------------------------------------------------
(* The start codes of a frame are in the stream. *)
LEMMA MarkOfFrame ==
  ASSUME NEW d \in Seq(AnyByte), NEW o \in Nat, IsAt(d, o),
         Stream \in Seq(AnyByte), NEW p \in 1..Len(d)
  PROVE  StartCodeAt(d, p) <=> StartCodeAt(Stream, o + p) /\ p + 3 <= Len(d)
<1>1. PICK l \in Nat, z \in Nat : l = Len(d) /\ z = Len(Stream)
  BY LenProperties
<1>2. o + l <= z /\ \A j \in 1..l : Stream[o + j] = d[j]
  BY <1>1 DEF IsAt
<1>3. /\ o + (p + 1) = o + p + 1 /\ o + (p + 2) = o + p + 2 /\ o + (p + 3) = o + p + 3
      /\ p + 3 <= l => p \in 1..l /\ p + 1 \in 1..l /\ p + 2 \in 1..l /\ p + 3 \in 1..l
                       /\ o + p + 3 <= z
  BY <1>1, <1>2
<1>4. p + 3 <= l => /\ Stream[o + p] = d[p] /\ Stream[o + p + 1] = d[p + 1]
                    /\ Stream[o + p + 2] = d[p + 2] /\ Stream[o + p + 3] = d[p + 3]
  <2> SUFFICES ASSUME p + 3 <= l
               PROVE  /\ Stream[o + p] = d[p] /\ Stream[o + p + 1] = d[p + 1]
                      /\ Stream[o + p + 2] = d[p + 2] /\ Stream[o + p + 3] = d[p + 3]
    OBVIOUS
  <2>1. /\ Stream[o + p] = d[p] /\ Stream[o + (p + 1)] = d[p + 1]
        /\ Stream[o + (p + 2)] = d[p + 2] /\ Stream[o + (p + 3)] = d[p + 3]
    BY <1>2, <1>3
  <2> QED BY <1>3, <2>1
<1> QED BY <1>1, <1>3, <1>4 DEF StartCodeAt

(* The place of a frame in the stream. *)
LEMMA PlaceOf ==
  ASSUME FramesInv, Player # "viewer_udp_ocv", NEW i \in DOMAIN arrived
  PROVE  /\ i \in 1..Len(starts) /\ starts[i] \in Nat
         /\ arrived[i] \in Seq(AnyByte) /\ Len(arrived[i]) \in Nat
         /\ IsAt(arrived[i], starts[i])
<1>1. /\ arrived \in Seq(Seq(Byte)) /\ Len(arrived) \in Nat
      /\ starts \in Seq(Nat) /\ Len(starts) = Len(arrived)
  BY StreamBytes
<1>2. i \in 1..Len(arrived)
  BY <1>1, LenProperties
<1>3. arrived[i] \in Seq(Byte)
  BY <1>1, <1>2, ElementOfSeq
<1>4. starts[i] \in Nat
  BY <1>1, <1>2, ElementOfSeq
<1>5. arrived[i] \in Seq(AnyByte)
  BY <1>3, SeqMonotonic DEF AnyByte
<1> QED BY <1>1, <1>2, <1>3, <1>4, <1>5, LenProperties
        DEF FramesInv, StreamPlaced, FramesPlaced

(* The splitter cut where a frame begins, or right before. *)
LEMMA FrameCut ==
  ASSUME FramesInv, NEW i \in Whole, starts[i] + 4 <= Len(seen)
  PROVE  \E cut \in ToSet(cuts) :
           \/ cut = starts[i]
           \/ cut = starts[i] - 4 /\ cut \notin ToSet(starts)
<1>1. /\ arrived \in Seq(Seq(Byte)) /\ Len(arrived) \in Nat
      /\ starts \in Seq(Nat) /\ Len(starts) = Len(arrived)
      /\ seen \in Seq(AnyByte) /\ pipe \in Seq(AnyByte) /\ Len(seen) \in Nat
      /\ Stream \in Seq(AnyByte)
  BY StreamBytes
<1>2. DOMAIN arrived = 1..Len(arrived) /\ DOMAIN starts = 1..Len(starts)
  BY <1>1, LenProperties
<1>3. i \in 1..Len(starts) /\ i \in DOMAIN arrived /\ StartCodeAt(arrived[i], 1)
  BY <1>1, <1>2 DEF Whole
<1>4. PICK o \in Nat : o = starts[i]
  BY <1>1, <1>3, ElementOfSeq
<1>5. Player # "viewer_udp_ocv"
  <2> SUFFICES ASSUME Player = "viewer_udp_ocv" PROVE FALSE
    OBVIOUS
  <2>1. path \in Paths /\ eof \in BOOLEAN
    BY DEF FramesInv, TypeOK, ViewerTypeOK
  <2>2. Sender # "encoder_h264"
    BY <2>1 DEF Paths, Sender, Player
  <2>3. ~eof /\ seen = EmptyRegister /\ pipe = <<>>
    BY <2>1, <2>2 DEF FramesInv, PathSettled
  <2>4. Len(seen) = 4 /\ Stream = seen
    BY <1>1, <2>3, ConcatEmptySeq DEF Stream, EmptyRegister
  <2>5. o = 4 \/ o + 4 < 4
    BY <1>3, <1>4, <2>3, <2>4 DEF FramesInv, StreamPlaced, StartsApart
  <2> QED BY <1>4, <2>4, <2>5
<1>6. IsAt(arrived[i], o) /\ arrived[i] \in Seq(AnyByte) /\ Len(arrived[i]) \in Nat
  BY <1>3, <1>4, <1>5, PlaceOf
<1>7. StartCodeAt(Stream, o + 1)
  <2>1. 1 \in 1..Len(arrived[i])
    BY <1>3, <1>6 DEF StartCodeAt
  <2> QED BY <1>1, <1>3, <1>6, <2>1, MarkOfFrame
<1>8. StartCodeAt(seen, o + 1) /\ o + 1 \in 1..Len(seen)
  <2>0. PICK n \in Nat : n = Len(seen) /\ o + 4 <= n
    BY <1>1, <1>4
  <2>1. o + 1 \in Nat \ {0} /\ (o + 1) + 3 <= n /\ o + 1 \in 1..n
    BY <2>0
  <2> QED BY <1>1, <1>7, <2>0, <2>1, MarkSeen DEF Stream
<1>9. PICK k \in 1..Len(cuts) : o + 1 = cuts[k] + 1 \/ o + 1 = cuts[k] + 5
  BY <1>8 DEF FramesInv, IInv, SplitExactlyAtStartCodes, NoStartCodeMissed
<1>10. cuts \in Seq(Nat)
  BY DEF FramesInv, IInv, ViewerTypeOK
<1>11. PICK c \in Nat : c = cuts[k] /\ c \in ToSet(cuts)
  <2>1. cuts[k] \in Nat
    BY <1>9, <1>10, ElementOfSeq
  <2>2. k \in DOMAIN cuts
    BY <1>10, LenProperties
  <2> QED BY <2>1, <2>2 DEF ToSet
<1>12. c = o \/ c = o - 4
  BY <1>9, <1>11
<1>13. ASSUME c = o - 4 PROVE c \notin ToSet(starts)
  <2> SUFFICES ASSUME NEW j \in 1..Len(starts), c = starts[j] PROVE FALSE
    BY <1>2 DEF ToSet
  <2>1. o # starts[j] + 4
    BY <1>3, <1>4 DEF FramesInv, StreamPlaced, StartsApart
  <2> QED BY <1>13, <2>1
<1> QED BY <1>4, <1>11, <1>12, <1>13

-----------------------------------------------------------------------------
(* A set of numbers that is not empty and has a bound has a greatest one. *)
LEMMA GreatestMember ==
  ASSUME NEW n \in Nat, NEW T \in SUBSET (1..n), T # {}
  PROVE  Max(T) \in T /\ \A t \in T : t <= Max(T)
<1> DEFINE U == {u \in Nat : \A t \in T : t <= u}
<1>1. n \in U
  OBVIOUS
<1>2. PICK u \in U : \A m \in U : u <= m
  BY <1>1, LeastMember
<1>3. u \in T
  <2> SUFFICES ASSUME u \notin T PROVE FALSE
    OBVIOUS
  <2>1. PICK t \in T : t \in 1..n /\ t <= u
    BY <1>2
  <2>2. u - 1 \in Nat /\ u \in Nat
    BY <1>2, <2>1
  <2>3. \A s \in T : s <= u - 1
    <3> SUFFICES ASSUME NEW s \in T PROVE s <= u - 1
      OBVIOUS
    <3>1. s \in Nat /\ s <= u /\ s # u
      BY <1>2
    <3> QED BY <2>2, <3>1
  <2>4. u - 1 \in U
    BY <2>2, <2>3
  <2> QED BY <1>2, <2>2, <2>4
<1>4. Max(T) = CHOOSE x \in T : \A y \in T : x >= y
  BY DEF Max
<1>5. \E x \in T : \A y \in T : x >= y
  BY <1>2, <1>3
<1>6. Max(T) \in T /\ \A y \in T : Max(T) >= y
  BY <1>4, <1>5
<1> QED BY <1>6

(* What a stretch of a sequence is. *)
LEMMA StretchIs ==
  ASSUME NEW s \in Seq(AnyByte), NEW a \in Nat, NEW z \in Nat,
         a + 1 <= z + 1, z <= Len(s)
  PROVE  /\ SubSeq(s, a + 1, z) \in Seq(AnyByte)
         /\ Len(SubSeq(s, a + 1, z)) = z - a
         /\ \A k \in 1..(z - a) : SubSeq(s, a + 1, z)[k] = s[a + k]
<1>1. \A k \in (a + 1)..z : s[k] \in AnyByte
  <2>1. \A k \in (a + 1)..z : k \in 1..Len(s)
    BY LenProperties
  <2> QED BY <2>1, ElementOfSeq
<1> DEFINE b == SubSeq(s, a + 1, z)
<1>2. /\ b \in Seq(AnyByte)
      /\ Len(b) = IF a + 1 <= z THEN z - (a + 1) + 1 ELSE 0
      /\ \A k \in 1..(z - (a + 1) + 1) : b[k] = s[(a + 1) + k - 1]
  <2>1. a + 1 \in Int /\ z \in Int
    OBVIOUS
  <2> QED BY <1>1, <2>1, SubSeqProperties
<1> HIDE DEF b
<1>3. Len(b) = z - a
  BY <1>2
<1>4. \A k \in 1..(z - a) : k \in 1..(z - (a + 1) + 1) /\ (a + 1) + k - 1 = a + k
  OBVIOUS
<1>5. \A k \in 1..(z - a) : b[k] = s[a + k]
  BY <1>2, <1>4
<1> QED BY <1>2, <1>3, <1>5 DEF b

(* The bytes of the unit being collected and of the register are the end   *)
(* of what was seen, from the last cut on.                                 *)
LEMMA HeldIsTail ==
  ASSUME IInv, sync
  PROVE  /\ Len(cuts) \in 1..Len(cuts) /\ cuts[Len(cuts)] \in Nat
         /\ cuts[Len(cuts)] + 4 <= Len(seen)
         /\ StartCodeAt(seen, cuts[Len(cuts)] + 1)
         /\ buffer \o Tail(previous_state)
              = SubSeq(seen, cuts[Len(cuts)] + 1, Len(seen))
<1>1. /\ cuts \in Seq(Nat) /\ Len(cuts) \in Nat /\ seen \in Seq(AnyByte)
      /\ Len(seen) \in Nat
  BY LenProperties DEF IInv, ViewerTypeOK
<1>2. PICK n \in Nat : n = Len(seen)
  BY <1>1
<1>3. PICK c \in Nat :
        /\ c = cuts[Len(cuts)] /\ Len(cuts) \in 1..Len(cuts)
        /\ c + 4 <= n /\ buffer = SubSeq(seen, c + 1, n - 3)
  <2>1. Len(cuts) = Len(packets) + 1 /\ cuts[Len(cuts)] + 4 <= Len(seen)
        /\ buffer = SubSeq(seen, cuts[Len(cuts)] + 1, Len(seen) - 3)
    BY DEF IInv, PacketsTileStream, BufferIsTail
  <2>2. Len(packets) \in Nat
    BY LenProperties DEF IInv, ViewerTypeOK
  <2>3. Len(cuts) \in 1..Len(cuts)
    BY <1>1, <2>1, <2>2
  <2>4. cuts[Len(cuts)] \in Nat
    BY <1>1, <2>3, ElementOfSeq
  <2> QED BY <1>2, <2>1, <2>3, <2>4
<1>4. previous_state = <<seen[n - 3], seen[n - 2], seen[n - 1], seen[n]>>
  BY <1>2 DEF IInv, PacketsTileStream, RegisterIsTail
<1>5. \A k \in 1..n : seen[k] \in AnyByte
  BY <1>1, <1>2, ElementOfSeq
<1> DEFINE t == <<seen[n - 2], seen[n - 1], seen[n]>>
           b == SubSeq(seen, c + 1, n)
<1>6. Tail(previous_state) = t
  BY <1>4
<1>7. n - 2 \in 1..n /\ n - 1 \in 1..n /\ n \in 1..n
  BY <1>3
<1>8. t \in Seq(AnyByte) /\ Len(t) = 3
      /\ t[1] = seen[n - 2] /\ t[2] = seen[n - 1] /\ t[3] = seen[n]
  BY <1>5, <1>7
<1>9. /\ buffer \in Seq(AnyByte) /\ Len(buffer) = n - 3 - c
      /\ \A k \in 1..(n - 3 - c) : buffer[k] = seen[c + k]
  <2>1. PICK y \in Nat : y = n - 3 /\ c + 1 <= y + 1 /\ y <= n /\ y - c = n - 3 - c
    BY <1>3
  <2>2. /\ SubSeq(seen, c + 1, y) \in Seq(AnyByte)
        /\ Len(SubSeq(seen, c + 1, y)) = y - c
        /\ \A k \in 1..(y - c) : SubSeq(seen, c + 1, y)[k] = seen[c + k]
    BY <1>1, <1>2, <2>1, StretchIs
  <2>3. buffer = SubSeq(seen, c + 1, y)
    BY <1>3, <2>1
  <2> QED BY <2>1, <2>2, <2>3
<1>10. /\ b \in Seq(AnyByte) /\ Len(b) = n - c
       /\ \A k \in 1..(n - c) : b[k] = seen[c + k]
  <2>1. c + 1 <= n + 1
    BY <1>3
  <2> QED BY <1>1, <1>2, <2>1, StretchIs
<1> HIDE DEF t, b
<1>11. /\ buffer \o t \in Seq(AnyByte) /\ Len(buffer \o t) = n - c
       /\ \A k \in 1..(n - c) : (buffer \o t)[k] =
            IF k <= n - 3 - c THEN buffer[k] ELSE t[k - (n - 3 - c)]
  <2>1. /\ buffer \o t \in Seq(AnyByte) /\ Len(buffer \o t) = Len(buffer) + Len(t)
        /\ \A k \in 1..(Len(buffer) + Len(t)) : (buffer \o t)[k] =
             IF k <= Len(buffer) THEN buffer[k] ELSE t[k - Len(buffer)]
    BY <1>8, <1>9, ConcatProperties
  <2>2. Len(buffer) + Len(t) = n - c
    BY <1>8, <1>9
  <2> QED BY <1>9, <2>1, <2>2
<1>12. ASSUME NEW k \in 1..(n - c) PROVE (buffer \o t)[k] = b[k]
  <2>1. CASE k <= n - 3 - c
    <3>1. k \in 1..(n - 3 - c)
      BY <2>1
    <3> QED BY <1>9, <1>10, <1>11, <2>1, <3>1
  <2>2. CASE ~(k <= n - 3 - c)
    <3>1. (buffer \o t)[k] = t[k - (n - 3 - c)] /\ b[k] = seen[c + k]
      BY <1>10, <1>11, <2>2
    <3>2. \/ k - (n - 3 - c) = 1 /\ c + k = n - 2
          \/ k - (n - 3 - c) = 2 /\ c + k = n - 1
          \/ k - (n - 3 - c) = 3 /\ c + k = n
      BY <2>2
    <3> QED BY <1>8, <3>1, <3>2
  <2> QED BY <2>1, <2>2
<1>13. buffer \o t = b
  BY <1>10, <1>11, <1>12, SeqEqual
<1>14. StartCodeAt(seen, c + 1)
  BY <1>3 DEF IInv, SplitExactlyAtStartCodes, CutsAtStartCodes
<1> QED BY <1>2, <1>3, <1>6, <1>13, <1>14 DEF b

-----------------------------------------------------------------------------
(* The last start code of a frame. *)
LastStart(d) == Max({p \in DOMAIN d : StartCodeAt(d, p)})

(* A frame that begins with a start code, its length, its last start code. *)
IsLast(d, l, m) == Len(d) = l /\ StartCodeAt(d, 1) /\ m = LastStart(d)

LEMMA LastMark ==
  ASSUME NEW d \in Seq(AnyByte), NEW l \in Nat, l = Len(d), StartCodeAt(d, 1)
  PROVE  \E m \in Nat :
           /\ m = LastStart(d) /\ m \in 1..l /\ StartCodeAt(d, m) /\ m + 3 <= l
           /\ \A p \in 1..l : StartCodeAt(d, p) => p <= m
<1> DEFINE T == {p \in DOMAIN d : StartCodeAt(d, p)}
<1>1. DOMAIN d = 1..l /\ 1 \in 1..l
  BY LenProperties DEF StartCodeAt
<1>2. T \in SUBSET (1..l) /\ T # {}
  BY <1>1
<1>3. PICK m \in Nat : m = LastStart(d) /\ m \in T /\ \A t \in T : t <= m
  <2>1. LastStart(d) = Max(T)
    BY DEF LastStart
  <2> HIDE DEF T
  <2>2. Max(T) \in T /\ \A t \in T : t <= Max(T)
    BY <1>2, GreatestMember
  <2>3. \A x \in T : x \in Nat
    BY <1>2
  <2> QED BY <2>1, <2>2, <2>3
<1>4. m \in 1..l /\ StartCodeAt(d, m) /\ m + 3 <= l
      /\ \A p \in 1..l : StartCodeAt(d, p) => p <= m
  BY <1>1, <1>3 DEF StartCodeAt
<1> QED BY <1>3, <1>4

(* The last NAL of a frame. *)
LEMMA LastNalIs ==
  ASSUME NEW d \in Seq(AnyByte), NEW l \in Nat, NEW m \in Nat
  PROVE  IsLast(d, l, m) /\ m \in 1..l =>
           /\ LastNal(d) \in Seq(AnyByte) /\ Len(LastNal(d)) = l - m + 1
           /\ \A k \in 1..(l - m + 1) : LastNal(d)[k] = d[m - 1 + k]
<1>1. SUFFICES ASSUME IsLast(d, l, m), m \in 1..l
               PROVE  /\ LastNal(d) \in Seq(AnyByte) /\ Len(LastNal(d)) = l - m + 1
                      /\ \A k \in 1..(l - m + 1) : LastNal(d)[k] = d[m - 1 + k]
  OBVIOUS
<1>2. LastNal(d) = SubSeq(d, m, l)
  BY <1>1 DEF LastNal, LastStart, IsLast
<1>3. PICK y \in Nat : y = m - 1 /\ y + 1 = m /\ y + 1 <= l + 1 /\ l - y = l - m + 1
  <2>1. m - 1 \in Nat /\ (m - 1) + 1 = m /\ (m - 1) + 1 <= l + 1
        /\ l - (m - 1) = l - m + 1
    BY <1>1
  <2> QED BY <2>1
<1>4. /\ SubSeq(d, y + 1, l) \in Seq(AnyByte)
      /\ Len(SubSeq(d, y + 1, l)) = l - y
      /\ \A k \in 1..(l - y) : SubSeq(d, y + 1, l)[k] = d[y + k]
  <2>1. l <= Len(d) /\ y + 1 <= l + 1
    BY <1>1, <1>3 DEF IsLast
  <2> QED BY <2>1, StretchIs
<1> QED BY <1>2, <1>3, <1>4

(* A stretch of the stream that ends where a frame ends and begins at its  *)
(* last start code is its last NAL, one that begins at a bare start code   *)
(* right in front of it that start code and the last NAL.                  *)
LEMMA Offsets ==
  ASSUME NEW n \in Nat, NEW l \in Nat, NEW s \in Nat, NEW m \in Nat, NEW c \in Nat,
         s + l = n, m \in 1..l
  PROVE  /\ c = s + m - 1 =>
              /\ c + 1 <= n + 1 /\ n - c = l - m + 1
              /\ \A k \in 1..(l - m + 1) :
                   c + k = s + (m - 1 + k) /\ m - 1 + k \in 1..l
         /\ c = s + m - 5 =>
              /\ c + 1 <= n + 1 /\ n - c = l - m + 5
              /\ \A k \in 1..(l - m + 5) :
                   ~(k <= 4) => \E i \in 1..(l - m + 1) :
                                  /\ i = k - 4
                                  /\ c + k = s + (m - 1 + i) /\ m - 1 + i \in 1..l
<1>1. ASSUME c = s + m - 1
      PROVE  /\ c + 1 <= n + 1 /\ n - c = l - m + 1
             /\ \A k \in 1..(l - m + 1) :
                  c + k = s + (m - 1 + k) /\ m - 1 + k \in 1..l
  BY <1>1
<1>2. ASSUME c = s + m - 5
      PROVE  /\ c + 1 <= n + 1 /\ n - c = l - m + 5
             /\ \A k \in 1..(l - m + 5) :
                  ~(k <= 4) => \E i \in 1..(l - m + 1) :
                                 /\ i = k - 4
                                 /\ c + k = s + (m - 1 + i) /\ m - 1 + i \in 1..l
  <2>1. c + 1 <= n + 1 /\ n - c = l - m + 5
    BY <1>2
  <2>2. ASSUME NEW k \in 1..(l - m + 5), ~(k <= 4)
        PROVE  \E i \in 1..(l - m + 1) :
                 i = k - 4 /\ c + k = s + (m - 1 + i) /\ m - 1 + i \in 1..l
    <3>1. k - 4 \in 1..(l - m + 1)
      BY <2>2
    <3>2. c + k = s + (m - 1 + (k - 4)) /\ m - 1 + (k - 4) \in 1..l
      BY <1>2, <2>2
    <3> QED BY <3>1, <3>2
  <2> QED BY <2>1, <2>2
<1> QED BY <1>1, <1>2

LEMMA StretchOfLastNal ==
  ASSUME NEW x \in Seq(AnyByte), NEW d \in Seq(AnyByte),
         NEW n \in Nat, NEW l \in Nat, NEW s \in Nat, NEW m \in Nat, NEW c \in Nat
  PROVE  /\ Len(x) = n /\ IsLast(d, l, m) /\ s + l = n /\ StartCodeAt(x, c + 1)
         /\ \A j \in 1..l : x[s + j] = d[j]
         /\ c = s + m - 1 \/ c = s + m - 5
         => SubSeq(x, c + 1, n) \in {LastNal(d), StartCode \o LastNal(d)}
<1>1. SUFFICES ASSUME Len(x) = n, IsLast(d, l, m), s + l = n,
                      StartCodeAt(x, c + 1),
                      \A j \in 1..l : x[s + j] = d[j],
                      c = s + m - 1 \/ c = s + m - 5
               PROVE  SubSeq(x, c + 1, n) \in {LastNal(d), StartCode \o LastNal(d)}
  OBVIOUS
<1> DEFINE a == LastNal(d)
           b == SubSeq(x, c + 1, n)
           h == StartCode
<1>0. s + l = n
  BY <1>1
<1>2. m \in 1..l
  <2>1. PICK w \in Nat : w = LastStart(d) /\ w \in 1..l
    BY <1>1, LastMark DEF IsLast
  <2> QED BY <1>1, <2>1 DEF IsLast
<1>3. /\ a \in Seq(AnyByte) /\ Len(a) = l - m + 1
      /\ \A k \in 1..(l - m + 1) : a[k] = d[m - 1 + k]
  <2>1. IsLast(d, l, m)
    BY <1>1
  <2> HIDE DEF a
  <2>2. /\ LastNal(d) \in Seq(AnyByte) /\ Len(LastNal(d)) = l - m + 1
        /\ \A k \in 1..(l - m + 1) : LastNal(d)[k] = d[m - 1 + k]
    BY <1>2, <2>1, LastNalIs
  <2> QED BY <2>2 DEF a
<1> HIDE DEF a, b
<1>4. PICK u \in Nat : u = l - m + 1
  BY <1>2
<1>5. CASE c = s + m - 1
  <2>1. /\ c + 1 <= n + 1 /\ n - c = u
        /\ \A k \in 1..u : c + k = s + (m - 1 + k) /\ m - 1 + k \in 1..l
    <3>1. /\ c + 1 <= n + 1 /\ n - c = l - m + 1
          /\ \A k \in 1..(l - m + 1) :
               c + k = s + (m - 1 + k) /\ m - 1 + k \in 1..l
      BY <1>0, <1>2, <1>5, Offsets
    <3> QED BY <1>4, <3>1
  <2>2. b \in Seq(AnyByte) /\ Len(b) = u /\ \A k \in 1..u : b[k] = x[c + k]
    <3>1. c + 1 <= n + 1 /\ n - c = u
      BY <2>1
    <3>2. /\ b \in Seq(AnyByte) /\ Len(b) = n - c
          /\ \A k \in 1..(n - c) : b[k] = x[c + k]
      BY <1>1, <3>1, StretchIs DEF b
    <3> QED BY <3>1, <3>2
  <2>3. ASSUME NEW k \in 1..u PROVE b[k] = a[k]
    <3>1. PICK j \in 1..l : j = m - 1 + k /\ c + k = s + j
      BY <2>1
    <3>2. b[k] = x[s + j]
      BY <2>2, <3>1
    <3>3. x[s + j] = d[j]
      BY <1>1
    <3>4. a[k] = d[j]
      BY <1>3, <1>4, <3>1
    <3> QED BY <3>2, <3>3, <3>4
  <2>4. a \in Seq(AnyByte) /\ Len(a) = u
    BY <1>3, <1>4
  <2>5. b = a
    BY <2>2, <2>3, <2>4, SeqEqual
  <2> QED BY <2>5 DEF a, b
<1>6. CASE c = s + m - 5
  <2>0. PICK v \in Nat : v = u + 4 /\ v = l - m + 5
    BY <1>2, <1>4
  <2>1. /\ c + 1 <= n + 1 /\ n - c = v
        /\ \A k \in 1..v :
             ~(k <= 4) => \E i \in 1..u :
                            i = k - 4 /\ c + k = s + (m - 1 + i) /\ m - 1 + i \in 1..l
    <3>1. /\ c + 1 <= n + 1 /\ n - c = l - m + 5
          /\ \A k \in 1..(l - m + 5) :
               ~(k <= 4) => \E i \in 1..(l - m + 1) :
                              /\ i = k - 4
                              /\ c + k = s + (m - 1 + i) /\ m - 1 + i \in 1..l
      BY <1>0, <1>2, <1>6, Offsets
    <3> QED BY <1>4, <2>0, <3>1
  <2>2. b \in Seq(AnyByte) /\ Len(b) = v /\ \A k \in 1..v : b[k] = x[c + k]
    <3>1. c + 1 <= n + 1 /\ n - c = v
      BY <2>1
    <3>2. /\ b \in Seq(AnyByte) /\ Len(b) = n - c
          /\ \A k \in 1..(n - c) : b[k] = x[c + k]
      BY <1>1, <3>1, StretchIs DEF b
    <3> QED BY <3>1, <3>2
  <2>3. h \in Seq(AnyByte) /\ Len(h) = 4 /\ h[1] = 0 /\ h[2] = 0 /\ h[3] = 0 /\ h[4] = 1
    BY ByteAssumption DEF StartCode, AnyByte
  <2> HIDE DEF h
  <2>4. a \in Seq(AnyByte) /\ Len(a) = u
    BY <1>3, <1>4
  <2>5. /\ h \o a \in Seq(AnyByte) /\ Len(h \o a) = v
        /\ \A k \in 1..v : (h \o a)[k] = IF k <= 4 THEN h[k] ELSE a[k - 4]
    <3>1. /\ h \o a \in Seq(AnyByte) /\ Len(h \o a) = Len(h) + Len(a)
          /\ \A k \in 1..(Len(h) + Len(a)) :
               (h \o a)[k] = IF k <= Len(h) THEN h[k] ELSE a[k - Len(h)]
      BY <2>3, <2>4, ConcatProperties
    <3>2. Len(h) + Len(a) = v
      BY <2>0, <2>3, <2>4
    <3> QED BY <2>3, <3>1, <3>2
  <2>6. ASSUME NEW k \in 1..v PROVE b[k] = (h \o a)[k]
    <3>1. CASE k <= 4
      <4>1. /\ x[c + 1] = 0 /\ x[c + 1 + 1] = 0 /\ x[c + 1 + 2] = 0 /\ x[c + 1 + 3] = 1
        BY <1>1 DEF StartCodeAt
      <4>2. \/ k = 1 /\ c + k = c + 1
            \/ k = 2 /\ c + k = c + 1 + 1
            \/ k = 3 /\ c + k = c + 1 + 2
            \/ k = 4 /\ c + k = c + 1 + 3
        BY <3>1
      <4>3. b[k] = x[c + k] /\ (h \o a)[k] = h[k]
        BY <2>2, <2>5, <3>1
      <4> QED BY <2>3, <4>1, <4>2, <4>3
    <3>2. CASE ~(k <= 4)
      <4>1. PICK i \in 1..u, j \in 1..l : i = k - 4 /\ j = m - 1 + i /\ c + k = s + j
        BY <2>1, <3>2
      <4>2. b[k] = x[s + j]
        BY <2>2, <4>1
      <4>3. (h \o a)[k] = a[i]
        BY <2>5, <3>2, <4>1
      <4>4. x[s + j] = d[j]
        BY <1>1
      <4>5. a[i] = d[j]
        BY <1>3, <1>4, <4>1
      <4> QED BY <4>2, <4>3, <4>4, <4>5
    <3> QED BY <3>1, <3>2
  <2>7. b = h \o a
    BY <2>2, <2>5, <2>6, SeqEqual
  <2> QED BY <2>7 DEF a, b, h
<1> QED BY <1>1, <1>5, <1>6

(* The last cut is at the last start code of the last frame, or at a bare  *)
(* start code right in front of it.                                        *)
LEMMA LastCutAt ==
  ASSUME FramesInv, sync,
         NEW d \in Seq(AnyByte), NEW n \in Nat, NEW l \in Nat, NEW s \in Nat,
         NEW m \in Nat, NEW c \in Nat
  PROVE  /\ Stream = seen /\ Len(seen) = n /\ IsLast(d, l, m) /\ s + l = n
         /\ IsAt(d, s) /\ c = cuts[Len(cuts)]
         => c = s + m - 1 \/ c = s + m - 5
<1>p. SUFFICES ASSUME Stream = seen, Len(seen) = n, IsLast(d, l, m), s + l = n,
                      IsAt(d, s), c = cuts[Len(cuts)]
               PROVE  c = s + m - 1 \/ c = s + m - 5
  OBVIOUS
<1>s. /\ Stream = seen /\ Len(seen) = n /\ Len(d) = l /\ s + l = n
      /\ StartCodeAt(d, 1) /\ IsAt(d, s)
      /\ m = LastStart(d) /\ c = cuts[Len(cuts)]
  BY <1>p DEF IsLast
<1>1. /\ m \in 1..l /\ StartCodeAt(d, m) /\ m + 3 <= l
      /\ \A p \in 1..l : StartCodeAt(d, p) => p <= m
  BY <1>s, LastMark
<1>2. cuts \in Seq(Nat) /\ seen \in Seq(AnyByte)
  BY DEF FramesInv, IInv, ViewerTypeOK
<1>3. PICK q \in Nat :
        /\ q = Len(cuts) /\ q \in 1..q /\ c = cuts[q]
        /\ c + 4 <= n /\ StartCodeAt(seen, c + 1)
  <2>1. Len(cuts) \in Nat
    BY <1>2, LenProperties
  <2> QED BY <1>s, <2>1, HeldIsTail DEF FramesInv
<1>4. PICK k \in 1..q : s + m = cuts[k] + 1 \/ s + m = cuts[k] + 5
  <2>1. StartCodeAt(seen, s + m)
    BY <1>s, <1>1, <1>2, MarkOfFrame
  <2>2. s + m \in 1..n
    BY <1>s, <1>1
  <2> QED BY <1>s, <1>3, <2>1, <2>2
          DEF FramesInv, IInv, SplitExactlyAtStartCodes, NoStartCodeMissed
<1>5. PICK e \in Nat : e = cuts[k]
  BY <1>2, <1>3, <1>4, ElementOfSeq
<1>6. c + 1 <= s + m
  <2> SUFFICES ASSUME s + m < c + 1 PROVE FALSE
    OBVIOUS
  <2>1. PICK p \in 1..l : s + p = c + 1 /\ p + 3 <= l /\ m < p
    <3>1. s + l = n /\ c + 4 <= n /\ 1 <= m /\ s + m < c + 1
      BY <1>s, <1>1, <1>3
    <3>2. PICK p \in Nat : p = c + 1 - s
      BY <3>1
    <3>3. p \in 1..l /\ s + p = c + 1 /\ p + 3 <= l /\ m < p
      BY <3>1, <3>2
    <3> QED BY <3>3
  <2>2. StartCodeAt(d, p)
    BY <1>s, <1>2, <1>3, <2>1, MarkOfFrame
  <2> QED BY <1>1, <2>1, <2>2
<1>7. k = q \/ (k < q /\ e + 4 < c)
  <2> SUFFICES ASSUME k # q PROVE k < q /\ e + 4 < c
    OBVIOUS
  <2>1. k \in Nat /\ k < q /\ k + 1 \in 1..q
    BY <1>3
  <2>2. Len(cuts) = Len(packets) + 1 /\ Len(packets) \in Nat
    BY LenProperties
       DEF FramesInv, IInv, ViewerTypeOK, PacketsTileStream, BufferIsTail
  <2>3. k \in 1..Len(packets)
    BY <1>3, <2>1, <2>2
  <2>4. e + 4 < cuts[k + 1]
    BY <1>5, <2>3 DEF FramesInv, IInv, PacketsTileStream, PacketsAreStretches
  <2>5. PICK f \in Nat : f = cuts[k + 1]
    BY <1>2, <1>3, <2>1, ElementOfSeq
  <2>6. k + 1 = q \/ k + 1 < q
    BY <2>1
  <2>7. f = c \/ f < c
    BY <1>3, <2>1, <2>5, <2>6 DEF FramesInv, CutsInOrder
  <2> QED BY <2>1, <2>4, <2>5, <2>7
<1>8. s + m = e + 1 \/ s + m = e + 5
  BY <1>4, <1>5
<1>9. k = q => c = e
  BY <1>3, <1>5
<1>10. c = e \/ e + 4 < c
  BY <1>7, <1>9
<1>11. \A p, r, t \in Nat :
         p + 1 <= r /\ (r = t + 1 \/ r = t + 5) /\ (p = t \/ t + 4 < p)
           => p = r - 1 \/ p = r - 5
  OBVIOUS
<1>12. PICK r \in Nat : r = s + m
  OBVIOUS
<1>13. c = r - 1 \/ c = r - 5
  BY <1>6, <1>8, <1>10, <1>11, <1>12
<1> QED BY <1>12, <1>13

(* What a viewer that has caught up holds. *)
LEMMA CaughtUpHoldsLastNal == FramesInv => LastNalHeldBack
<1> SUFFICES ASSUME FramesInv, Player # "viewer_udp_ocv", ~eof, pipe = <<>>,
                    Filled # {}, StartCodeAt(LastFrame, 1)
             PROVE  buffer \o Tail(previous_state)
                      \in {LastNal(LastFrame), StartCode \o LastNal(LastFrame)}
  BY DEF LastNalHeldBack
<1>1. /\ arrived \in Seq(Seq(Byte)) /\ Len(arrived) \in Nat
      /\ seen \in Seq(AnyByte) /\ Len(seen) \in Nat
  BY StreamBytes
<1>2. Stream = seen
  BY <1>1, ConcatEmptySeq DEF Stream
<1>3. PICK n \in Nat : n = Len(seen)
  BY <1>1
<1>4. PICK i \in Filled : i = Max(Filled) /\ \A k \in Filled : k <= i
  <2>1. Filled \in SUBSET (1..Len(arrived))
    BY <1>1, LenProperties DEF Filled
  <2>2. Max(Filled) \in Filled /\ \A k \in Filled : k <= Max(Filled)
    BY <1>1, <2>1, GreatestMember
  <2> QED BY <2>2
<1>5. PICK d \in Seq(AnyByte), l \in Nat, s \in Nat :
        /\ d = arrived[i] /\ l = Len(d) /\ s = starts[i]
        /\ s + l = n /\ IsAt(d, s) /\ d = LastFrame
  <2>1. i \in DOMAIN arrived
    BY <1>4 DEF Filled
  <2>2. starts[i] + Len(arrived[i]) = Len(Stream)
    BY <1>4 DEF FramesInv, StreamPlaced, LastAtEnd
  <2>3. /\ starts[i] \in Nat /\ arrived[i] \in Seq(AnyByte)
        /\ Len(arrived[i]) \in Nat /\ IsAt(arrived[i], starts[i])
    BY <2>1, PlaceOf
  <2> QED BY <1>2, <1>3, <1>4, <2>2, <2>3 DEF LastFrame
<1>6. StartCodeAt(d, 1)
  BY <1>5
<1>7. PICK m \in Nat :
        m = LastStart(d) /\ m \in 1..l /\ StartCodeAt(d, m) /\ m + 3 <= l
  BY <1>5, <1>6, LastMark
<1>8. \A j \in 1..l : seen[s + j] = d[j]
  BY <1>2, <1>5 DEF IsAt
<1>9. sync
  <2>1. StartCodeAt(seen, s + m)
    BY <1>1, <1>2, <1>5, <1>7, MarkOfFrame
  <2>2. s + m \in 1..n
    BY <1>5, <1>7
  <2>3. Len(cuts) # 0
    BY <1>3, <2>1, <2>2
       DEF FramesInv, IInv, SplitExactlyAtStartCodes, NoStartCodeMissed
  <2>4. cuts # <<>>
    BY <2>3
  <2>5. sync \in BOOLEAN
    BY DEF FramesInv, IInv, ViewerTypeOK
  <2> QED BY <2>4, <2>5 DEF FramesInv, IInv, PacketsTileStream, BufferIsTail
<1>10. PICK c \in Nat :
         /\ c = cuts[Len(cuts)] /\ StartCodeAt(seen, c + 1)
         /\ buffer \o Tail(previous_state) = SubSeq(seen, c + 1, n)
  BY <1>3, <1>9, HeldIsTail DEF FramesInv
<1>11. c = s + m - 1 \/ c = s + m - 5
  <2>1. Len(seen) = n /\ IsLast(d, l, m) /\ s + l = n /\ IsAt(d, s)
        /\ c = cuts[Len(cuts)]
    BY <1>3, <1>5, <1>6, <1>7, <1>10 DEF IsLast
  <2> QED BY <1>2, <1>9, <2>1, LastCutAt
<1>12. SubSeq(seen, c + 1, n) \in {LastNal(d), StartCode \o LastNal(d)}
  <2>1. /\ Len(seen) = n /\ IsLast(d, l, m) /\ s + l = n
        /\ StartCodeAt(seen, c + 1)
    BY <1>3, <1>5, <1>6, <1>7, <1>10 DEF IsLast
  <2> QED BY <1>1, <1>8, <1>11, <2>1, StretchOfLastNal
<1> QED BY <1>5, <1>10, <1>12

-----------------------------------------------------------------------------
(* The state of the four compositions is well typed (encoder_udp's main,   *)
(* encoder_h264's main, viewer_udp_ocv and viewer_stdin).                  *)
THEOREM TypeCorrect == Spec => []TypeOK
<1>1. FramesInv => TypeOK
  BY DEF FramesInv
<1> QED BY <1>1, InitFramesInv, NextFramesInv, PTL DEF Spec

(* The stream is cut where a frame begins, whatever the network loses,     *)
(* duplicates or reorders and whatever the buffer of mode READ holds       *)
(* behind a frame; only a bare start code can come to stand in front of    *)
(* it.  No player is given anything that was not sent (encoder_udp's       *)
(* sendto, viewer_udp_ocv, encoder_h264's fwrite).                         *)
THEOREM FramesNotSpliced == Spec => []LossNeverSplices
<1>1. FramesInv => LossNeverSplices
  <2> SUFFICES ASSUME FramesInv PROVE LossNeverSplices
    OBVIOUS
  <2>1. \A i \in Whole :
          starts[i] + 4 <= Len(seen) =>
            \E cut \in ToSet(cuts) :
              \/ cut = starts[i]
              \/ cut = starts[i] - 4 /\ cut \notin ToSet(starts)
    BY FrameCut
  <2> QED BY <2>1 DEF FramesInv, SentOnly, Delivers, DecodedOnly, LossNeverSplices
<1> QED BY <1>1, InitFramesInv, NextFramesInv, PTL DEF Spec

(* A viewer that has caught up holds back the last NAL of the last frame   *)
(* that arrived, with at most a bare start code in front of it             *)
(* (x264_destreamer::input, fed by encoder_udp through netcat or by        *)
(* encoder_h264).                                                          *)
THEOREM LastNalHeld == Spec => []LastNalHeldBack
BY CaughtUpHoldsLastNal, InitFramesInv, NextFramesInv, PTL DEF Spec
=============================================================================
