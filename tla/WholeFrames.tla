----------------------------- MODULE WholeFrames -----------------------------
(***************************************************************************)
(* The encoders that send each frame as it is, start code and all, and     *)
(* their players:                                                          *)
(*                                                                         *)
(*   encoder_udp  ~~UDP~~> viewer_udp_ocv                                  *)
(*   encoder_udp  ~~UDP~~> netcat | viewer_stdin                           *)
(*   encoder_h264 | viewer_stdin                                           *)
(*                                                                         *)
(* encoder_udp sends the NALs of an encoded frame as one datagram and      *)
(* exits when sendto fails.  The network may lose, duplicate and reorder   *)
(* datagrams.  netcat writes each datagram that arrives to the pipe of     *)
(* viewer_stdin; viewer_udp_ocv gives it straight to its decoder, cut down *)
(* to MAXRECVSTRING bytes.                                                 *)
(*                                                                         *)
(* encoder_h264 writes what the camera encoded to the pipe, between        *)
(* LockFrame and UnlockFrame.  In the streaming modes the driver says how  *)
(* long a frame is.  In mode READ LockFrame ignores what read returned and *)
(* gives the whole buffer as the frame: behind a short frame are the bytes *)
(* that earlier frames left there (image), or, at first, whatever the      *)
(* memory held that new[] returned.  The camera's frames are of any form:  *)
(* encoder_h264 also takes H264_NO_SC and MJPEG, which have no start code. *)
(*                                                                         *)
(* History variables: sent is what encoder_udp sent, or the camera of      *)
(* encoder_h264 delivered; arrived what the player received, or was        *)
(* written to its pipe; starts the length of seen and pipe together just   *)
(* before each arrival; decoded what viewer_udp_ocv gave its decoder.      *)
(***************************************************************************)
EXTENDS Destreamer, SequencesExt

CONSTANTS Frames,          \* what x264 may produce for a frame: its NALs
          CameraFrames,    \* what the camera of encoder_h264 may deliver
          SizeImage,       \* the length of a frame buffer
          Memory,          \* what a frame buffer may hold before its first use
          MAXRECVSTRING,   \* how much of a datagram viewer_udp_ocv receives
          MaxDatagram,     \* the longest datagram that can be sent
          MaxFrames,       \* bound: how many frames the camera delivers
          MaxInFlight      \* bound: how many datagrams are under way

(* x264's output is empty or begins with a start code that a NAL follows.  *)
(* Nothing is assumed of the bytes of a camera or of fresh memory.         *)
ASSUME FramesAssumption ==
  /\ \A buf \in Frames :
       /\ buf \in Seq(Byte)
       /\ buf # <<>> => StartCodeAt(buf, 1) /\ Len(buf) > 4
  /\ \A buf \in CameraFrames : buf \in Seq(Byte) /\ Len(buf) <= SizeImage
  /\ \A buf \in Memory : buf \in Seq(Byte) /\ Len(buf) = SizeImage
ASSUME LimitsAssumption ==
  /\ MAXRECVSTRING \in Nat \ {0} /\ MaxDatagram \in Nat /\ SizeImage \in Nat
  /\ MaxFrames \in Nat /\ MaxInFlight \in Nat \ {0}

(* Who sends, how it takes frames from the camera, and who plays them.     *)
(* For encoder_udp the mode makes no difference: its frames are raw images *)
(* of one size, and what it sends is x264's.                               *)
Paths == {<<"encoder_udp", "MMAP", "viewer_udp_ocv">>,
          <<"encoder_udp", "MMAP", "netcat">>,
          <<"encoder_h264", "MMAP", "viewer_stdin">>,
          <<"encoder_h264", "READ", "viewer_stdin">>}

VARIABLES path,      \* the programs at work
          pc,        \* where the encoder's loop is
          image,     \* mode READ: the bytes of the frame buffer, mBuffers[0]
          listening, \* the player of the datagrams runs
          net,       \* the datagrams under way
          pipe,      \* on the way into viewer_stdin
          decoded,   \* history: what viewer_udp_ocv decodes
          sent,      \* history: the frames sent
          arrived,   \* history: what the player was given
          starts     \* history: where in the stream each of these begins

encoderVars == <<pc, image, sent>>
channelVars == <<listening, net, pipe, decoded, arrived, starts>>
vars == <<viewerVars, path, encoderVars, channelVars>>

Sender == path[1]
mIO == path[2]
Player == path[3]

-----------------------------------------------------------------------------
(* encoder_udp: LockFrame returns, the image is scaled, UnlockFrame gives  *)
(* it back; an exception of either ends the encoder.                       *)
Capture ==
  /\ Sender = "encoder_udp"
  /\ pc = "capture"
  /\ Len(sent) < MaxFrames
  /\ pc' = "encode"
  /\ UNCHANGED <<viewerVars, path, image, sent, channelVars>>

(* An exception of LockFrame or, for encoder_h264 after the frame is       *)
(* written, of UnlockFrame.  Nothing catches it, in either program.        *)
CaptureFails ==
  /\ pc = "capture"
  /\ pc' = "dead"
  /\ UNCHANGED <<viewerVars, path, image, sent, channelVars>>

(* What is sent: the whole buffer.  The mutant is the code that is         *)
(* commented out, which leaves the first start code to the receiver.       *)
Datagram_Headless(buf) == SubSeq(buf, 5, Len(buf))
Datagram(buf) == buf

(* sendto: the datagram is lost, under way, or twice under way.  With no   *)
(* player listening it is always lost.                                     *)
Send(buf) ==
  /\ pc = "encode"
  /\ Len(Datagram(buf)) <= MaxDatagram
  /\ pc' = "capture"
  /\ sent' = Append(sent, Datagram(buf))
  /\ \E copies \in 0..2 :
       /\ Len(net) + copies <= (IF listening THEN MaxInFlight ELSE 0)
       /\ net' = net \o [i \in 1..copies |-> Datagram(buf)]
  /\ UNCHANGED <<viewerVars, path, image, listening, pipe, decoded, arrived,
                 starts>>

(* sendto fails: the datagram is too long, or the network is down. *)
SendFails ==
  /\ pc = "encode"
  /\ pc' = "dead"
  /\ UNCHANGED <<viewerVars, path, image, sent, channelVars>>

(* recvfrom with a buffer of MAXRECVSTRING bytes. *)
Received(d) == IF Len(d) <= MAXRECVSTRING THEN d ELSE SubSeq(d, 1, MAXRECVSTRING)

(* Any of the datagrams under way arrives next. *)
Arrive(i) ==
  /\ listening
  /\ net' = RemoveAt(net, i)
  /\ arrived' = Append(arrived, net[i])
  /\ starts' = Append(starts, Len(seen) + Len(pipe))
  /\ IF Player = "netcat"
       THEN pipe' = pipe \o net[i] /\ UNCHANGED decoded
       ELSE decoded' = Append(decoded, Received(net[i])) /\ UNCHANGED pipe
  /\ UNCHANGED <<viewerVars, path, encoderVars, listening>>

(* DieWithError of viewer_udp_ocv: recvfrom fails (or, in Init, socket or  *)
(* bind did).  The encoder notices nothing; what it sends is lost.         *)
ReceiveFails ==
  /\ Player = "viewer_udp_ocv"
  /\ listening
  /\ listening' = FALSE
  /\ net' = <<>>
  /\ UNCHANGED <<viewerVars, path, encoderVars, pipe, decoded, arrived, starts>>

-----------------------------------------------------------------------------
(* What LockFrame returns for a frame of the camera. *)
LockedFrame(frame) ==
  IF mIO = "READ" THEN frame \o SubSeq(image, Len(frame) + 1, SizeImage)
                  ELSE frame

(* Is a locked frame written?  The mutant writes whatever there is. *)
IsWritten_Always(buf) == TRUE
IsWritten(buf) == Len(buf) > 4

(* A turn of encoder_h264's loop: lock, write, unlock.  A failed dequeue   *)
(* that LockFrame ignores is an empty frame.                               *)
Forward(frame) ==
  LET buf == LockedFrame(frame)
  IN  /\ Sender = "encoder_h264"
      /\ pc = "capture"
      /\ Len(sent) < MaxFrames
      /\ image' = IF mIO = "READ" THEN buf ELSE image
      /\ sent' = Append(sent, frame)
      /\ IF IsWritten(buf)
           THEN /\ pipe' = pipe \o buf
                /\ arrived' = Append(arrived, buf)
                /\ starts' = Append(starts, Len(seen) + Len(pipe))
           ELSE UNCHANGED <<pipe, arrived, starts>>
      /\ UNCHANGED <<viewerVars, path, pc, listening, net, decoded>>

-----------------------------------------------------------------------------
ViewerRead ==
  /\ pipe # <<>>
  /\ ReadByte(Head(pipe))
  /\ pipe' = Tail(pipe)
  /\ UNCHANGED <<path, encoderVars, listening, net, decoded, arrived, starts>>

(* The pipe of a dead encoder_h264 ends.  netcat goes on listening. *)
ViewerEof ==
  /\ Sender = "encoder_h264"
  /\ pc = "dead"
  /\ pipe = <<>>
  /\ ReadEof
  /\ UNCHANGED <<path, encoderVars, channelVars>>

Init ==
  /\ ViewerInit
  /\ path \in Paths
  /\ pc = "capture"
  /\ image \in (IF mIO = "READ" THEN Memory ELSE {<<>>})
  /\ listening \in (IF Player = "viewer_udp_ocv" THEN BOOLEAN ELSE {TRUE})
  /\ net = <<>>
  /\ pipe = <<>>
  /\ decoded = <<>>
  /\ sent = <<>>
  /\ arrived = <<>>
  /\ starts = <<>>

Next == \/ Capture \/ CaptureFails \/ SendFails
        \/ \E buf \in Frames : Send(buf)
        \/ \E i \in DOMAIN net : Arrive(i)
        \/ ReceiveFails
        \/ \E frame \in CameraFrames : Forward(frame)
        \/ ViewerRead
        \/ ViewerEof

(* viewer_stdin is scheduled.  The network owes nothing. *)
Fairness == WF_vars(ViewerRead) /\ WF_vars(ViewerEof)

Spec == Init /\ [][Next]_vars /\ Fairness

-----------------------------------------------------------------------------
(* The state is what the program can hold. *)
TypeOK ==
  /\ ViewerTypeOK
  /\ path \in Paths
  /\ pc \in {"capture", "encode", "dead"}
  /\ image \in Seq(Byte) /\ Len(image) = IF mIO = "READ" THEN SizeImage ELSE 0
  /\ listening \in BOOLEAN
  /\ {net, sent} \subseteq Seq(Frames \cup CameraFrames)
  /\ {arrived, decoded} \subseteq Seq(Seq(Byte))
  /\ pipe \in Seq(Byte)
  /\ starts \in Seq(Nat) /\ Len(starts) = Len(arrived)

(* Which of what the player was given begins with a NAL. *)
Whole == {i \in DOMAIN arrived : StartCodeAt(arrived[i], 1)}

(* Whatever the network does and whatever memory follows a short frame, no *)
(* unit of viewer_stdin reaches into a frame that begins with a start      *)
(* code: the stream is cut where it begins.  The only bytes that can come  *)
(* to stand in front of it are a bare start code that ends what was        *)
(* written before, never all of another frame: encoder_h264 tests the      *)
(* length for that.  Frames without a start code are not told apart, from  *)
(* each other or from what stands before them.  What arrives is what the encoder or the     *)
(* camera made ("a passthrough for H264 cameras"), in mode READ with the   *)
(* rest of the buffer behind it; and viewer_udp_ocv decodes one datagram,  *)
(* or as much of it as recvfrom's buffer holds (encoder_udp's sendto,      *)
(* encoder_h264's fwrite, x264_destreamer::input).                         *)
LossNeverSplices ==
  /\ \A i \in Whole :
       starts[i] + 4 <= Len(seen) =>
         \E cut \in ToSet(cuts) :
           \/ cut = starts[i]
           \/ cut = starts[i] - 4 /\ cut \notin ToSet(starts)
  /\ \A d \in ToSet(arrived) :
       \E frame \in ToSet(sent) :
         d = frame \/ (mIO = "READ" /\ IsPrefix(frame, d) /\ Len(d) = SizeImage)
  /\ \A i \in DOMAIN decoded :
       \/ decoded[i] = arrived[i]
       \/ /\ Len(decoded[i]) = MAXRECVSTRING
          /\ IsStrictPrefix(decoded[i], arrived[i])

(* The last of the frames that arrived, but for empty ones. *)
Filled == {i \in DOMAIN arrived : arrived[i] # <<>>}
LastFrame == arrived[Max(Filled)]

(* What a frame has from its last start code on. *)
LastNal(buf) ==
  SubSeq(buf, Max({p \in DOMAIN buf : StartCodeAt(buf, p)}), Len(buf))

(* The price of sending whole frames: a viewer that has caught up holds    *)
(* back the last NAL of the last frame that arrived, neither less nor      *)
(* more, until another one arrives; for encoder_h264 as for encoder_udp.   *)
(* In front of it there may be a bare start code.  A camera whose frames   *)
(* do not begin with a start code gives viewer_stdin no NALs to cut.       *)
LastNalHeldBack ==
  /\ Player # "viewer_udp_ocv" /\ ~eof /\ pipe = <<>>
  /\ Filled # {} /\ StartCodeAt(LastFrame, 1)
  => buffer \o Tail(previous_state)
       \in {LastNal(LastFrame), StartCode \o LastNal(LastFrame)}

(* A frame that arrives is shown once another one has: no loss stops the   *)
(* stream for good.  Frames that begin without a start code do not count.  *)
NextFrameReleases ==
  \A k \in 1..MaxFrames :
    (Player # "viewer_udp_ocv" /\ Cardinality(Whole) > k) ~> Len(packets) >= k
=============================================================================
