----------------------------- MODULE EncoderPipe -----------------------------
(***************************************************************************)
(* encoder | viewer_stdin: the local pipeline of the README.               *)
(*                                                                         *)
(* The viewer can broadcast a unit only when the start code of the next    *)
(* one arrives, so the encoder writes the start code of a frame before it  *)
(* waits for the camera: the previous frame is then shown one capture      *)
(* earlier.  After encoding it writes "everything except the first NAL     *)
(* header", which reads four bytes past the end of its buffer.             *)
(*                                                                         *)
(* The camera delivers MaxFrames frames and then stalls: LockFrame need    *)
(* not ever return.  It may also throw, which ends the encoder and closes  *)
(* the pipe.                                                               *)
(*                                                                         *)
(* History variables: encoded is what x264 produced for each frame,        *)
(* headers the length of seen and pipe together just before each frame's   *)
(* start code was written, bodies the bytes written after it.              *)
(***************************************************************************)
EXTENDS Destreamer

CONSTANTS Frames,     \* what x264 may produce for a frame: its NALs
          Beyond,     \* what four bytes may follow the encoder's buffer
          MaxFrames   \* bound: how many frames the camera delivers

ASSUME FramesAssumption ==
  \A buf \in Frames : /\ buf \in Seq(Byte)
                      /\ buf # <<>> => Len(buf) >= 4
                                       /\ SubSeq(buf, 1, 4) = StartCode
ASSUME BeyondAssumption == Beyond \subseteq Byte \X Byte \X Byte \X Byte
ASSUME MaxFramesAssumption == MaxFrames \in Nat

VARIABLES pc,        \* where the encoder's loop is
          pipe,      \* the bytes written and not yet read
          encoded,   \* history: x264's output, frame by frame
          headers,   \* history: where each frame's start code begins
          bodies     \* history: what was written after it

encoderVars == <<pc, pipe, encoded, headers, bodies>>
vars == <<viewerVars, encoderVars>>

-----------------------------------------------------------------------------
(* nal_header, and mutants: the short start code, and a header that is not *)
(* sent ahead.                                                             *)
NalHeader_Short == <<0, 0, 1>>
NalHeader_None == <<>>
NalHeader == StartCode

(* fwrite(&buf[4], 1, buf.size()): what follows the first start code and   *)
(* the four bytes that happen to lie behind the buffer.  With no NAL       *)
(* nothing is written.  The mutant sends the whole buffer, start code      *)
(* included.                                                               *)
Body_Whole(buf, beyond) == buf
Body(buf, beyond) ==
  IF buf = <<>> THEN <<>> ELSE SubSeq(buf \o beyond, 5, 4 + Len(buf))

(* The top of the loop: the start code is written and flushed. *)
WriteHeader ==
  /\ pc = "header"
  /\ pc' = "capture"
  /\ pipe' = pipe \o NalHeader
  /\ headers' = Append(headers, Len(seen) + Len(pipe))
  /\ UNCHANGED <<viewerVars, encoded, bodies>>

(* LockFrame returns, the image is scaled, UnlockFrame gives it back. *)
Capture ==
  /\ pc = "capture"
  /\ Len(encoded) < MaxFrames
  /\ pc' = "encode"
  /\ UNCHANGED <<viewerVars, pipe, encoded, headers, bodies>>

(* LockFrame or UnlockFrame throws: nothing catches it. *)
CaptureFails ==
  /\ pc = "capture"
  /\ pc' = "dead"
  /\ UNCHANGED <<viewerVars, pipe, encoded, headers, bodies>>

(* x264_encoder_encode returns buf, which is written and flushed. *)
Encode(buf, beyond) ==
  /\ pc = "encode"
  /\ pc' = "header"
  /\ encoded' = Append(encoded, buf)
  /\ bodies' = Append(bodies, Body(buf, beyond))
  /\ pipe' = pipe \o Body(buf, beyond)
  /\ UNCHANGED <<viewerVars, headers>>

(* The viewer's loop on the reading end of the pipe. *)
ViewerRead ==
  /\ pipe # <<>>
  /\ ReadByte(Head(pipe))
  /\ pipe' = Tail(pipe)
  /\ UNCHANGED <<pc, encoded, headers, bodies>>

ViewerEof ==
  /\ pipe = <<>>
  /\ pc = "dead"
  /\ ReadEof
  /\ UNCHANGED encoderVars

-----------------------------------------------------------------------------
Init ==
  /\ ViewerInit
  /\ pc = "header"
  /\ pipe = <<>>
  /\ encoded = <<>>
  /\ headers = <<>>
  /\ bodies = <<>>

SomeEncode == \E buf \in Frames, beyond \in Beyond : Encode(buf, beyond)

Next == \/ WriteHeader \/ Capture \/ CaptureFails \/ SomeEncode
        \/ ViewerRead \/ ViewerEof

(* Both processes keep running; nothing makes the camera deliver. *)
Fairness == /\ WF_vars(WriteHeader) /\ WF_vars(SomeEncode)
            /\ WF_vars(ViewerRead) /\ WF_vars(ViewerEof)

Spec == Init /\ [][Next]_vars /\ Fairness

-----------------------------------------------------------------------------
(* What is written is made of bytes, as is what the viewer holds. *)
TypeOK ==
  /\ ViewerTypeOK
  /\ pc \in {"header", "capture", "encode", "dead"}
  /\ pipe \in Seq(Byte)
  /\ encoded \in Seq(Frames)
  /\ headers \in Seq(Nat)
  /\ bodies \in Seq(Seq(Byte))

(* Every frame starts at a cut, or directly behind a stray start code that *)
(* itself starts at a cut (a frame without NALs, or bytes behind the       *)
(* encoder's buffer that look like one): whatever the encoder sends after  *)
(* a frame, the frame is never glued to the one before it (encoder's loop  *)
(* and x264_destreamer::input).                                            *)
FrameBoundariesKept ==
  \A k \in 1..Len(headers) :
    headers[k] + 4 <= Len(seen) =>
      \E i \in 1..Len(cuts) : cuts[i] \in {headers[k], headers[k] - 4}

(* While the encoder waits for the camera, a viewer that has caught up     *)
(* holds back nothing but start codes: the purpose of writing the header   *)
(* before LockFrame.                                                       *)
NothingHeldBack ==
  pc = "capture" /\ pipe = <<>> =>
    buffer \o Tail(previous_state) \in {StartCode, StartCode \o StartCode}

(* All of frame k has been broadcast. *)
Released(k) ==
  /\ Len(headers) > k
  /\ cuts # <<>>
  /\ cuts[Len(cuts)] >= headers[k + 1] - 4

(* Every frame is broadcast although the camera never delivers another     *)
(* one, and even if it fails while the encoder waits for it.               *)
FrameReleased ==
  \A k \in 1..MaxFrames : Len(encoded) >= k ~> Released(k)

(* When the encoder is gone, the viewer reads what is left and ends. *)
ViewerEnds == pc = "dead" ~> eof

(* Violated: the comment of encoder.cpp says that what is written after    *)
(* the header is "everything except the first NAL header".                 *)
BodiesAreFrames ==
  \A k \in 1..Len(bodies) :
    bodies[k] = SubSeq(encoded[k], 5, Len(encoded[k]))
=============================================================================
