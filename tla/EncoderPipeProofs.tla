-------------------------- MODULE EncoderPipeProofs --------------------------
(***************************************************************************)
(* Frames are never glued together, and nothing but start codes is held    *)
(* back while the encoder waits for the camera, for every set of frames,   *)
(* whatever lies behind the encoder's buffer, however long the encoder     *)
(* runs.                                                                   *)
(*                                                                         *)
(* The invariant of the splitter says where it cut the bytes it has seen.  *)
(* What is added here speaks of the bytes seen and the bytes in the pipe   *)
(* together, a sequence that reading does not change and writing only      *)
(* extends: there is a start code at every header, and at its end while    *)
(* the encoder waits.  As there is one header for each frame, ahead of it, *)
(* no frame has to wait for the next.                                      *)
(***************************************************************************)
EXTENDS EncoderPipe, DestreamerProofs

Stream == seen \o pipe

HeadersMarked ==
  \A k \in 1..Len(headers) : StartCodeAt(Stream, headers[k] + 1)

EndsWithHeader == pc = "capture" => StartCodeAt(Stream, Len(Stream) - 3)

PipeInv == IInv /\ TypeOK /\ CutsInOrder /\ HeadersMarked /\ EndsWithHeader

LEMMA InitPipeInv == Init => PipeInv
<1> SUFFICES ASSUME Init PROVE PipeInv
  OBVIOUS
<1>1. IInv
  BY InitIInv DEF Init
<1>2. cuts = <<>> /\ headers = <<>> /\ pc = "header"
  BY DEF Init, ViewerInit
<1>3. TypeOK
  BY <1>1 DEF Init, IInv, TypeOK
<1>4. CutsInOrder /\ HeadersMarked /\ EndsWithHeader
  BY <1>2 DEF CutsInOrder, HeadersMarked, EndsWithHeader
<1> QED BY <1>1, <1>3, <1>4 DEF PipeInv

(* A start code that is written ends the stream. *)
LEMMA MarkAtEnd ==
  ASSUME NEW s \in Seq(AnyByte)
  PROVE  StartCodeAt(s \o StartCode, Len(s) + 1)
<1>1. StartCode \in Seq(AnyByte) /\ Len(StartCode) = 4
      /\ StartCode[1] = 0 /\ StartCode[2] = 0 /\ StartCode[3] = 0
      /\ StartCode[4] = 1
  <2>1. 0 \in AnyByte /\ 1 \in AnyByte
    BY ByteAssumption DEF AnyByte
  <2> QED BY <2>1 DEF StartCode
<1> HIDE DEF StartCode
<1>2. /\ Len(s \o StartCode) = Len(s) + 4
      /\ \A i \in 1..(Len(s) + 4) :
           (s \o StartCode)[i]
             = IF i <= Len(s) THEN s[i] ELSE StartCode[i - Len(s)]
  <2>1. StartCode \in Seq(AnyByte)
    BY <1>1
  <2>2. /\ Len(s \o StartCode) = Len(s) + Len(StartCode)
        /\ \A i \in 1..(Len(s) + Len(StartCode)) :
             (s \o StartCode)[i]
               = IF i <= Len(s) THEN s[i] ELSE StartCode[i - Len(s)]
    BY <2>1, ConcatProperties
  <2> QED BY <1>1, <2>2
<1> DEFINE n == Len(s)
           t == s \o StartCode
<1>3. n \in Nat
  OBVIOUS
<1> HIDE DEF n, t
<1>4. \A i \in 1..(n + 4) : i > n => t[i] = StartCode[i - n]
  BY <1>2, <1>3 DEF n, t
<1>5. \A j \in 1..4 : t[n + j] = StartCode[j]
  <2> TAKE j \in 1..4
  <2>1. n + j \in 1..(n + 4) /\ n + j > n /\ (n + j) - n = j
    BY <1>3
  <2> QED BY <1>4, <2>1
<1>6. t[n + 1 + 1] = t[n + 2] /\ t[n + 1 + 2] = t[n + 3] /\ t[n + 1 + 3] = t[n + 4]
      /\ n + 1 + 3 = n + 4
  BY <1>3
<1>7. /\ t[n + 1] = StartCode[1] /\ t[n + 2] = StartCode[2]
      /\ t[n + 3] = StartCode[3] /\ t[n + 4] = StartCode[4]
  BY <1>5
<1> QED BY <1>1, <1>2, <1>6, <1>7 DEF StartCodeAt, n, t

(* What encoder.cpp writes after the header are bytes. *)
LEMMA BodyBytes ==
  ASSUME NEW buf \in Frames, NEW beyond \in Beyond
  PROVE  Body(buf, beyond) \in Seq(Byte)
<1>1. buf \in Seq(Byte)
  BY FramesAssumption
<1>2. beyond \in Seq(Byte) /\ Len(beyond) = 4
  <2>1. PICK w \in Byte, x \in Byte, y \in Byte, z \in Byte :
          beyond = <<w, x, y, z>>
    BY BeyondAssumption
  <2> QED BY <2>1
<1>3. CASE buf = <<>>
  BY <1>3, EmptySeq DEF Body
<1>4. CASE buf # <<>>
  <2> DEFINE t == buf \o beyond
             n == Len(buf)
  <2>1. t \in Seq(Byte) /\ Len(t) = n + 4 /\ n \in Nat
    <3>1. t \in Seq(Byte) /\ Len(t) = n + Len(beyond)
      BY <1>1, <1>2, ConcatProperties
    <3> QED BY <1>1, <1>2, <3>1
  <2> HIDE DEF t, n
  <2>2. \A i \in 5..(4 + n) : t[i] \in Byte
    BY <2>1, ElementOfSeq
  <2>3. SubSeq(t, 5, 4 + n) \in Seq(Byte)
    BY <2>1, <2>2, SubSeqProperties
  <2> QED BY <1>4, <2>3 DEF Body, t, n
<1> QED BY <1>3, <1>4

(* The stream is made of bytes. *)
LEMMA StreamBytes ==
  ASSUME PipeInv
  PROVE  /\ seen \in Seq(AnyByte) /\ pipe \in Seq(AnyByte)
         /\ Stream \in Seq(AnyByte)
         /\ Len(Stream) = Len(seen) + Len(pipe)
         /\ Len(seen) \in Nat /\ Len(seen) >= 4 /\ Len(pipe) \in Nat
<1>1. seen \in Seq(AnyByte) /\ Len(seen) >= 4
  BY DEF PipeInv, IInv, ViewerTypeOK, PacketsTileStream, RegisterIsTail
<1>2. pipe \in Seq(AnyByte)
  BY SeqMonotonic DEF PipeInv, TypeOK, AnyByte
<1> QED BY <1>1, <1>2, ConcatProperties DEF Stream

(* Writing t keeps the headers where they are. *)
LEMMA HeadersSurvive ==
  ASSUME PipeInv, NEW t \in Seq(AnyByte), NEW k \in 1..Len(headers)
  PROVE  StartCodeAt(Stream \o t, headers[k] + 1)
<1>1. Stream \in Seq(AnyByte) /\ StartCodeAt(Stream, headers[k] + 1)
  BY StreamBytes DEF PipeInv, HeadersMarked
<1>2. headers[k] + 1 \in Nat \ {0}
  BY ElementOfSeq DEF PipeInv, TypeOK
<1> QED BY <1>1, <1>2, MarkSurvives

LEMMA WriteHeaderInv == PipeInv /\ WriteHeader => PipeInv'
<1> SUFFICES ASSUME PipeInv, WriteHeader PROVE PipeInv'
  OBVIOUS
<1> DEFINE n == Len(seen) + Len(pipe)
<1>1. UNCHANGED viewerVars /\ UNCHANGED seen /\ UNCHANGED cuts
  BY DEF WriteHeader, viewerVars
<1>2. IInv' /\ CutsInOrder'
  BY <1>1, ReadIInv DEF PipeInv, CutsInOrder
<1>3. StartCode \in Seq(Byte) /\ StartCode \in Seq(AnyByte)
  BY ByteAssumption DEF StartCode, AnyByte
<1>4. /\ pc' = "capture" /\ UNCHANGED <<encoded, bodies>>
      /\ pipe' = pipe \o StartCode /\ headers' = Append(headers, n)
  BY DEF WriteHeader, NalHeader
<1>5. /\ pipe \in Seq(Byte) /\ headers \in Seq(Nat) /\ n \in Nat
      /\ seen \in Seq(AnyByte) /\ pipe \in Seq(AnyByte)
      /\ Stream \in Seq(AnyByte) /\ Len(Stream) = n
  BY StreamBytes DEF PipeInv, TypeOK
<1> HIDE DEF n
<1>6. Stream' = Stream \o StartCode
  <2>1. (seen \o pipe) \o StartCode = seen \o (pipe \o StartCode)
    BY SMTT(30), <1>3, <1>5, ConcatAssociative
  <2> QED BY <1>1, <1>4, <2>1 DEF Stream
<1>7. TypeOK'
  <2>1. pipe' \in Seq(Byte)
    BY <1>3, <1>4, <1>5, ConcatProperties
  <2>2. headers' \in Seq(Nat)
    BY <1>4, <1>5, AppendProperties
  <2> QED BY <1>2, <1>4, <2>1, <2>2 DEF PipeInv, IInv, TypeOK
<1>8. StartCodeAt(Stream', n + 1)
  BY <1>5, <1>6, MarkAtEnd
<1>9. HeadersMarked'
  <2>1. /\ Len(headers') = Len(headers) + 1
        /\ \A k \in 1..Len(headers) : headers'[k] = headers[k]
        /\ headers'[Len(headers) + 1] = n
    BY <1>4, <1>5, AppendProperties
  <2> SUFFICES ASSUME NEW k \in 1..Len(headers')
               PROVE  StartCodeAt(Stream', headers'[k] + 1)
    BY DEF HeadersMarked
  <2>2. CASE k \in 1..Len(headers)
    BY <1>3, <1>6, <2>1, <2>2, HeadersSurvive
  <2>3. CASE k = Len(headers) + 1
    BY <1>8, <2>1, <2>3
  <2>4. Len(headers) \in Nat
    BY <1>5
  <2> QED BY <2>1, <2>2, <2>3, <2>4
<1>10. EndsWithHeader'
  <2>1. Len(StartCode) = 4
    BY DEF StartCode
  <2>2. Len(Stream') = n + 4
    <3>1. Len(Stream \o StartCode) = Len(Stream) + Len(StartCode)
      BY <1>3, <1>5, ConcatProperties
    <3> QED BY <1>5, <1>6, <2>1, <3>1
  <2>3. Len(Stream') - 3 = n + 1
    BY <1>5, <2>2
  <2>4. StartCodeAt(Stream', Len(Stream') - 3)
    BY <1>8, <2>3
  <2> QED BY <2>4 DEF EndsWithHeader
<1> QED BY <1>2, <1>7, <1>9, <1>10 DEF PipeInv

LEMMA EncodeInv ==
  ASSUME PipeInv, NEW buf \in Frames, NEW beyond \in Beyond, Encode(buf, beyond)
  PROVE  PipeInv'
<1> DEFINE b == Body(buf, beyond)
<1>1. UNCHANGED viewerVars /\ UNCHANGED seen /\ UNCHANGED cuts
  BY DEF Encode, viewerVars
<1>2. IInv' /\ CutsInOrder'
  BY <1>1, ReadIInv DEF PipeInv, CutsInOrder
<1>3. b \in Seq(Byte) /\ b \in Seq(AnyByte)
  BY BodyBytes, SeqMonotonic DEF AnyByte
<1> HIDE DEF b
<1>4. /\ pc' = "header" /\ UNCHANGED headers
      /\ pipe' = pipe \o b
      /\ encoded' = Append(encoded, buf) /\ bodies' = Append(bodies, b)
  BY DEF Encode, b
<1>5. /\ pipe \in Seq(Byte) /\ encoded \in Seq(Frames) /\ bodies \in Seq(Seq(Byte))
      /\ seen \in Seq(AnyByte) /\ pipe \in Seq(AnyByte)
  BY StreamBytes DEF PipeInv, TypeOK
<1>6. Stream' = Stream \o b
  <2>1. (seen \o pipe) \o b = seen \o (pipe \o b)
    BY SMTT(30), <1>3, <1>5, ConcatAssociative
  <2> QED BY <1>1, <1>4, <2>1 DEF Stream
<1>7. TypeOK'
  <2>1. pipe' \in Seq(Byte)
    BY <1>3, <1>4, <1>5, ConcatProperties
  <2>2. encoded' \in Seq(Frames) /\ bodies' \in Seq(Seq(Byte))
    BY <1>3, <1>4, <1>5, AppendProperties
  <2> QED BY <1>2, <1>4, <2>1, <2>2 DEF PipeInv, IInv, TypeOK
<1>8. HeadersMarked'
  BY <1>3, <1>4, <1>6, HeadersSurvive DEF HeadersMarked
<1>9. EndsWithHeader'
  BY <1>4 DEF EndsWithHeader
<1> QED BY <1>2, <1>7, <1>8, <1>9 DEF PipeInv

(* Reading moves a byte from the pipe to what has been seen. *)
LEMMA ViewerReadInv == PipeInv /\ ViewerRead => PipeInv'
<1> SUFFICES ASSUME PipeInv, ViewerRead PROVE PipeInv'
  OBVIOUS
<1>1. /\ seen \in Seq(AnyByte) /\ pipe \in Seq(AnyByte) /\ pipe \in Seq(Byte)
      /\ pipe # <<>>
  BY StreamBytes DEF ViewerRead, PipeInv, TypeOK
<1>2. /\ Head(pipe) \in Byte /\ Head(pipe) \in AnyByte
      /\ Tail(pipe) \in Seq(Byte) /\ Tail(pipe) \in Seq(AnyByte)
  BY <1>1, HeadTailProperties
<1> DEFINE h == Head(pipe)
           t == Tail(pipe)
<1> HIDE DEF h, t
<1>3. /\ h \in Byte /\ h \in AnyByte /\ t \in Seq(Byte) /\ t \in Seq(AnyByte)
      /\ ReadByte(h) /\ Input(h) /\ seen' = Append(seen, h) /\ pipe' = t
      /\ UNCHANGED <<pc, encoded, headers, bodies>>
  BY <1>2 DEF ViewerRead, ReadByte, Input, h, t
<1>4. IInv' /\ CutsInOrder'
  BY <1>3, ReadIInv, InputCutsInOrder DEF PipeInv
<1>5. Stream' = Stream
  BY <1>1, <1>3, ReadingKeepsStream DEF Stream, h, t
<1>6. HeadersMarked' /\ EndsWithHeader'
  BY <1>3, <1>5 DEF PipeInv, HeadersMarked, EndsWithHeader
<1>7. TypeOK'
  BY <1>3, <1>4 DEF PipeInv, IInv, TypeOK
<1> QED BY <1>4, <1>6, <1>7 DEF PipeInv

(* The byte the viewer takes EOF for is written by nobody. *)
LEMMA ViewerEofInv == PipeInv /\ ViewerEof => PipeInv'
<1> SUFFICES ASSUME PipeInv, ViewerEof PROVE PipeInv'
  OBVIOUS
<1>1. /\ pipe = <<>> /\ pc = "dead" /\ ReadEof /\ Input(EofByte)
      /\ seen' = Append(seen, EofByte)
      /\ UNCHANGED <<pc, pipe, encoded, headers, bodies>>
  BY DEF ViewerEof, ReadEof, Input, encoderVars
<1>2. EofByte \in AnyByte /\ seen \in Seq(AnyByte)
  BY StreamBytes DEF EofByte, AnyByte
<1>3. IInv' /\ CutsInOrder'
  BY <1>1, <1>2, ReadIInv, InputCutsInOrder DEF PipeInv
<1>4. Stream' = Stream \o <<EofByte>>
  <2>1. seen' = seen \o <<EofByte>> /\ seen' \in Seq(AnyByte)
    BY <1>1, <1>2, AppendIsConcat, AppendProperties
  <2>2. Stream = seen /\ Stream' = seen'
    BY <1>1, <1>2, <2>1, ConcatEmptySeq DEF Stream
  <2> QED BY <2>1, <2>2
<1>5. <<EofByte>> \in Seq(AnyByte)
  BY <1>2
<1>6. HeadersMarked'
  BY <1>1, <1>4, <1>5, HeadersSurvive DEF HeadersMarked
<1>7. EndsWithHeader'
  BY <1>1 DEF EndsWithHeader
<1>8. TypeOK'
  BY <1>1, <1>3 DEF PipeInv, IInv, TypeOK
<1> QED BY <1>3, <1>6, <1>7, <1>8 DEF PipeInv

LEMMA NextPipeInv == PipeInv /\ [Next]_vars => PipeInv'
<1> SUFFICES ASSUME PipeInv, [Next]_vars PROVE PipeInv'
  OBVIOUS
<1>1. ASSUME UNCHANGED <<viewerVars, pipe, encoded, headers, bodies>>,
             pc' \in {pc, "encode", "dead"}
      PROVE  PipeInv'
  <2>1. IInv' /\ UNCHANGED <<seen, cuts>>
    BY <1>1, ReadIInv DEF PipeInv, viewerVars
  <2>2. TypeOK'
    BY <1>1, <2>1 DEF PipeInv, IInv, TypeOK
  <2>3. CutsInOrder' /\ HeadersMarked' /\ EndsWithHeader'
    BY <1>1, <2>1
       DEF PipeInv, CutsInOrder, HeadersMarked, EndsWithHeader, Stream
  <2> QED BY <2>1, <2>2, <2>3 DEF PipeInv
<1>2. CASE Capture
  BY <1>1, <1>2 DEF Capture
<1>3. CASE CaptureFails
  BY <1>1, <1>3 DEF CaptureFails
<1>4. CASE SomeEncode
  BY <1>4, EncodeInv DEF SomeEncode
<1>5. CASE UNCHANGED vars
  BY <1>1, <1>5 DEF vars, encoderVars
<1> QED BY <1>2, <1>3, <1>4, <1>5, WriteHeaderInv, ViewerReadInv, ViewerEofInv
        DEF Next

LEMMA Inductive == Spec => []PipeInv
BY InitPipeInv, NextPipeInv, PTL DEF Spec

-----------------------------------------------------------------------------
(* Every header that has been read was found by the splitter, which cut    *)
(* there or at the start code right before it.                             *)
LEMMA BoundariesFound == PipeInv => FrameBoundariesKept
<1> SUFFICES ASSUME PipeInv, NEW k \in 1..Len(headers),
                    headers[k] + 4 <= Len(seen)
             PROVE  \E i \in 1..Len(cuts) :
                      cuts[i] \in {headers[k], headers[k] - 4}
  BY DEF FrameBoundariesKept
<1> DEFINE h == headers[k]
<1>1. /\ seen \in Seq(AnyByte) /\ pipe \in Seq(AnyByte) /\ Len(seen) \in Nat
      /\ h \in Nat /\ StartCodeAt(seen \o pipe, h + 1) /\ h + 4 <= Len(seen)
  BY StreamBytes, ElementOfSeq DEF PipeInv, TypeOK, HeadersMarked, Stream
<1> HIDE DEF h
<1>2. h + 1 \in Nat \ {0} /\ h + 1 + 3 <= Len(seen) /\ h + 1 \in 1..Len(seen)
  BY <1>1
<1>3. StartCodeAt(seen, h + 1)
  BY <1>1, <1>2, MarkSeen
<1>4. PICK i \in 1..Len(cuts) : h + 1 = cuts[i] + 1 \/ h + 1 = cuts[i] + 5
  BY <1>2, <1>3 DEF PipeInv, IInv, SplitExactlyAtStartCodes, NoStartCodeMissed
<1>5. cuts[i] \in Nat
  BY ElementOfSeq DEF PipeInv, IInv, ViewerTypeOK
<1>6. cuts[i] = h \/ cuts[i] = h - 4
  <2>1. \A c, m \in Nat : m + 1 = c + 1 \/ m + 1 = c + 5 => c = m \/ c = m - 4
    OBVIOUS
  <2>2. cuts[i] \in Nat /\ h \in Nat
    BY <1>1, <1>5
  <2> QED BY <1>4, <2>1, <2>2
<1> QED BY <1>6 DEF h

(* No frame is ever glued to the one before it.                            *)
THEOREM BoundariesKept == Spec => []FrameBoundariesKept
BY Inductive, BoundariesFound, PTL

(* A sequence is known by its length and its elements. *)
LEMMA Spelled ==
  ASSUME NEW w \in Seq(AnyByte), NEW v \in Seq(AnyByte), Len(w) = Len(v),
         \A i \in 1..Len(w) : w[i] = v[i]
  PROVE  w = v
BY SeqEqual

(* While the encoder waits for the camera, the stream the viewer has read  *)
(* ends with a start code.  The last cut is there, or at a start code right *)
(* before it: in between, its final one would fall on a zero.              *)
LEMMA LastCutNearEnd ==
  ASSUME PipeInv, pc = "capture", pipe = <<>>
  PROVE  /\ sync
         /\ StartCodeAt(seen, Len(seen) - 3)
         /\ StartCodeAt(seen, cuts[Len(cuts)] + 1)
         /\ cuts[Len(cuts)] \in Nat
         /\ cuts[Len(cuts)] \in {Len(seen) - 4, Len(seen) - 8}
<1> DEFINE n == Len(seen)
           c == cuts[Len(cuts)]
<1>1. /\ seen \in Seq(AnyByte) /\ n \in Nat /\ n >= 4 /\ cuts \in Seq(Nat)
      /\ Len(cuts) \in Nat
  BY StreamBytes DEF PipeInv, IInv, ViewerTypeOK
<1>2. Stream = seen
  BY <1>1, ConcatEmptySeq DEF Stream
<1>3. StartCodeAt(seen, n - 3)
  BY <1>2 DEF PipeInv, EndsWithHeader
<1>4. PICK i \in 1..Len(cuts) : n - 3 = cuts[i] + 1 \/ n - 3 = cuts[i] + 5
  <2>1. n - 3 \in 1..n
    BY <1>1
  <2> QED BY <1>3, <2>1 DEF PipeInv, IInv, SplitExactlyAtStartCodes, NoStartCodeMissed
<1>5. Len(cuts) \in 1..Len(cuts) /\ cuts # <<>>
  BY <1>1, <1>4
<1>6. cuts[i] \in Nat /\ c \in Nat /\ cuts[i] <= c
  <2>1. cuts[i] \in Nat /\ c \in Nat
    BY <1>1, <1>5, ElementOfSeq
  <2>2. i = Len(cuts) \/ i < Len(cuts)
    BY <1>1
  <2>3. i < Len(cuts) => cuts[i] < cuts[Len(cuts)]
    BY <1>5 DEF PipeInv, CutsInOrder
  <2> QED BY <2>1, <2>2, <2>3
<1>7. StartCodeAt(seen, c + 1)
  BY <1>5 DEF PipeInv, IInv, SplitExactlyAtStartCodes, CutsAtStartCodes
<1>8. sync
  BY <1>5 DEF PipeInv, IInv, PacketsTileStream, BufferIsTail
<1> HIDE DEF n, c
<1>9. c + 4 <= n /\ seen[c + 4] = 1
  <2>1. c + 1 + 3 = c + 4
    BY <1>6
  <2> QED BY <1>7, <2>1 DEF StartCodeAt, n
<1>10. seen[n - 3] = 0 /\ seen[n - 2] = 0 /\ seen[n - 1] = 0
  <2>1. n - 3 + 1 = n - 2 /\ n - 3 + 2 = n - 1
    BY <1>1
  <2> QED BY <1>3, <2>1 DEF StartCodeAt
<1>11. c + 4 \notin {n - 3, n - 2, n - 1}
  BY <1>9, <1>10
<1>12. c \in {n - 4, n - 8}
  <2> DEFINE d == cuts[i]
  <2>1. /\ n \in Nat /\ d \in Nat /\ c \in Nat /\ d <= c /\ c + 4 <= n
        /\ n - 3 = d + 1 \/ n - 3 = d + 5
    BY <1>1, <1>4, <1>6, <1>9
  <2>2. c + 4 # n - 3 /\ c + 4 # n - 2 /\ c + 4 # n - 1
    BY <1>11
  <2> HIDE DEF d
  <2>3. c = n - 4 \/ c = n - 8
    BY <2>1, <2>2
  <2> QED BY <2>3
<1> QED BY <1>3, <1>6, <1>7, <1>8, <1>12 DEF n, c

(* What the viewer holds then is one start code, or two.                   *)
LEMMA HeldBytes == PipeInv => NothingHeldBack
<1> SUFFICES ASSUME PipeInv, pc = "capture", pipe = <<>>
             PROVE  buffer \o Tail(previous_state)
                      \in {StartCode, StartCode \o StartCode}
  BY DEF NothingHeldBack
<1> DEFINE n == Len(seen)
           c == cuts[Len(cuts)]
<1>1. /\ seen \in Seq(AnyByte) /\ n \in Nat /\ n >= 4
      /\ 0 \in AnyByte /\ 1 \in AnyByte
  BY StreamBytes, ByteAssumption DEF AnyByte
<1>2. sync /\ StartCodeAt(seen, n - 3) /\ StartCodeAt(seen, c + 1)
      /\ c \in Nat /\ c \in {n - 4, n - 8}
  BY LastCutNearEnd
<1>3. buffer = SubSeq(seen, c + 1, n - 3)
      /\ previous_state = <<seen[n - 3], seen[n - 2], seen[n - 1], seen[n]>>
  BY <1>2 DEF PipeInv, IInv, PacketsTileStream, BufferIsTail, RegisterIsTail
<1> HIDE DEF n, c
<1>4. seen[n - 3] = 0 /\ seen[n - 2] = 0 /\ seen[n - 1] = 0 /\ seen[n] = 1
  <2>1. n - 3 + 1 = n - 2 /\ n - 3 + 2 = n - 1 /\ n - 3 + 3 = n
    BY <1>1
  <2> QED BY <1>2, <2>1 DEF StartCodeAt
<1>5. Tail(previous_state) = <<0, 0, 1>>
  BY <1>3, <1>4
<1>6. /\ buffer \in Seq(AnyByte)
      /\ Len(buffer) = n - 3 - c
      /\ \A i \in 1..(n - 3 - c) : buffer[i] = seen[c + i]
  <2>1. \A i \in (c + 1)..(n - 3) : seen[i] \in AnyByte
    <3>1. \A i \in (c + 1)..(n - 3) : i \in 1..Len(seen)
      BY <1>1, <1>2 DEF n
    <3> QED BY <1>1, <3>1, ElementOfSeq
  <2>2. /\ SubSeq(seen, c + 1, n - 3) \in Seq(AnyByte)
        /\ Len(SubSeq(seen, c + 1, n - 3))
             = IF c + 1 <= n - 3 THEN n - 3 - (c + 1) + 1 ELSE 0
        /\ \A i \in 1..(n - 3 - (c + 1) + 1) :
             SubSeq(seen, c + 1, n - 3)[i] = seen[c + 1 + i - 1]
    BY <1>1, <1>2, <2>1, SubSeqProperties
  <2>3. c + 1 <= n - 3 /\ n - 3 - (c + 1) + 1 = n - 3 - c
    BY <1>1, <1>2
  <2>4. \A i \in 1..(n - 3 - c) : c + 1 + i - 1 = c + i
    BY <1>1, <1>2
  <2> QED BY <1>3, <2>2, <2>3, <2>4
<1>7. CASE c = n - 4
  <2>1. n - 3 - c = 1 /\ c + 1 = n - 3
    BY <1>1, <1>7
  <2>2. Len(buffer) = 1 /\ buffer[1] = 0
    BY <1>4, <1>6, <2>1
  <2> DEFINE w == buffer \o <<0, 0, 1>>
  <2>3. <<0, 0, 1>> \in Seq(AnyByte) /\ StartCode \in Seq(AnyByte)
    BY <1>1 DEF StartCode
  <2>4. /\ w \in Seq(AnyByte) /\ Len(w) = 4
        /\ w[1] = 0 /\ w[2] = 0 /\ w[3] = 0 /\ w[4] = 1
    <3> DEFINE t == <<0, 0, 1>>
    <3>1. t \in Seq(AnyByte) /\ Len(t) = 3 /\ t[1] = 0 /\ t[2] = 0 /\ t[3] = 1
      BY <2>3
    <3> HIDE DEF t
    <3>2. /\ buffer \o t \in Seq(AnyByte)
          /\ Len(buffer \o t) = Len(buffer) + Len(t)
          /\ \A i \in 1..(Len(buffer) + Len(t)) :
               (buffer \o t)[i] = IF i <= Len(buffer) THEN buffer[i]
                                                      ELSE t[i - Len(buffer)]
      BY <1>6, <3>1, ConcatProperties
    <3>3. \A i \in 1..4 :
            (buffer \o t)[i] = IF i <= 1 THEN buffer[i] ELSE t[i - 1]
      BY <2>2, <3>1, <3>2
    <3> DEFINE u == buffer \o t
    <3> HIDE DEF u
    <3>4. \A i \in 1..4 : u[i] = IF i <= 1 THEN buffer[i] ELSE t[i - 1]
      BY <3>3 DEF u
    <3>5. u[1] = buffer[1] /\ u[2] = t[1] /\ u[3] = t[2] /\ u[4] = t[3]
      BY <3>4
    <3> QED BY <2>2, <3>1, <3>2, <3>5 DEF t, u
  <2> HIDE DEF w
  <2>5. w = StartCode
    <3>1. /\ Len(StartCode) = 4 /\ StartCode[1] = 0 /\ StartCode[2] = 0
          /\ StartCode[3] = 0 /\ StartCode[4] = 1
      BY DEF StartCode
    <3>2. \A i \in 1..4 : w[i] = StartCode[i]
      BY <2>4, <3>1
    <3> QED BY <2>3, <2>4, <3>1, <3>2, Spelled
  <2> QED BY <1>5, <2>5 DEF w
<1>8. CASE c = n - 8
  <2>1. n - 3 - c = 5 /\ c + 5 = n - 3
    BY <1>1, <1>8
  <2>2. seen[c + 1] = 0 /\ seen[c + 2] = 0 /\ seen[c + 3] = 0 /\ seen[c + 4] = 1
    <3>1. c + 1 + 1 = c + 2 /\ c + 1 + 2 = c + 3 /\ c + 1 + 3 = c + 4
      BY <1>2
    <3> QED BY <1>2, <3>1 DEF StartCodeAt
  <2>3. /\ Len(buffer) = 5
        /\ buffer[1] = 0 /\ buffer[2] = 0 /\ buffer[3] = 0 /\ buffer[4] = 1
        /\ buffer[5] = 0
    BY <1>4, <1>6, <2>1, <2>2
  <2>4. buffer = <<0, 0, 0, 1, 0>>
    <3> DEFINE v == <<0, 0, 0, 1, 0>>
    <3>1. /\ v \in Seq(AnyByte) /\ Len(v) = 5 /\ v[1] = 0 /\ v[2] = 0
          /\ v[3] = 0 /\ v[4] = 1 /\ v[5] = 0
      BY <1>1
    <3> HIDE DEF v
    <3>2. \A i \in 1..5 : buffer[i] = v[i]
      BY <2>3, <3>1
    <3> QED BY <1>6, <2>3, <3>1, <3>2, Spelled DEF v
  <2>5. <<0, 0, 0, 1, 0>> \o <<0, 0, 1>> = <<0, 0, 0, 1>> \o <<0, 0, 0, 1>>
    OBVIOUS
  <2> QED BY <1>5, <2>4, <2>5 DEF StartCode
<1> QED BY <1>2, <1>7, <1>8

(* While the camera is awaited nothing of a frame is held back. *)
THEOREM FramesNotHeldBack == Spec => []NothingHeldBack
BY Inductive, HeldBytes, PTL

(* The encoder writes one header for each frame, ahead of the frame.       *)
HeaderPerFrame ==
  /\ pc = "header" => Len(headers) = Len(encoded)
  /\ pc \in {"capture", "encode"} => Len(headers) = Len(encoded) + 1

(* While the encoder waits for the camera and the viewer has caught up,    *)
(* every frame encoded so far has been broadcast.                          *)
AllReleased ==
  pc = "capture" /\ pipe = <<>> => \A k \in 1..Len(encoded) : Released(k)

LEMMA HeadersCounted == Spec => []HeaderPerFrame
<1>1. Init => HeaderPerFrame
  BY DEF Init, HeaderPerFrame
<1>2. PipeInv /\ HeaderPerFrame /\ [Next]_vars => HeaderPerFrame'
  <2> SUFFICES ASSUME PipeInv, HeaderPerFrame, [Next]_vars
               PROVE  HeaderPerFrame'
    OBVIOUS
  <2> USE DEF HeaderPerFrame
  <2>0. /\ headers \in Seq(Nat) /\ encoded \in Seq(Frames)
        /\ Len(headers) \in Nat /\ Len(encoded) \in Nat
    BY DEF PipeInv, TypeOK
  <2>1. CASE WriteHeader
    <3>1. Len(headers') = Len(headers) + 1
      BY <2>0, <2>1, StreamBytes, AppendProperties DEF WriteHeader
    <3> QED BY <2>0, <2>1, <3>1 DEF WriteHeader
  <2>2. CASE Capture \/ CaptureFails
    BY <2>2 DEF Capture, CaptureFails
  <2>3. CASE SomeEncode
    <3>1. PICK buf \in Frames, beyond \in Beyond : Encode(buf, beyond)
      BY <2>3 DEF SomeEncode
    <3>2. Len(encoded') = Len(encoded) + 1
      BY <2>0, <3>1, AppendProperties DEF Encode
    <3> QED BY <2>0, <3>1, <3>2 DEF Encode
  <2>4. CASE ViewerRead \/ ViewerEof \/ UNCHANGED vars
    BY <2>4 DEF ViewerRead, ViewerEof, vars, encoderVars
  <2> QED BY <2>1, <2>2, <2>3, <2>4 DEF Next
<1> QED BY <1>1, <1>2, Inductive, PTL DEF Spec

(* No frame waits for the next one: what FrameReleased promises has        *)
(* happened by the time the viewer has read what the encoder wrote before  *)
(* LockFrame, for every frame and however long the camera then takes.      *)
THEOREM FramesReleased == Spec => []AllReleased
<1>1. PipeInv /\ HeaderPerFrame => AllReleased
  <2> SUFFICES ASSUME PipeInv, HeaderPerFrame, pc = "capture", pipe = <<>>,
                      NEW k \in 1..Len(encoded)
               PROVE  Released(k)
    BY DEF AllReleased
  <2> DEFINE n == Len(seen)
             c == cuts[Len(cuts)]
             h == headers[k + 1]
  <2>1. /\ headers \in Seq(Nat) /\ Len(encoded) \in Nat
        /\ Len(headers) = Len(encoded) + 1
    BY DEF PipeInv, TypeOK, HeaderPerFrame
  <2>2. k + 1 \in 1..Len(headers) /\ Len(headers) > k /\ h \in Nat
    BY <2>1, ElementOfSeq
  <2>3. n \in Nat /\ Stream = seen
    BY StreamBytes, ConcatEmptySeq DEF Stream
  <2>4. h + 4 <= n
    <3>1. StartCodeAt(Stream, h + 1)
      BY <2>2 DEF PipeInv, HeadersMarked
    <3>2. h + 1 + 3 <= n
      BY <2>3, <3>1 DEF StartCodeAt
    <3> QED BY <2>2, <2>3, <3>2
  <2>5. c \in Nat /\ c \in {n - 4, n - 8} /\ sync
    BY LastCutNearEnd
  <2>6. cuts # <<>>
    BY <2>5 DEF PipeInv, IInv, PacketsTileStream, BufferIsTail
  <2> HIDE DEF n, c, h
  <2>7. c >= h - 4
    BY <2>2, <2>3, <2>4, <2>5
  <2> QED BY <2>2, <2>6, <2>7 DEF Released, c, h
<1> QED BY <1>1, Inductive, HeadersCounted, PTL

(* The state of encoder, pipe and viewer is well typed.                    *)
THEOREM TypeCorrect == Spec => []TypeOK
<1>1. PipeInv => TypeOK
  BY DEF PipeInv
<1> QED BY <1>1, Inductive, PTL

(* The splitter's own properties hold in the pipeline.                     *)
THEOREM PipelineSplits ==
  Spec => [](PacketsTileStream /\ SplitExactlyAtStartCodes)
<1>1. PipeInv => PacketsTileStream /\ SplitExactlyAtStartCodes
  BY DEF PipeInv, IInv
<1> QED BY <1>1, Inductive, PTL

(* A recording of the encoder's output, cut by destreamer.h, yields the    *)
(* packets that viewer_stdin broadcasts of it while it is made.            *)
THEOREM RecordingCutAlike == Spec => []SplittersAgree
<1>1. Init => AgreeInv
  BY InitAgrees DEF Init
<1>2. PipeInv /\ AgreeInv /\ [Next]_vars => AgreeInv'
  <2> SUFFICES ASSUME PipeInv, AgreeInv, [Next]_vars PROVE AgreeInv'
    OBVIOUS
  <2>1. CASE ViewerRead
    <3>1. pipe \in Seq(Byte) /\ pipe # <<>> /\ ReadByte(Head(pipe))
      BY <2>1 DEF ViewerRead, PipeInv, TypeOK
    <3>2. Head(pipe) \in Byte
      BY <3>1, HeadTailProperties
    <3> QED BY <3>1, <3>2, ReadLoopAgrees
  <2>2. CASE ViewerEof
    BY <2>2, ReadLoopAgrees DEF ViewerEof
  <2>3. CASE WriteHeader \/ Capture \/ CaptureFails \/ SomeEncode \/ UNCHANGED vars
    <3>1. UNCHANGED viewerVars
      BY <2>3 DEF WriteHeader, Capture, CaptureFails, SomeEncode, Encode, vars
    <3> QED BY <3>1, ReadLoopAgrees
  <2> QED BY <2>1, <2>2, <2>3 DEF Next
<1> QED BY <1>1, <1>2, Inductive, AgreementSuffices, PTL DEF Spec
=============================================================================
