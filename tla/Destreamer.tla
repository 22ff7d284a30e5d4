----------------------------- MODULE Destreamer -----------------------------
(***************************************************************************)
(* The H.264 byte-stream splitter of the stdin viewer, and the viewer's    *)
(* reading loop.                                                           *)
(*                                                                         *)
(* viewer_stdin reads its standard input one byte at a time and hands each *)
(* byte to x264_destreamer::write, which calls x264_destreamer::input.  A  *)
(* 32-bit shift register (previous_state) looks for the start code         *)
(* 00 00 00 01.  The first one synchronises the splitter, each later one   *)
(* cuts the stream: what was collected is broadcast as one packet, unless  *)
(* only a start code was collected.  The collected bytes lag the input by  *)
(* the three bytes that are still in the register.                         *)
(*                                                                         *)
(* History variables: seen is the content the register started with,       *)
(* followed by every byte that was written; packets is every packet        *)
(* broadcast; cuts is, for each unit, the number of bytes of seen before   *)
(* it.  No guard reads them.  Modules ViewerStdin and EncoderPipe supply   *)
(* the bytes.                                                              *)
(***************************************************************************)
EXTENDS Integers, Sequences

CONSTANT Byte   \* the byte values the input is made of

ASSUME ByteAssumption == Byte \subseteq 0..255 /\ {0, 1} \subseteq Byte

VARIABLES previous_state,  \* the last four bytes, oldest first
          sync,            \* a start code has been seen
          buffer,          \* the bytes of the unit being collected
          packets,         \* history: the packets broadcast, in order
          seen,            \* history: initial register, then the input
          cuts,            \* history: where in seen each unit starts
          eof              \* getchar has returned EOF: the viewer is done

viewerVars == <<previous_state, sync, buffer, packets, seen, cuts, eof>>

StartCode == <<0, 0, 0, 1>>
EmptyRegister == <<255, 255, 255, 255>>   \* 0xFFFFFFFF
(* getchar's EOF (-1) stored in a uint8_t, and a mutant that keeps the int. *)
EofByte_Int == -1
EofByte == 255

-----------------------------------------------------------------------------
ViewerInit ==
  /\ previous_state = EmptyRegister
  /\ sync = FALSE
  /\ buffer = <<>>
  /\ packets = <<>>
  /\ seen = EmptyRegister
  /\ cuts = <<>>
  /\ eof = FALSE

(* ((previous_state & 0x00FFFFFF) << 8) | byte *)
Shift(reg, byte) == <<reg[2], reg[3], reg[4], byte>>

(* (previous_state & 0xFF000000) >> 24, the byte that is collected, and a  *)
(* mutant that shifts by too little.                                       *)
Oldest_OneLate(reg) == reg[2]
Oldest(reg) == reg[1]

(* Is the unit collected so far broadcast when a start code comes in?  A   *)
(* bare start code is kept and merged with the unit that follows it.  The  *)
(* mutant's size test is too strict.                                       *)
Flushes_Bigger(collecting, unit) == collecting /\ Len(unit) > 8
Flushes(collecting, unit) == collecting /\ Len(unit) > 4

(* x264_destreamer::input.  The eight zero bytes the code appends before   *)
(* the broadcast and excludes from its length are readable padding for the *)
(* decoders, not part of the packet.                                       *)
Input(byte) ==
  LET register == Shift(previous_state, byte)
      found    == register = StartCode
      flush    == found /\ Flushes(sync, buffer)
      synced   == sync \/ found
      rest     == IF flush THEN <<>> ELSE buffer
  IN  /\ previous_state' = register
      /\ sync' = synced
      /\ packets' = IF flush THEN Append(packets, buffer) ELSE packets
      /\ buffer' = IF synced THEN Append(rest, Oldest(register)) ELSE rest
      /\ seen' = Append(seen, byte)
      /\ cuts' = IF flush \/ (found /\ ~sync)
                   THEN Append(cuts, Len(seen) - 3)
                   ELSE cuts

-----------------------------------------------------------------------------
(* One turn of the loop of viewer_stdin's main. *)
ReadByte(byte) ==
  /\ ~eof
  /\ Input(byte)
  /\ UNCHANGED eof

(* The turn in which getchar finds the end of the file: feof is tested     *)
(* only after EOF itself, cut down to a uint8_t, has been written.  When   *)
(* reading fails without an end of file the byte is written, too, and the  *)
(* loop goes on: to the splitter that is ReadByte(EofByte).  The mutant    *)
(* takes the end for a pause in the input and tries again.                 *)
ReadEof_Retried ==
  /\ ~eof
  /\ UNCHANGED viewerVars

ReadEof ==
  /\ ~eof
  /\ Input(EofByte)
  /\ eof' = TRUE

(* The stdin viewer on its own: any bytes, the end of file at any point,   *)
(* after at most maxInput bytes.                                           *)
ViewerNext(maxInput) ==
  \/ /\ Len(seen) < 4 + maxInput
     /\ \E byte \in Byte : ReadByte(byte)
  \/ ReadEof

ViewerSpec(maxInput) == ViewerInit /\ [][ViewerNext(maxInput)]_viewerVars

-----------------------------------------------------------------------------
(* What may be in the register: input bytes, the initial ones, EOF. *)
AnyByte == Byte \cup {255}

(* The register, the unit and the packets are made of bytes that were      *)
(* read, or of 255 (x264_destreamer, viewer_stdin's data).                 *)
ViewerTypeOK ==
  /\ previous_state \in AnyByte \X AnyByte \X AnyByte \X AnyByte
  /\ sync \in BOOLEAN
  /\ buffer \in Seq(AnyByte)
  /\ packets \in Seq(Seq(AnyByte))
  /\ seen \in Seq(AnyByte)
  /\ cuts \in Seq(Nat)
  /\ eof \in BOOLEAN

(* A start code occupies positions p .. p+3 of s. *)
StartCodeAt(s, p) == /\ p + 3 <= Len(s)
                     /\ s[p] = 0
                     /\ s[p + 1] = 0
                     /\ s[p + 2] = 0
                     /\ s[p + 3] = 1

(* The register holds the last four bytes. *)
RegisterIsTail ==
  /\ Len(seen) >= 4
  /\ previous_state = <<seen[Len(seen) - 3], seen[Len(seen) - 2],
                        seen[Len(seen) - 1], seen[Len(seen)]>>

(* While synchronised the unit being collected runs from the last cut to   *)
(* the byte that last left the register.                                   *)
BufferIsTail ==
  IF sync
    THEN /\ Len(cuts) = Len(packets) + 1
         /\ cuts[Len(cuts)] + 4 <= Len(seen)
         /\ buffer = SubSeq(seen, cuts[Len(cuts)] + 1, Len(seen) - 3)
    ELSE cuts = <<>> /\ packets = <<>> /\ buffer = <<>>

(* Each packet is the stretch of the stream between two consecutive cuts. *)
PacketsAreStretches ==
  \A i \in 1..Len(packets) :
    /\ cuts[i] + 4 < cuts[i + 1]
    /\ cuts[i + 1] + 4 <= Len(seen)
    /\ packets[i] = SubSeq(seen, cuts[i] + 1, cuts[i + 1])

(* The packets, the unit being collected and the three bytes that lag in   *)
(* the register tile the stream from the first start code on: no byte is   *)
(* lost, duplicated or reordered by the splitter, whatever the input       *)
(* (x264_destreamer::input).                                               *)
PacketsTileStream == RegisterIsTail /\ BufferIsTail /\ PacketsAreStretches

(* Every unit starts with a start code, at the place the code cut it. *)
CutsAtStartCodes == \A i \in 1..Len(cuts) : StartCodeAt(seen, cuts[i] + 1)

(* Every start code begins a unit, or directly follows the one that does.  *)
NoStartCodeMissed ==
  \A p \in 1..Len(seen) :
    StartCodeAt(seen, p) =>
      \E i \in 1..Len(cuts) : p = cuts[i] + 1 \/ p = cuts[i] + 5

(* The stream is cut exactly at its start codes: no packet begins anywhere *)
(* else, and no packet hides a second unit behind its first, except that a *)
(* bare start code is merged with the unit after it (the size test of      *)
(* x264_destreamer::input).                                                *)
SplitExactlyAtStartCodes == CutsAtStartCodes /\ NoStartCodeMissed
=============================================================================
