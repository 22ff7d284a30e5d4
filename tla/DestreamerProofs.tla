-------------------------- MODULE DestreamerProofs --------------------------
(***************************************************************************)
(* The splitter of module Destreamer: the viewer starts in, and every byte *)
(* it reads preserves, a state in which nothing of the stream is lost and  *)
(* it is cut exactly at the start codes.  The lemmas are about Input, for  *)
(* all the modules that supply bytes; the theorems at the end are about    *)
(* the stdin viewer, for every set of byte values and length of the input. *)
(*                                                                         *)
(* The inductive invariant is the conjunction of the invariants that TLC   *)
(* checks; none is inductive alone.  That the unit being collected is a    *)
(* stretch of the stream needs the register to hold the last four bytes    *)
(* (the byte collected is the one that leaves the register), and that no   *)
(* start code is missed needs both: a start code is left inside a unit     *)
(* only when the unit has at most four bytes, and those are the start code *)
(* it begins with, which no other one can overlap.                         *)
(*                                                                         *)
(* The second half is about module BlockReader: the splitter of            *)
(* destreamer.h cuts every stream like this one.  The start codes of the   *)
(* file are listed in order; what the loop over get_next_block yields is   *)
(* found from the end of the file towards its beginning, since positions   *)
(* only grow, and what is joined of it from the beginning.  The invariant  *)
(* is that the joined units are the packets, and that what is still held   *)
(* back runs from the last cut to the last start code.                     *)
(***************************************************************************)
EXTENDS BlockReader, SequenceTheorems, WellFoundedInduction, TLAPS

(* A stretch of a sequence is not changed by appending to the sequence. *)
LEMMA StretchOfAppend ==
  ASSUME NEW S, NEW s \in Seq(S), NEW e \in S,
         NEW m \in Nat \ {0}, NEW n \in Nat, n <= Len(s)
  PROVE  SubSeq(Append(s, e), m, n) = SubSeq(s, m, n)
<1>1. Append(s, e) \in Seq(S) /\ \A i \in 1..Len(s) : Append(s, e)[i] = s[i]
  BY AppendProperties
<1>2. \A i \in m..n : s[i] \in S /\ Append(s, e)[i] = s[i]
  BY <1>1, ElementOfSeq
<1> DEFINE a == SubSeq(Append(s, e), m, n)
           b == SubSeq(s, m, n)
<1>3. /\ a \in Seq(S)
      /\ Len(a) = IF m <= n THEN n - m + 1 ELSE 0
      /\ \A i \in 1..(n - m + 1) : a[i] = Append(s, e)[m + i - 1]
  BY <1>2, SubSeqProperties
<1>4. /\ b \in Seq(S)
      /\ Len(b) = IF m <= n THEN n - m + 1 ELSE 0
      /\ \A i \in 1..(n - m + 1) : b[i] = s[m + i - 1]
  BY <1>2, SubSeqProperties
<1>5. Len(a) = Len(b) /\ \A i \in 1..Len(a) : a[i] = b[i]
  BY <1>2, <1>3, <1>4
<1> QED BY <1>3, <1>4, <1>5, SeqEqual

(* A stretch grows by the element that follows it. *)
LEMMA StretchGrows ==
  ASSUME NEW S, NEW s \in Seq(S), NEW m \in Nat \ {0}, NEW n \in Nat,
         m <= n + 1, n + 1 <= Len(s)
  PROVE  Append(SubSeq(s, m, n), s[n + 1]) = SubSeq(s, m, n + 1)
<1>1. \A i \in m..(n + 1) : s[i] \in S
  BY ElementOfSeq
<1> DEFINE a == SubSeq(s, m, n)
           b == SubSeq(s, m, n + 1)
<1>2. /\ a \in Seq(S)
      /\ Len(a) = n - m + 1
      /\ \A i \in 1..(n - m + 1) : a[i] = s[m + i - 1]
  BY <1>1, SubSeqProperties
<1>3. /\ b \in Seq(S)
      /\ Len(b) = n + 1 - m + 1
      /\ \A i \in 1..(n + 1 - m + 1) : b[i] = s[m + i - 1]
  BY <1>1, SubSeqProperties
<1>4. s[n + 1] \in S
  BY ElementOfSeq
<1> DEFINE e == s[n + 1]
           c == Append(a, e)
<1>5. /\ c \in Seq(S)
      /\ Len(c) = Len(a) + 1
      /\ \A i \in 1..Len(a) : c[i] = a[i]
      /\ c[Len(a) + 1] = s[n + 1]
  <2>1. a \in Seq(S) /\ e \in S
    BY <1>2, <1>4
  <2> HIDE DEF a, e
  <2>2. /\ c \in Seq(S)
        /\ Len(c) = Len(a) + 1
        /\ \A i \in 1..Len(a) : c[i] = a[i]
        /\ c[Len(a) + 1] = e
    BY <2>1, AppendProperties
  <2> QED BY <2>2 DEF e
<1>6. Len(c) = Len(b) /\ \A i \in 1..Len(c) : c[i] = b[i]
  <2> HIDE DEF a, b, c
  <2> QED BY SMTT(30), <1>2, <1>3, <1>5
<1> QED BY <1>3, <1>5, <1>6, SeqEqual

-----------------------------------------------------------------------------
(* The inductive invariant. *)
IInv == ViewerTypeOK /\ PacketsTileStream /\ SplitExactlyAtStartCodes

(* The register starts full of ones, so nothing has been seen or cut. *)
LEMMA InitIInv == ViewerInit => IInv
<1> SUFFICES ASSUME ViewerInit PROVE IInv
  OBVIOUS
<1> USE DEF ViewerInit, EmptyRegister
<1>1. ViewerTypeOK
  <2>1. EmptyRegister \in Seq(AnyByte)
    BY DEF AnyByte
  <2>2. EmptyRegister \in AnyByte \X AnyByte \X AnyByte \X AnyByte
    BY DEF AnyByte
  <2> HIDE DEF EmptyRegister
  <2>3. /\ previous_state = EmptyRegister /\ seen = EmptyRegister
        /\ sync = FALSE /\ eof = FALSE
        /\ buffer = <<>> /\ packets = <<>> /\ cuts = <<>>
    OBVIOUS
  <2>4. <<>> \in Seq(AnyByte) /\ <<>> \in Seq(Seq(AnyByte)) /\ <<>> \in Seq(Nat)
    BY EmptySeq
  <2> QED BY <2>1, <2>2, <2>3, <2>4 DEF ViewerTypeOK
<1>2. PacketsTileStream
  BY DEF PacketsTileStream, RegisterIsTail, BufferIsTail, PacketsAreStretches
<1>3. SplitExactlyAtStartCodes
  BY DEF SplitExactlyAtStartCodes, CutsAtStartCodes, NoStartCodeMissed,
         StartCodeAt
<1> QED BY <1>1, <1>2, <1>3 DEF IInv

(* What x264_destreamer::input does to the stream and the register. *)
LEMMA InputSeen ==
  ASSUME NEW byte \in AnyByte, IInv, Input(byte)
  PROVE  /\ seen' \in Seq(AnyByte)
         /\ Len(seen') = Len(seen) + 1
         /\ Len(seen) >= 4
         /\ \A i \in 1..Len(seen) : seen'[i] = seen[i]
         /\ seen'[Len(seen')] = byte
         /\ previous_state' = <<seen'[Len(seen') - 3], seen'[Len(seen') - 2],
                                seen'[Len(seen') - 1], seen'[Len(seen')]>>
         /\ previous_state' \in AnyByte \X AnyByte \X AnyByte \X AnyByte
<1>1. seen \in Seq(AnyByte) /\ Len(seen) >= 4 /\ Len(seen) \in Nat
  BY DEF IInv, ViewerTypeOK, PacketsTileStream, RegisterIsTail
<1>2. seen' = Append(seen, byte)
  BY DEF Input
<1>3. /\ seen' \in Seq(AnyByte)
      /\ Len(seen') = Len(seen) + 1
      /\ \A i \in 1..Len(seen) : seen'[i] = seen[i]
      /\ seen'[Len(seen')] = byte
  BY <1>1, <1>2, AppendProperties
<1>4. previous_state' = <<previous_state[2], previous_state[3],
                          previous_state[4], byte>>
  BY DEF Input, Shift
<1>5. /\ previous_state[2] = seen'[Len(seen') - 3]
      /\ previous_state[3] = seen'[Len(seen') - 2]
      /\ previous_state[4] = seen'[Len(seen') - 1]
  <2>1. previous_state = <<seen[Len(seen) - 3], seen[Len(seen) - 2],
                           seen[Len(seen) - 1], seen[Len(seen)]>>
    BY DEF IInv, PacketsTileStream, RegisterIsTail
  <2>2. /\ previous_state[2] = seen[Len(seen) - 2]
        /\ previous_state[3] = seen[Len(seen) - 1]
        /\ previous_state[4] = seen[Len(seen)]
    BY <2>1
  <2>3. /\ Len(seen') - 3 = Len(seen) - 2
        /\ Len(seen') - 2 = Len(seen) - 1
        /\ Len(seen') - 1 = Len(seen)
    BY <1>1, <1>3
  <2>4. /\ seen'[Len(seen) - 2] = seen[Len(seen) - 2]
        /\ seen'[Len(seen) - 1] = seen[Len(seen) - 1]
        /\ seen'[Len(seen)] = seen[Len(seen)]
    BY <1>1, <1>3
  <2> QED BY <2>2, <2>3, <2>4
<1>6. \A i \in 1..Len(seen') : seen'[i] \in AnyByte
  BY <1>3, ElementOfSeq
<1> QED BY <1>1, <1>3, <1>4, <1>5, <1>6

(* The start code is found exactly when the stream now ends with one, and  *)
(* otherwise the start codes of the stream are the ones it had.            *)
LEMMA InputFinds ==
  ASSUME NEW byte \in AnyByte, IInv, Input(byte)
  PROVE  /\ (previous_state' = StartCode) <=> StartCodeAt(seen', Len(seen) - 2)
         /\ \A p \in 1..Len(seen') :
              StartCodeAt(seen', p) => (StartCodeAt(seen, p) \/ p = Len(seen) - 2)
         /\ \A p \in 1..Len(seen) : StartCodeAt(seen, p) => StartCodeAt(seen', p)
<1> DEFINE n == Len(seen)
<1>1. /\ n \in Nat /\ n >= 4
      /\ Len(seen') = n + 1
      /\ \A i \in 1..n : seen'[i] = seen[i]
      /\ previous_state' = <<seen'[Len(seen') - 3], seen'[Len(seen') - 2],
                             seen'[Len(seen') - 1], seen'[Len(seen')]>>
  BY InputSeen DEF IInv, ViewerTypeOK
<1> HIDE DEF n
<1>2. previous_state' = <<seen'[n - 2], seen'[n - 1], seen'[n], seen'[n + 1]>>
  <2>1. n + 1 - 3 = n - 2 /\ n + 1 - 2 = n - 1 /\ n + 1 - 1 = n
    BY <1>1
  <2> QED BY <1>1, <2>1
<1>3. (previous_state' = StartCode) <=> StartCodeAt(seen', n - 2)
  <2>1. n - 2 + 1 = n - 1 /\ n - 2 + 2 = n /\ n - 2 + 3 = n + 1
        /\ n - 2 + 3 <= Len(seen')
    BY <1>1
  <2> QED BY <1>2, <2>1 DEF StartCode, StartCodeAt
<1>4. ASSUME NEW p \in 1..Len(seen'), StartCodeAt(seen', p), p # n - 2
      PROVE  StartCodeAt(seen, p)
  <2>1. p + 3 <= n
    BY <1>1, <1>4 DEF StartCodeAt
  <2> QED BY SMTT(30), <1>1, <1>4, <2>1 DEF StartCodeAt, n
<1>5. ASSUME NEW p \in 1..n, StartCodeAt(seen, p)
      PROVE  StartCodeAt(seen', p)
  <2>1. p + 3 <= n
    BY <1>1, <1>5 DEF StartCodeAt, n
  <2> QED BY <1>1, <1>5, <2>1 DEF StartCodeAt
<1> QED BY <1>3, <1>4, <1>5 DEF n

(* How a byte that does not complete a start code, and each of the three   *)
(* kinds of start code, change what is collected.                          *)
LEMMA InputEffect ==
  ASSUME NEW byte \in AnyByte, IInv, Input(byte)
  PROVE  /\ previous_state' # StartCode =>
              /\ UNCHANGED <<sync, packets, cuts>>
              /\ buffer' = IF sync THEN Append(buffer, seen[Len(seen) - 2])
                                   ELSE buffer
         /\ previous_state' = StartCode /\ ~sync =>
              /\ sync' = TRUE
              /\ packets' = packets
              /\ cuts' = Append(cuts, Len(seen) - 3)
              /\ buffer' = <<seen[Len(seen) - 2]>>
         /\ previous_state' = StartCode /\ sync /\ Len(buffer) > 4 =>
              /\ sync' = TRUE
              /\ packets' = Append(packets, buffer)
              /\ cuts' = Append(cuts, Len(seen) - 3)
              /\ buffer' = <<seen[Len(seen) - 2]>>
         /\ previous_state' = StartCode /\ sync /\ ~(Len(buffer) > 4) =>
              /\ UNCHANGED <<sync, packets, cuts>>
              /\ buffer' = Append(buffer, seen[Len(seen) - 2])
<1>1. previous_state' = Shift(previous_state, byte)
  BY DEF Input
<1>2. Shift(previous_state, byte)[1] = seen[Len(seen) - 2]
  <2>1. previous_state = <<seen[Len(seen) - 3], seen[Len(seen) - 2],
                           seen[Len(seen) - 1], seen[Len(seen)]>>
    BY DEF IInv, PacketsTileStream, RegisterIsTail
  <2> QED BY <2>1 DEF Shift
<1>3. ~sync => buffer = <<>>
  BY DEF IInv, PacketsTileStream, BufferIsTail
<1>4. \A e : Append(<<>>, e) = <<e>>
  OBVIOUS
<1>5. sync \in BOOLEAN
  BY DEF IInv, ViewerTypeOK
<1> DEFINE register == Shift(previous_state, byte)
<1> HIDE DEF register
<1>6. previous_state' = register /\ register[1] = seen[Len(seen) - 2]
  BY <1>1, <1>2 DEF register
<1>7. /\ sync' = (sync \/ register = StartCode)
      /\ packets' = IF register = StartCode /\ sync /\ Len(buffer) > 4
                      THEN Append(packets, buffer) ELSE packets
      /\ buffer' = IF sync \/ register = StartCode
                     THEN Append(IF register = StartCode /\ sync /\ Len(buffer) > 4
                                   THEN <<>> ELSE buffer, register[1])
                     ELSE IF register = StartCode /\ sync /\ Len(buffer) > 4
                            THEN <<>> ELSE buffer
      /\ cuts' = IF (register = StartCode /\ sync /\ Len(buffer) > 4)
                       \/ (register = StartCode /\ ~sync)
                   THEN Append(cuts, Len(seen) - 3) ELSE cuts
  BY DEF Input, Flushes, Oldest, register
<1> QED BY <1>3, <1>4, <1>5, <1>6, <1>7

(* The bytes that are collected stay a stretch of the stream. *)
LEMMA CollectedGrows ==
  ASSUME NEW byte \in AnyByte, IInv, Input(byte), sync
  PROVE  /\ cuts[Len(cuts)] \in Nat
         /\ buffer = SubSeq(seen', cuts[Len(cuts)] + 1, Len(seen) - 3)
         /\ Append(buffer, seen[Len(seen) - 2])
              = SubSeq(seen', cuts[Len(cuts)] + 1, Len(seen) - 2)
         /\ Len(buffer) = Len(seen) - 3 - cuts[Len(cuts)]
<1> DEFINE c == cuts[Len(cuts)]
           n == Len(seen)
<1>1. /\ seen \in Seq(AnyByte) /\ n \in Nat /\ n >= 4
      /\ cuts \in Seq(Nat) /\ packets \in Seq(Seq(AnyByte))
      /\ Len(cuts) = Len(packets) + 1
      /\ c + 4 <= n
      /\ buffer = SubSeq(seen, c + 1, n - 3)
  BY DEF IInv, ViewerTypeOK, PacketsTileStream, BufferIsTail, RegisterIsTail
<1>2. c \in Nat
  BY <1>1, ElementOfSeq
<1>3. seen' = Append(seen, byte)
  BY DEF Input
<1> HIDE DEF c
<1>4. /\ c + 1 \in Nat \ {0} /\ n - 3 \in Nat /\ n - 3 <= n
      /\ n - 2 \in Nat /\ n - 2 <= n /\ c + 1 <= n - 3 + 1 /\ n - 3 + 1 = n - 2
  BY <1>1, <1>2
<1>5. SubSeq(seen', c + 1, n - 3) = SubSeq(seen, c + 1, n - 3)
  BY ZenonT(60), <1>1, <1>3, <1>4, StretchOfAppend
<1>6. SubSeq(seen', c + 1, n - 2) = SubSeq(seen, c + 1, n - 2)
  BY ZenonT(60), <1>1, <1>3, <1>4, StretchOfAppend
<1>7. Append(SubSeq(seen, c + 1, n - 3), seen[n - 2]) = SubSeq(seen, c + 1, n - 2)
  BY <1>1, <1>4, StretchGrows
<1>8. \A i \in (c + 1)..(n - 3) : seen[i] \in AnyByte
  BY <1>1, <1>2, ElementOfSeq
<1>9. Len(SubSeq(seen, c + 1, n - 3))
        = IF c + 1 <= n - 3 THEN n - 3 - (c + 1) + 1 ELSE 0
  BY <1>4, <1>8, SubSeqProperties
<1>10. Len(buffer) = n - 3 - c
  BY <1>1, <1>2, <1>4, <1>9
<1> QED BY <1>1, <1>2, <1>5, <1>6, <1>7, <1>10 DEF c

(* One byte preserves the types. *)
LEMMA InputTypes ==
  ASSUME NEW byte \in AnyByte, IInv, Input(byte), eof' \in BOOLEAN
  PROVE  ViewerTypeOK'
<1>1. /\ seen' \in Seq(AnyByte) /\ Len(seen) >= 4
      /\ previous_state' \in AnyByte \X AnyByte \X AnyByte \X AnyByte
  BY InputSeen
<1>2. /\ sync \in BOOLEAN /\ buffer \in Seq(AnyByte)
      /\ packets \in Seq(Seq(AnyByte)) /\ cuts \in Seq(Nat)
      /\ seen \in Seq(AnyByte) /\ Len(seen) \in Nat
  BY DEF IInv, ViewerTypeOK
<1>3. seen[Len(seen) - 2] \in AnyByte /\ Len(seen) - 3 \in Nat
  BY <1>1, <1>2, ElementOfSeq
<1> DEFINE e == seen[Len(seen) - 2]
           m == Len(seen) - 3
<1> HIDE DEF e, m
<1>4. /\ Append(buffer, e) \in Seq(AnyByte)
      /\ <<e>> \in Seq(AnyByte)
      /\ Append(packets, buffer) \in Seq(Seq(AnyByte))
      /\ Append(cuts, m) \in Seq(Nat)
  <2>1. e \in AnyByte /\ m \in Nat
    BY <1>3 DEF e, m
  <2> QED BY <1>2, <2>1, AppendProperties
<1>5. /\ buffer' \in {buffer, Append(buffer, e), <<e>>}
      /\ packets' \in {packets, Append(packets, buffer)}
      /\ cuts' \in {cuts, Append(cuts, m)}
      /\ sync' \in {sync, TRUE}
  BY <1>2, InputEffect DEF e, m
<1> QED BY <1>1, <1>2, <1>4, <1>5 DEF ViewerTypeOK

(* One byte preserves the tiling of the stream. *)
LEMMA InputTiles ==
  ASSUME NEW byte \in AnyByte, IInv, Input(byte)
  PROVE  PacketsTileStream'
<1> DEFINE n == Len(seen)
<1>1. /\ seen' \in Seq(AnyByte) /\ n \in Nat /\ n >= 4 /\ Len(seen') = n + 1
      /\ \A i \in 1..n : seen'[i] = seen[i]
      /\ previous_state' = <<seen'[Len(seen') - 3], seen'[Len(seen') - 2],
                             seen'[Len(seen') - 1], seen'[Len(seen')]>>
  BY InputSeen DEF IInv, ViewerTypeOK
<1>2. /\ cuts \in Seq(Nat) /\ packets \in Seq(Seq(AnyByte))
      /\ buffer \in Seq(AnyByte) /\ sync \in BOOLEAN /\ seen \in Seq(AnyByte)
  BY DEF IInv, ViewerTypeOK
<1>3. RegisterIsTail'
  BY <1>1 DEF RegisterIsTail
<1>4. <<seen[n - 2]>> = SubSeq(seen', n - 2, n - 2)
  <2>1. seen'[n - 2] = seen[n - 2]
    BY <1>1
  <2>2. \A i \in (n - 2)..(n - 2) : seen'[i] \in AnyByte
    BY <1>1, ElementOfSeq
  <2> DEFINE t == SubSeq(seen', n - 2, n - 2)
  <2>3. /\ t \in Seq(AnyByte) /\ Len(t) = 1 /\ t[1] = seen'[n - 2]
    BY <1>1, <2>2, SubSeqProperties
  <2> HIDE DEF t
  <2>4. t = <<t[1]>>
    BY <2>3
  <2> QED BY <2>1, <2>3, <2>4 DEF t
<1>5. \A i \in 1..Len(packets) :
        packets[i] = SubSeq(seen', cuts[i] + 1, cuts[i + 1])
  <2> SUFFICES ASSUME NEW i \in 1..Len(packets)
               PROVE  packets[i] = SubSeq(seen', cuts[i] + 1, cuts[i + 1])
    OBVIOUS
  <2>1. /\ packets[i] = SubSeq(seen, cuts[i] + 1, cuts[i + 1])
        /\ cuts[i + 1] + 4 <= n
    BY DEF IInv, PacketsTileStream, PacketsAreStretches
  <2>2. sync /\ Len(cuts) = Len(packets) + 1
    BY <1>2 DEF IInv, PacketsTileStream, BufferIsTail
  <2>3. cuts[i] \in Nat /\ cuts[i + 1] \in Nat
    BY SMTT(30), <1>2, <2>2, ElementOfSeq
  <2> DEFINE c == cuts[i]
             d == cuts[i + 1]
  <2> HIDE DEF c, d
  <2>4. c \in Nat /\ d \in Nat /\ d + 4 <= n /\ n \in Nat
    BY <1>1, <2>1, <2>3 DEF c, d
  <2> HIDE DEF n
  <2>5. c + 1 \in Nat \ {0} /\ d <= n
    BY <2>4
  <2>6. seen' = Append(seen, byte)
    BY DEF Input
  <2>7. SubSeq(seen', c + 1, d) = SubSeq(seen, c + 1, d)
    BY <1>2, <2>4, <2>5, <2>6, StretchOfAppend DEF n
  <2> QED BY <2>1, <2>7 DEF c, d
<1>6. sync => Len(cuts) = Len(packets) + 1 /\ cuts[Len(cuts)] + 4 <= n
  BY DEF IInv, PacketsTileStream, BufferIsTail
<1>7. ~sync => cuts = <<>> /\ packets = <<>> /\ buffer = <<>>
  BY DEF IInv, PacketsTileStream, BufferIsTail
<1> HIDE DEF n
<1>8. n - 3 \in Nat /\ n - 3 + 1 = n - 2 /\ Len(seen') - 3 = n - 2
  BY <1>1
<1>9. CASE UNCHANGED <<sync, packets, cuts>>
           /\ buffer' = IF sync THEN Append(buffer, seen[n - 2]) ELSE buffer
  <2>1. BufferIsTail'
    <3>1. CASE sync
      <4>1. /\ cuts[Len(cuts)] \in Nat
            /\ buffer' = SubSeq(seen', cuts[Len(cuts)] + 1, n - 2)
        BY <1>9, <3>1, CollectedGrows DEF n
      <4>2. buffer' = SubSeq(seen', cuts[Len(cuts)] + 1, Len(seen') - 3)
        BY <1>8, <4>1
      <4>3. cuts[Len(cuts)] + 4 <= Len(seen')
        BY <1>1, <1>6, <3>1, <4>1
      <4> QED BY <1>6, <1>9, <3>1, <4>2, <4>3 DEF BufferIsTail
    <3>2. CASE ~sync
      BY <1>7, <1>9, <3>2 DEF BufferIsTail
    <3> QED BY <3>1, <3>2
  <2>2. PacketsAreStretches'
    <3> SUFFICES ASSUME NEW i \in 1..Len(packets)
                 PROVE  /\ cuts[i] + 4 < cuts[i + 1]
                        /\ cuts[i + 1] + 4 <= Len(seen')
                        /\ packets[i] = SubSeq(seen', cuts[i] + 1, cuts[i + 1])
      BY <1>9 DEF PacketsAreStretches
    <3>1. /\ cuts[i] + 4 < cuts[i + 1]
          /\ cuts[i + 1] + 4 <= n
      BY DEF IInv, PacketsTileStream, PacketsAreStretches, n
    <3>2. cuts[i + 1] \in Nat
      <4>1. Len(cuts) = Len(packets) + 1 /\ Len(packets) \in Nat
        BY <1>2, <1>6, <1>7
      <4>2. i + 1 \in 1..Len(cuts)
        BY <4>1
      <4>3. cuts \in Seq(Nat)
        BY <1>2
      <4> QED BY <4>2, <4>3, ElementOfSeq
    <3> QED BY SMTT(30), <1>1, <1>5, <3>1, <3>2
  <2> QED BY <1>3, <2>1, <2>2 DEF PacketsTileStream
<1>10. CASE /\ ~sync /\ sync' = TRUE /\ packets' = packets
            /\ cuts' = Append(cuts, n - 3) /\ buffer' = <<seen[n - 2]>>
  <2>1. cuts' = <<n - 3>> /\ packets' = <<>>
    BY <1>7, <1>10
  <2>2. BufferIsTail'
    <3>1. n - 3 + 4 <= Len(seen')
      BY <1>1
    <3>2. buffer' = SubSeq(seen', n - 3 + 1, Len(seen') - 3)
      BY <1>4, <1>8, <1>10
    <3>3. Len(cuts') = 1 /\ Len(packets') = 0 /\ cuts'[Len(cuts')] = n - 3
      BY <2>1
    <3>4. Len(cuts') = Len(packets') + 1
      BY <3>3
    <3> QED BY <1>10, <3>1, <3>2, <3>3, <3>4 DEF BufferIsTail
  <2>3. PacketsAreStretches'
    BY <2>1 DEF PacketsAreStretches
  <2> QED BY <1>3, <2>2, <2>3 DEF PacketsTileStream
<1>11. CASE /\ sync /\ Len(buffer) > 4 /\ sync' = TRUE
            /\ packets' = Append(packets, buffer)
            /\ cuts' = Append(cuts, n - 3) /\ buffer' = <<seen[n - 2]>>
  <2> DEFINE k == Len(packets)
  <2>1. k \in Nat /\ Len(cuts) = k + 1 /\ cuts[k + 1] \in Nat
    BY <1>2, <1>6, <1>11, ElementOfSeq
  <2>2. /\ buffer = SubSeq(seen', cuts[k + 1] + 1, n - 3)
        /\ Len(buffer) = n - 3 - cuts[k + 1]
    BY <1>11, <2>1, CollectedGrows DEF n
  <2>3. /\ Len(cuts') = k + 2
        /\ \A i \in 1..(k + 1) : cuts'[i] = cuts[i]
        /\ cuts'[k + 2] = n - 3
    BY <1>2, <1>8, <1>11, <2>1, AppendProperties
  <2>4. /\ Len(packets') = k + 1
        /\ \A i \in 1..k : packets'[i] = packets[i]
        /\ packets'[k + 1] = buffer
    BY <1>2, <1>11, AppendProperties
  <2>5. BufferIsTail'
    <3>1. n - 3 + 4 <= Len(seen')
      BY <1>1
    <3>2. buffer' = SubSeq(seen', n - 3 + 1, Len(seen') - 3)
      BY <1>4, <1>8, <1>11
    <3>3. Len(cuts') = Len(packets') + 1 /\ cuts'[Len(cuts')] = n - 3
      BY <2>1, <2>3, <2>4
    <3> QED BY <1>11, <3>1, <3>2, <3>3 DEF BufferIsTail
  <2>6. PacketsAreStretches'
    <3> SUFFICES ASSUME NEW i \in 1..(k + 1)
                 PROVE  /\ cuts'[i] + 4 < cuts'[i + 1]
                        /\ cuts'[i + 1] + 4 <= Len(seen')
                        /\ packets'[i]
                             = SubSeq(seen', cuts'[i] + 1, cuts'[i + 1])
      BY <2>4 DEF PacketsAreStretches
    <3> HIDE DEF k
    <3>1. CASE i \in 1..k
      <4>1. /\ cuts'[i] = cuts[i] /\ cuts'[i + 1] = cuts[i + 1]
            /\ packets'[i] = packets[i]
        BY <2>1, <2>3, <2>4, <3>1
      <4>2. cuts[i] + 4 < cuts[i + 1] /\ cuts[i + 1] + 4 <= n
        BY <3>1 DEF IInv, PacketsTileStream, PacketsAreStretches, k, n
      <4>3. cuts[i + 1] \in Nat
        BY <1>2, <2>1, <3>1, ElementOfSeq
      <4>4. packets[i] = SubSeq(seen', cuts[i] + 1, cuts[i + 1])
        BY <1>5, <3>1 DEF k
      <4> QED BY <1>1, <4>1, <4>2, <4>3, <4>4
    <3>2. CASE i = k + 1
      <4>1. cuts'[i] = cuts[k + 1] /\ cuts'[i + 1] = n - 3
        BY <2>1, <2>3, <3>2
      <4>2. cuts[k + 1] + 4 < n - 3 /\ n - 3 + 4 <= Len(seen')
        <5>1. /\ n \in Nat /\ Len(seen') = n + 1 /\ cuts[k + 1] \in Nat
              /\ Len(buffer) = n - 3 - cuts[k + 1] /\ Len(buffer) > 4
          BY <1>1, <1>11, <2>1, <2>2
        <5> HIDE DEF n
        <5> QED BY <5>1
      <4> QED BY <2>2, <2>4, <3>2, <4>1, <4>2
    <3> QED BY <2>1, <3>1, <3>2
  <2> QED BY <1>3, <2>5, <2>6 DEF PacketsTileStream
<1> QED BY <1>9, <1>10, <1>11, <1>2, InputEffect DEF n

(* One byte leaves the cuts exactly at the start codes.  When a start code *)
(* is left inside a unit (the last case), the unit has at most four bytes, *)
(* and the start code it begins with cannot overlap the one just read.     *)
LEMMA InputSplits ==
  ASSUME NEW byte \in AnyByte, IInv, Input(byte)
  PROVE  SplitExactlyAtStartCodes'
<1> DEFINE n == Len(seen)
<1>1. /\ n \in Nat /\ n >= 4 /\ Len(seen') = n + 1
      /\ \A i \in 1..n : seen'[i] = seen[i]
  BY InputSeen DEF IInv, ViewerTypeOK
<1>2. /\ (previous_state' = StartCode) <=> StartCodeAt(seen', n - 2)
      /\ \A p \in 1..Len(seen') :
           StartCodeAt(seen', p) => (StartCodeAt(seen, p) \/ p = n - 2)
      /\ \A p \in 1..n : StartCodeAt(seen, p) => StartCodeAt(seen', p)
  BY InputFinds
<1>3. cuts \in Seq(Nat) /\ sync \in BOOLEAN
  BY DEF IInv, ViewerTypeOK
<1>4. \A i \in 1..Len(cuts) : cuts[i] \in Nat /\ StartCodeAt(seen, cuts[i] + 1)
  BY <1>3, ElementOfSeq
     DEF IInv, SplitExactlyAtStartCodes, CutsAtStartCodes
<1>5. \A p \in 1..n : StartCodeAt(seen, p) =>
        \E i \in 1..Len(cuts) : p = cuts[i] + 1 \/ p = cuts[i] + 5
  BY DEF IInv, SplitExactlyAtStartCodes, NoStartCodeMissed
<1> HIDE DEF n
<1>6. \A i \in 1..Len(cuts) : StartCodeAt(seen', cuts[i] + 1)
  <2> SUFFICES ASSUME NEW i \in 1..Len(cuts)
               PROVE  StartCodeAt(seen', cuts[i] + 1)
    OBVIOUS
  <2>1. cuts[i] + 1 + 3 <= n
    BY <1>4 DEF StartCodeAt, n
  <2>2. cuts[i] + 1 \in 1..n
    BY <1>1, <1>4, <2>1
  <2> QED BY <1>2, <1>4, <2>2
<1>7. \A p \in 1..Len(seen') : StartCodeAt(seen', p) =>
        p = n - 2 \/ \E i \in 1..Len(cuts) : p = cuts[i] + 1 \/ p = cuts[i] + 5
  <2> SUFFICES ASSUME NEW p \in 1..Len(seen'), StartCodeAt(seen', p), p # n - 2
               PROVE  \E i \in 1..Len(cuts) : p = cuts[i] + 1 \/ p = cuts[i] + 5
    OBVIOUS
  <2>1. StartCodeAt(seen, p)
    BY <1>2
  <2>2. p \in 1..n
    BY <1>1, <2>1 DEF StartCodeAt, n
  <2> QED BY <1>5, <2>1, <2>2
<1>8. CASE previous_state' # StartCode
  <2>1. cuts' = cuts
    BY <1>8, InputEffect
  <2>2. \A p \in 1..Len(seen') : StartCodeAt(seen', p) => p # n - 2
    BY <1>2, <1>8
  <2> QED BY <1>6, <1>7, <2>1, <2>2
          DEF SplitExactlyAtStartCodes, CutsAtStartCodes, NoStartCodeMissed
<1>9. CASE previous_state' = StartCode /\ cuts' = Append(cuts, n - 3)
  <2>1. n - 3 \in Nat /\ n - 3 + 1 = n - 2 /\ Len(cuts) \in Nat
    BY <1>1, <1>3
  <2>2. /\ Len(cuts') = Len(cuts) + 1
        /\ \A i \in 1..Len(cuts) : cuts'[i] = cuts[i]
        /\ cuts'[Len(cuts) + 1] = n - 3
    BY <1>3, <1>9, <2>1, AppendProperties
  <2>3. CutsAtStartCodes'
    <3> SUFFICES ASSUME NEW i \in 1..Len(cuts')
                 PROVE  StartCodeAt(seen', cuts'[i] + 1)
      BY DEF CutsAtStartCodes
    <3>1. CASE i \in 1..Len(cuts)
      BY <1>6, <2>2, <3>1
    <3>2. CASE i = Len(cuts) + 1
      BY <1>2, <1>9, <2>1, <2>2, <3>2
    <3> QED BY <2>1, <2>2, <3>1, <3>2
  <2>4. NoStartCodeMissed'
    <3> SUFFICES ASSUME NEW p \in 1..Len(seen'), StartCodeAt(seen', p)
                 PROVE  \E i \in 1..Len(cuts') :
                          p = cuts'[i] + 1 \/ p = cuts'[i] + 5
      BY DEF NoStartCodeMissed
    <3>1. CASE p = n - 2
      <4>1. Len(cuts) + 1 \in 1..Len(cuts')
        BY <2>1, <2>2
      <4>2. p = cuts'[Len(cuts) + 1] + 1
        BY <2>1, <2>2, <3>1
      <4> QED BY <4>1, <4>2
    <3>2. CASE p # n - 2
      <4>1. PICK i \in 1..Len(cuts) : p = cuts[i] + 1 \/ p = cuts[i] + 5
        BY <1>7, <3>2
      <4>2. i \in 1..Len(cuts') /\ cuts'[i] = cuts[i]
        BY <2>1, <2>2
      <4> QED BY <4>1, <4>2
    <3> QED BY <3>1, <3>2
  <2> QED BY <2>3, <2>4 DEF SplitExactlyAtStartCodes
<1>10. CASE /\ previous_state' = StartCode /\ sync /\ ~(Len(buffer) > 4)
            /\ cuts' = cuts
  <2> DEFINE k == Len(cuts)
             c == cuts[k]
  <2>1. k \in 1..Len(cuts) /\ c \in Nat /\ StartCodeAt(seen, c + 1)
        /\ c + 4 <= n /\ Len(buffer) = n - 3 - c
    <3>1. Len(cuts) = Len(packets) + 1 /\ packets \in Seq(Seq(AnyByte))
          /\ cuts[Len(cuts)] + 4 <= n
      BY <1>10 DEF IInv, ViewerTypeOK, PacketsTileStream, BufferIsTail, n
    <3>2. Len(cuts) \in 1..Len(cuts)
      BY <3>1
    <3>3. Len(buffer) = n - 3 - cuts[Len(cuts)]
      BY <1>10, CollectedGrows DEF n
    <3> QED BY <1>4, <3>1, <3>2, <3>3
  <2> HIDE DEF k, c
  <2>2. n - 2 \in {c + 2, c + 3, c + 4, c + 5}
    BY <1>1, <1>10, <2>1
  <2>3. /\ seen'[n - 2] = 0 /\ seen'[n - 2 + 1] = 0 /\ seen'[n - 2 + 2] = 0
    BY <1>2, <1>10 DEF StartCodeAt
  <2>4. seen[c + 1 + 3] = 1
    BY <2>1 DEF StartCodeAt
  <2>5. seen'[c + 4] = 1
    BY <1>1, <2>1, <2>4
  <2>6. n - 2 = c + 5
    <3>1. n - 2 # c + 4
      BY <2>3, <2>5
    <3>2. n - 2 # c + 3
      <4>1. n - 2 = c + 3 => n - 2 + 1 = c + 4
        BY <1>1, <2>1
      <4> QED BY <2>3, <2>5, <4>1
    <3>3. n - 2 # c + 2
      <4>1. n - 2 = c + 2 => n - 2 + 2 = c + 4
        BY <1>1, <2>1
      <4> QED BY <2>3, <2>5, <4>1
    <3> QED BY <2>2, <3>1, <3>2, <3>3
  <2>7. CutsAtStartCodes'
    BY <1>6, <1>10 DEF CutsAtStartCodes
  <2>8. NoStartCodeMissed'
    BY <1>7, <1>10, <2>1, <2>6 DEF NoStartCodeMissed, c
  <2> QED BY <2>7, <2>8 DEF SplitExactlyAtStartCodes
<1> QED BY <1>3, <1>8, <1>9, <1>10, InputEffect DEF n

(* The reading loop of the viewer preserves the invariant. *)
LEMMA ReadIInv ==
  ASSUME IInv
  PROVE  /\ \A byte \in Byte : ReadByte(byte) => IInv'
         /\ ReadEof => IInv'
         /\ UNCHANGED viewerVars => IInv'
<1>1. ASSUME NEW byte \in AnyByte, Input(byte), eof' \in BOOLEAN
      PROVE  IInv'
  BY <1>1, InputTypes, InputTiles, InputSplits DEF IInv
<1>2. ASSUME NEW byte \in Byte, ReadByte(byte) PROVE IInv'
  BY SMTT(30), <1>1, <1>2 DEF ReadByte, AnyByte, IInv, ViewerTypeOK
<1>3. ASSUME ReadEof PROVE IInv'
  BY <1>1, <1>3 DEF ReadEof, AnyByte, EofByte
<1>4. ASSUME UNCHANGED viewerVars PROVE IInv'
  BY <1>4 DEF viewerVars, IInv, ViewerTypeOK, PacketsTileStream,
     RegisterIsTail, BufferIsTail, PacketsAreStretches,
     SplitExactlyAtStartCodes, CutsAtStartCodes, NoStartCodeMissed
<1> QED BY <1>2, <1>3, <1>4

(* The cuts are in the order of the stream. *)
CutsInOrder == \A i, j \in 1..Len(cuts) : i < j => cuts[i] < cuts[j]

LEMMA InputCutsInOrder ==
  ASSUME NEW byte \in AnyByte, IInv, Input(byte), CutsInOrder
  PROVE  CutsInOrder'
<1>1. cuts \in Seq(Nat) /\ Len(cuts) \in Nat /\ Len(seen) \in Nat /\ Len(seen) >= 4
  BY InputSeen DEF IInv, ViewerTypeOK
<1>2. \A i \in 1..Len(cuts) : cuts[i] \in Nat /\ cuts[i] + 4 <= Len(seen)
  <2> SUFFICES ASSUME NEW i \in 1..Len(cuts)
               PROVE  cuts[i] \in Nat /\ cuts[i] + 4 <= Len(seen)
    OBVIOUS
  <2>1. cuts[i] \in Nat
    BY <1>1, ElementOfSeq
  <2>2. cuts[i] + 1 + 3 <= Len(seen)
    BY DEF IInv, SplitExactlyAtStartCodes, CutsAtStartCodes, StartCodeAt
  <2> QED BY <1>1, <2>1, <2>2
<1>3. cuts' = cuts \/ cuts' = Append(cuts, Len(seen) - 3)
  BY DEF Input
<1>4. CASE cuts' = cuts
  BY <1>4 DEF CutsInOrder
<1>5. CASE cuts' = Append(cuts, Len(seen) - 3)
  <2>1. Len(seen) - 3 \in Nat
    BY <1>1
  <2>2. /\ Len(cuts') = Len(cuts) + 1
        /\ \A i \in 1..Len(cuts) : cuts'[i] = cuts[i]
        /\ cuts'[Len(cuts) + 1] = Len(seen) - 3
    BY <1>1, <1>5, <2>1, AppendProperties
  <2>3. \A i \in 1..Len(cuts) : cuts[i] < Len(seen) - 3
    BY <1>1, <1>2
  <2> SUFFICES ASSUME NEW i \in 1..Len(cuts'), NEW j \in 1..Len(cuts'), i < j
               PROVE  cuts'[i] < cuts'[j]
    BY DEF CutsInOrder
  <2>4. i \in 1..Len(cuts)
    BY <1>1, <2>2
  <2>5. CASE j \in 1..Len(cuts)
    BY <2>2, <2>4, <2>5 DEF CutsInOrder
  <2>6. CASE j = Len(cuts) + 1
    BY <2>2, <2>3, <2>4, <2>6
  <2> QED BY <1>1, <2>2, <2>5, <2>6
<1> QED BY <1>3, <1>4, <1>5

-----------------------------------------------------------------------------
(* The bytes seen and the bytes on the way, for the modules in which they  *)
(* come through a pipe.                                                    *)

(* A start code stays where it is when more is written. *)
LEMMA MarkSurvives ==
  ASSUME NEW s \in Seq(AnyByte), NEW t \in Seq(AnyByte), NEW q \in Nat \ {0},
         StartCodeAt(s, q)
  PROVE  StartCodeAt(s \o t, q)
<1>1. /\ Len(s \o t) = Len(s) + Len(t)
      /\ \A i \in 1..(Len(s) + Len(t)) :
           (s \o t)[i] = IF i <= Len(s) THEN s[i] ELSE t[i - Len(s)]
  BY ConcatProperties
<1>2. q + 3 <= Len(s) /\ Len(s) \in Nat /\ Len(t) \in Nat
  BY DEF StartCodeAt
<1>3. \A i \in q..(q + 3) : (s \o t)[i] = s[i]
  BY <1>1, <1>2
<1>4. q \in q..(q + 3) /\ q + 1 \in q..(q + 3) /\ q + 2 \in q..(q + 3)
      /\ q + 3 \in q..(q + 3)
  OBVIOUS
<1>5. q + 3 <= Len(s \o t)
  BY <1>1, <1>2
<1> HIDE DEF StartCodeAt
<1>6. s[q] = 0 /\ s[q + 1] = 0 /\ s[q + 2] = 0 /\ s[q + 3] = 1
  BY DEF StartCodeAt
<1> QED BY <1>3, <1>4, <1>5, <1>6 DEF StartCodeAt

(* A start code in the part of the stream that has been seen. *)
LEMMA MarkSeen ==
  ASSUME NEW s \in Seq(AnyByte), NEW t \in Seq(AnyByte), NEW q \in Nat \ {0},
         StartCodeAt(s \o t, q), q + 3 <= Len(s)
  PROVE  StartCodeAt(s, q)
<1>1. \A i \in 1..(Len(s) + Len(t)) :
        (s \o t)[i] = IF i <= Len(s) THEN s[i] ELSE t[i - Len(s)]
  BY ConcatProperties
<1>2. Len(s) \in Nat /\ Len(t) \in Nat
  OBVIOUS
<1>3. \A i \in q..(q + 3) : (s \o t)[i] = s[i]
  BY <1>1, <1>2
<1>4. q \in q..(q + 3) /\ q + 1 \in q..(q + 3) /\ q + 2 \in q..(q + 3)
      /\ q + 3 \in q..(q + 3)
  OBVIOUS
<1> QED BY <1>3, <1>4 DEF StartCodeAt

(* Reading a byte of a pipe does not change what was written to it. *)
LEMMA ReadingKeepsStream ==
  ASSUME NEW s \in Seq(AnyByte), NEW t \in Seq(AnyByte), t # <<>>
  PROVE  Append(s, Head(t)) \o Tail(t) = s \o t
<1>1. Head(t) \in AnyByte /\ Tail(t) \in Seq(AnyByte)
  BY HeadTailProperties
<1> DEFINE h == Head(t)
           u == Tail(t)
<1>2. t = <<h>> \o u
  OBVIOUS
<1> HIDE DEF h, u
<1>3. h \in AnyByte /\ u \in Seq(AnyByte) /\ <<h>> \in Seq(AnyByte)
  BY <1>1 DEF h, u
<1>4. Append(s, h) = s \o <<h>>
  BY <1>3, AppendIsConcat
<1>5. (s \o <<h>>) \o u = s \o (<<h>> \o u)
  BY <1>3, ConcatAssociative
<1> QED BY <1>2, <1>4, <1>5 DEF h, u

-----------------------------------------------------------------------------
(* Every step of the stdin viewer preserves the invariant. *)
LEMMA ViewerInductive ==
  ASSUME NEW CONSTANT maxInput
  PROVE  IInv /\ [ViewerNext(maxInput)]_viewerVars => IInv'
BY ReadIInv DEF ViewerNext

(* The splitter's state is well typed, for every alphabet and input        *)
(* (x264_destreamer and viewer_stdin's data).                              *)
THEOREM ViewerTypeCorrect ==
  ASSUME NEW CONSTANT maxInput
  PROVE  ViewerSpec(maxInput) => []ViewerTypeOK
<1>1. IInv => ViewerTypeOK
  BY DEF IInv
<1>2. ViewerInit => IInv
  BY InitIInv
<1>3. IInv /\ [ViewerNext(maxInput)]_viewerVars => IInv'
  BY ViewerInductive
<1> QED BY <1>1, <1>2, <1>3, PTL DEF ViewerSpec

(* x264_destreamer::input loses, duplicates and reorders no byte.          *)
THEOREM TilesStream ==
  ASSUME NEW CONSTANT maxInput
  PROVE  ViewerSpec(maxInput) => []PacketsTileStream
<1>1. IInv => PacketsTileStream
  BY DEF IInv
<1>2. ViewerInit => IInv
  BY InitIInv
<1>3. IInv /\ [ViewerNext(maxInput)]_viewerVars => IInv'
  BY ViewerInductive
<1> QED BY <1>1, <1>2, <1>3, PTL DEF ViewerSpec

(* x264_destreamer::input cuts its input exactly at the start codes.       *)
THEOREM SplitsAtStartCodes ==
  ASSUME NEW CONSTANT maxInput
  PROVE  ViewerSpec(maxInput) => []SplitExactlyAtStartCodes
<1>1. IInv => SplitExactlyAtStartCodes
  BY DEF IInv
<1>2. ViewerInit => IInv
  BY InitIInv
<1>3. IInv /\ [ViewerNext(maxInput)]_viewerVars => IInv'
  BY ViewerInductive
<1> QED BY <1>1, <1>2, <1>3, PTL DEF ViewerSpec

-----------------------------------------------------------------------------
(* Induction over the natural numbers, in the form that is used below: a   *)
(* set of them that is not empty has a least member.                       *)
LEMMA LeastMember ==
  ASSUME NEW T \in SUBSET Nat, T # {}
  PROVE  \E n \in T : \A m \in T : n <= m
<1> DEFINE R == OpToRel(<, Nat)
<1>1. IsWellFoundedOn(R, Nat)
  BY NatLessThanWellFounded
<1>2. \A m, n \in Nat : m < n => <<m, n>> \in R
  BY DEF OpToRel
<1> HIDE DEF R
<1>3. PICK n \in T : \A m \in T : ~(<<m, n>> \in R)
  BY <1>1, WFMin
<1>4. \A m \in T : m \in Nat /\ n \in Nat /\ ~(m < n)
  BY <1>2, <1>3
<1> QED BY <1>4

-----------------------------------------------------------------------------
(* Where get_next_block stops. *)
LEMMA NextBlockIs ==
  ASSUME NEW file \in Seq(AnyByte), NEW pos \in Nat
  PROVE  /\ GetNextBlock(file, pos) = EndOfStream \/
              /\ GetNextBlock(file, pos) \in Nat
              /\ pos < GetNextBlock(file, pos)
              /\ GetNextBlock(file, pos) <= Len(file)
         /\ (\A p \in Nat : StartCodeAt(file, p + 1) => p <= pos) =>
              GetNextBlock(file, pos) = EndOfStream
         /\ \A c \in Nat :
              /\ pos < c /\ StartCodeAt(file, c + 1)
              /\ \A p \in Nat : StartCodeAt(file, p + 1) => p <= pos \/ c <= p
              => GetNextBlock(file, pos) = c
<1> DEFINE Found == {p \in (pos + 1)..LastPosition(Len(file)) :
                       StartCodeAt(file, p + 1)}
<1>1. Len(file) \in Nat
  OBVIOUS
<1>2. GetNextBlock(file, pos) = IF Found = {} THEN EndOfStream ELSE Min(Found)
  BY DEF GetNextBlock
<1>3. /\ Found \in SUBSET Nat
      /\ \A p \in Found : pos < p /\ p <= Len(file) /\ StartCodeAt(file, p + 1)
  BY <1>1 DEF LastPosition
<1>4. \A p \in Nat : pos < p /\ StartCodeAt(file, p + 1) => p \in Found
  BY <1>1 DEF StartCodeAt, LastPosition
<1> HIDE DEF Found
<1>5. ASSUME Found # {}
      PROVE  Min(Found) \in Found /\ \A p \in Found : Min(Found) <= p
  <2>1. \E n \in Found : \A m \in Found : n <= m
    BY <1>3, <1>5, LeastMember
  <2> QED BY <2>1 DEF Min
<1>6. ASSUME NEW c \in Nat, pos < c, StartCodeAt(file, c + 1),
             \A p \in Nat : StartCodeAt(file, p + 1) => p <= pos \/ c <= p
      PROVE  GetNextBlock(file, pos) = c
  <2>1. c \in Found
    BY <1>4, <1>6
  <2>2. Min(Found) \in Nat /\ pos < Min(Found) /\ Min(Found) <= c
        /\ StartCodeAt(file, Min(Found) + 1)
    BY <1>3, <1>5, <2>1
  <2>3. c <= Min(Found)
    BY <1>6, <2>2
  <2> QED BY <1>2, <2>1, <2>2, <2>3
<1>7. ASSUME \A p \in Nat : StartCodeAt(file, p + 1) => p <= pos
      PROVE  GetNextBlock(file, pos) = EndOfStream
  BY <1>2, <1>3, <1>7
<1>8. \/ GetNextBlock(file, pos) = EndOfStream
      \/ /\ GetNextBlock(file, pos) \in Nat
         /\ pos < GetNextBlock(file, pos)
         /\ GetNextBlock(file, pos) <= Len(file)
  BY <1>2, <1>3, <1>5
<1> QED BY <1>6, <1>7, <1>8

(* The blocks from each position on, as the loop finds them. *)
BlocksFrom(file, From) ==
  [last_pos \in 0..Len(file) |->
     LET cur_pos == GetNextBlock(file, last_pos)
     IN  IF cur_pos = EndOfStream
           THEN <<>>
           ELSE <<SubSeq(file, last_pos + 1, cur_pos)>> \o From[cur_pos]]

(* Positions only grow, so this determines them: by induction from the end *)
(* of the file.                                                            *)
LEMMA BlocksRecursion ==
  ASSUME NEW file \in Seq(AnyByte)
  PROVE  \E From : From = BlocksFrom(file, From) /\ Blocks(file) = From[0]
<1> DEFINE N == Len(file)
           At(p, g) == IF GetNextBlock(file, p) = EndOfStream
                         THEN <<>>
                         ELSE <<SubSeq(file, p + 1, GetNextBlock(file, p))>>
                                \o g[GetNextBlock(file, p)]
           Solves(g, k) == g = [p \in k..N |-> At(p, g)]
           T == {d \in 0..N : ~ \E g : Solves(g, N - d)}
<1>1. N \in Nat
  OBVIOUS
<1>2. T = {}
  <2> SUFFICES ASSUME T # {} PROVE FALSE
    OBVIOUS
  <2>1. T \in SUBSET Nat
    BY <1>1
  <2>2. PICK d \in T : \A m \in T : d <= m
    <3> HIDE DEF T
    <3> QED BY <2>1, LeastMember
  <2>3. d \in 0..N /\ ~ \E g : Solves(g, N - d)
    OBVIOUS
  <2>4. \E g : d = 0 \/ Solves(g, N - d + 1)
    <3>1. CASE d = 0
      BY <3>1
    <3>2. CASE d # 0
      <4>1. d - 1 \in 0..N /\ ~(d <= d - 1) /\ N - (d - 1) = N - d + 1
        BY <1>1, <2>3, <3>2
      <4>2. d - 1 \notin T
        BY <2>2, <4>1
      <4>3. \E g : Solves(g, N - (d - 1))
        BY <4>1, <4>2
      <4> QED BY <4>1, <4>3
    <3> QED BY <3>1, <3>2
  <2>5. PICK g : d = 0 \/ Solves(g, N - d + 1)
    BY <2>4
  <2> DEFINE k == N - d
             h == [p \in k..N |-> IF p = k THEN At(k, g) ELSE g[p]]
  <2>6. k \in 0..N /\ (d = 0 <=> k = N)
    BY <1>1, <2>3
  <2>7. ASSUME NEW p \in k..N PROVE h[p] = At(p, h)
    <3>1. p \in Nat /\ k <= p /\ p <= N
      BY <1>1, <2>6
    <3> DEFINE next == GetNextBlock(file, p)
    <3>5. next = EndOfStream \/ (next \in Nat /\ p < next /\ next <= Len(file))
      BY <3>1, NextBlockIs
    <3>6. next = EndOfStream \/ (next \in k..N /\ next # k)
      <4> HIDE DEF next, k
      <4> QED BY <1>1, <2>6, <3>1, <3>5
    <3>2. next = EndOfStream \/ h[next] = g[next]
      <4> HIDE DEF next, k
      <4> QED BY <3>6
    <3>3. h[p] = At(p, g)
      <4>1. CASE p = k
        BY <4>1
      <4>2. CASE p # k
        <5>1. p \in (k + 1)..N /\ d # 0 /\ N - d + 1 = k + 1
          BY <1>1, <2>6, <3>1, <4>2
        <5>2. g = [q \in (k + 1)..N |-> At(q, g)]
          BY <2>5, <5>1
        <5> HIDE DEF At, k
        <5> QED BY <4>2, <5>1, <5>2
      <4> QED BY <4>1, <4>2
    <3>4. At(p, g) = At(p, h)
      <4> HIDE DEF h, k
      <4> QED BY <3>2
    <3> QED BY <3>3, <3>4
  <2>8. Solves(h, N - d)
    <3>1. h = [p \in k..N |-> h[p]]
      OBVIOUS
    <3> HIDE DEF h, At
    <3> QED BY <2>7, <3>1
  <2> QED BY <2>3, <2>8
<1>3. PICK g : Solves(g, 0)
  <2>1. N \in 0..N /\ N - N = 0
    BY <1>1
  <2>2. N \notin T
    <3> HIDE DEF T
    <3> QED BY <1>2
  <2>3. \E g : Solves(g, N - N)
    BY <2>1, <2>2
  <2> QED BY <2>1, <2>3
<1> DEFINE Chosen == CHOOSE From : From = BlocksFrom(file, From)
<1>4. g = BlocksFrom(file, g)
  BY <1>3 DEF BlocksFrom
<1>5. Chosen = BlocksFrom(file, Chosen)
  BY <1>4
<1>6. Blocks(file) = Chosen[0]
  BY DEF Blocks, BlocksFrom
<1> HIDE DEF Chosen
<1> QED BY <1>5, <1>6

-----------------------------------------------------------------------------
(* codes lists the positions of the start codes of file. *)
Lists(codes, file) ==
  /\ codes \in Seq(Nat)
  /\ \A i \in 1..Len(codes) : StartCodeAt(file, codes[i] + 1)
  /\ \A i, j \in 1..Len(codes) : i < j => codes[i] < codes[j]
  /\ \A p \in Nat : StartCodeAt(file, p + 1) => \E i \in 1..Len(codes) : codes[i] = p

(* The stretches between the start codes, from the k-th on. *)
StretchesFrom(k, codes, file) ==
  [i \in 1..(Len(codes) - k) |-> SubSeq(file, codes[k + i - 1] + 1, codes[k + i])]
Stretches(codes, file) == StretchesFrom(1, codes, file)

(* A function on an initial stretch of the numbers is a sequence. *)
LEMMA FunctionIsSeq ==
  ASSUME NEW S, NEW n \in Nat, NEW f \in [1..n -> S]
  PROVE  f \in Seq(S) /\ Len(f) = n
<1>1. f \in Seq(S)
  BY SeqDef
<1>2. Len(f) \in Nat /\ DOMAIN f = 1..Len(f) /\ DOMAIN f = 1..n
  BY <1>1, LenProperties
<1> QED BY <1>1, <1>2

(* The stretches lie in the file and can be told one by one. *)
LEMMA StretchesAre ==
  ASSUME NEW file \in Seq(AnyByte), NEW codes, Lists(codes, file),
         NEW k \in 1..Len(codes)
  PROVE  /\ StretchesFrom(k, codes, file) \in Seq(Seq(AnyByte))
         /\ Len(StretchesFrom(k, codes, file)) = Len(codes) - k
         /\ \A i \in 1..(Len(codes) - k) :
              /\ StretchesFrom(k, codes, file)[i]
                   = SubSeq(file, codes[k + i - 1] + 1, codes[k + i])
              /\ SubSeq(file, codes[k + i - 1] + 1, codes[k + i]) \in Seq(AnyByte)
<1> DEFINE L == Len(codes)
           n == L - k
<1>1. L \in Nat /\ codes \in Seq(Nat) /\ n \in Nat /\ Len(file) \in Nat
  BY DEF Lists
<1>2. ASSUME NEW i \in 1..n
      PROVE  SubSeq(file, codes[k + i - 1] + 1, codes[k + i]) \in Seq(AnyByte)
  <2>1. k + i - 1 \in 1..L /\ k + i \in 1..L
    BY <1>1
  <2>2. codes[k + i - 1] \in Nat /\ codes[k + i] \in Nat
    BY <1>1, <2>1
  <2>3. codes[k + i] + 1 + 3 <= Len(file)
    BY <2>1 DEF Lists, StartCodeAt
  <2>4. \A m \in (codes[k + i - 1] + 1)..codes[k + i] : m \in 1..Len(file)
    <3> DEFINE a == codes[k + i - 1]
               b == codes[k + i]
    <3>1. a \in Nat /\ b \in Nat /\ b + 1 + 3 <= Len(file)
      BY <2>2, <2>3
    <3> HIDE DEF a, b
    <3>2. \A m \in (a + 1)..b : m \in 1..Len(file)
      BY <1>1, <3>1
    <3> QED BY <3>2 DEF a, b
  <2>5. \A m \in (codes[k + i - 1] + 1)..codes[k + i] : file[m] \in AnyByte
    BY <2>4, ElementOfSeq
  <2> QED BY <2>2, <2>5, SubSeqProperties
<1>3. StretchesFrom(k, codes, file) \in [1..n -> Seq(AnyByte)]
  BY <1>2 DEF StretchesFrom
<1>4. \A i \in 1..n : StretchesFrom(k, codes, file)[i]
                        = SubSeq(file, codes[k + i - 1] + 1, codes[k + i])
  BY DEF StretchesFrom
<1> QED BY <1>1, <1>2, <1>3, <1>4, FunctionIsSeq

(* Started at a start code, the loop of destreamer.h yields the stretches  *)
(* from there on; started at 0, also what is in front of the first code.   *)
LEMMA ListedBlocks ==
  ASSUME NEW file \in Seq(AnyByte), NEW codes, Lists(codes, file),
         NEW From, From = BlocksFrom(file, From)
  PROVE  /\ \A k \in 1..Len(codes) : From[codes[k]] = StretchesFrom(k, codes, file)
         /\ From[0] = IF codes = <<>> THEN <<>>
                      ELSE IF codes[1] = 0 THEN From[codes[1]]
                      ELSE <<SubSeq(file, 1, codes[1])>> \o From[codes[1]]
<1> DEFINE N == Len(file)
           L == Len(codes)
<1>1. /\ N \in Nat /\ L \in Nat /\ codes \in Seq(Nat)
      /\ \A i \in 1..L : codes[i] \in Nat /\ codes[i] <= N
  <2>1. N \in Nat /\ L \in Nat /\ codes \in Seq(Nat)
    BY DEF Lists
  <2>2. ASSUME NEW i \in 1..L PROVE codes[i] \in Nat /\ codes[i] <= N
    <3>1. codes[i] \in Nat
      BY <2>1
    <3>2. codes[i] + 1 + 3 <= N
      BY DEF Lists, StartCodeAt
    <3> QED BY <2>1, <3>1, <3>2
  <2> QED BY <2>1, <2>2
<1>2. ASSUME NEW p \in 0..N
      PROVE  From[p] = IF GetNextBlock(file, p) = EndOfStream
                         THEN <<>>
                         ELSE <<SubSeq(file, p + 1, GetNextBlock(file, p))>>
                                \o From[GetNextBlock(file, p)]
  BY <1>2 DEF BlocksFrom
<1>3. ASSUME NEW k \in 1..L
      PROVE  GetNextBlock(file, codes[k]) =
               IF k = L THEN EndOfStream ELSE codes[k + 1]
  <2>1. codes[k] \in Nat
    BY <1>1
  <2>2. CASE k = L
    <3>1. ASSUME NEW p \in Nat, StartCodeAt(file, p + 1) PROVE p <= codes[k]
      <4>1. PICK i \in 1..L : codes[i] = p
        BY <3>1 DEF Lists
      <4>2. i = k \/ i < k
        BY <1>1, <2>2
      <4> QED BY <2>1, <4>1, <4>2 DEF Lists
    <3> QED BY <2>1, <2>2, <3>1, NextBlockIs
  <2>3. CASE k # L
    <3>1. k + 1 \in 1..L /\ k < k + 1
      BY <1>1, <2>3
    <3>2. /\ codes[k + 1] \in Nat /\ codes[k] < codes[k + 1]
          /\ StartCodeAt(file, codes[k + 1] + 1)
      BY <1>1, <3>1 DEF Lists
    <3>3. ASSUME NEW p \in Nat, StartCodeAt(file, p + 1)
          PROVE  p <= codes[k] \/ codes[k + 1] <= p
      <4>1. PICK i \in 1..L : codes[i] = p
        BY <3>3 DEF Lists
      <4>2. i = k \/ i < k \/ i = k + 1 \/ k + 1 < i
        BY <1>1
      <4>3. /\ i < k => codes[i] < codes[k]
            /\ k + 1 < i => codes[k + 1] < codes[i]
        BY <3>1 DEF Lists
      <4> QED BY <2>1, <3>2, <3>3, <4>1, <4>2, <4>3
    <3>4. GetNextBlock(file, codes[k]) = codes[k + 1]
      BY <2>1, <3>2, <3>3, NextBlockIs
    <3> QED BY <2>3, <3>4
  <2> QED BY <2>2, <2>3
<1>4. ASSUME NEW k \in 1..L, k # L
      PROVE  StretchesFrom(k, codes, file)
               = <<SubSeq(file, codes[k] + 1, codes[k + 1])>>
                   \o StretchesFrom(k + 1, codes, file)
  <2> DEFINE a == SubSeq(file, codes[k] + 1, codes[k + 1])
             s == StretchesFrom(k, codes, file)
             t == StretchesFrom(k + 1, codes, file)
             S == Seq(AnyByte)
  <2>1. /\ k + 1 \in 1..L /\ L - k \in Nat /\ L - (k + 1) \in Nat
        /\ L - k = L - (k + 1) + 1 /\ L - k >= 1
    BY <1>1, <1>4
  <2>4. s \in Seq(S) /\ Len(s) = L - k
        /\ \A i \in 1..(L - k) : s[i] = SubSeq(file, codes[k + i - 1] + 1, codes[k + i])
    BY StretchesAre
  <2>5. t \in Seq(S) /\ Len(t) = L - (k + 1)
        /\ \A i \in 1..(L - (k + 1)) :
             t[i] = SubSeq(file, codes[(k + 1) + i - 1] + 1, codes[(k + 1) + i])
    <3> DEFINE l == k + 1
    <3>1. l \in 1..L
      BY <2>1
    <3> HIDE DEF l
    <3>2. /\ StretchesFrom(l, codes, file) \in Seq(S)
          /\ Len(StretchesFrom(l, codes, file)) = L - l
          /\ \A i \in 1..(L - l) : StretchesFrom(l, codes, file)[i]
                                 = SubSeq(file, codes[l + i - 1] + 1, codes[l + i])
      BY <3>1, StretchesAre
    <3> QED BY <3>2 DEF l
  <2>6. s[1] = a
    <3>1. 1 \in 1..(L - k) /\ k + 1 - 1 = k
      BY <1>1, <2>1
    <3> QED BY <2>4, <3>1
  <2>7. ASSUME NEW i \in 1..(L - k), i # 1 PROVE s[i] = t[i - 1]
    <3>1. /\ i - 1 \in 1..(L - (k + 1))
          /\ (k + 1) + (i - 1) - 1 = k + i - 1 /\ (k + 1) + (i - 1) = k + i
      BY <1>1, <2>7
    <3>2. t[i - 1] = SubSeq(file, codes[(k + 1) + (i - 1) - 1] + 1, codes[(k + 1) + (i - 1)])
      BY <2>5, <3>1
    <3> QED BY <2>4, <3>1, <3>2
  <2>8. 1 \in 1..(L - k)
    BY <1>1, <2>1
  <2>9. a \in S
    BY <2>4, <2>6, <2>8, ElementOfSeq
  <2> HIDE DEF a, s, t, S
  <2>10. <<a>> \in Seq(S) /\ Len(<<a>>) = 1 /\ <<a>>[1] = a
    BY <2>9
  <2>11. /\ <<a>> \o t \in Seq(S) /\ Len(<<a>> \o t) = 1 + Len(t)
         /\ \A i \in 1..(1 + Len(t)) :
              (<<a>> \o t)[i] = IF i <= 1 THEN <<a>>[i] ELSE t[i - 1]
    BY <2>5, <2>10, ConcatProperties
  <2>12. Len(s) = Len(<<a>> \o t)
    <3>1. Len(<<a>> \o t) = 1 + Len(t)
      BY <2>11
    <3>2. Len(s) = L - k /\ Len(t) = L - (k + 1)
      BY <2>4, <2>5
    <3>3. L - k = 1 + (L - (k + 1))
      BY <1>1
    <3> QED BY <3>1, <3>2, <3>3
  <2>13. ASSUME NEW i \in 1..Len(s) PROVE s[i] = (<<a>> \o t)[i]
    <3>1. i \in 1..(L - k) /\ i \in 1..(1 + Len(t)) /\ (i <= 1 <=> i = 1)
      BY <2>1, <2>4, <2>5
    <3>2. (<<a>> \o t)[i] = IF i = 1 THEN a ELSE t[i - 1]
      BY <2>10, <2>11, <3>1
    <3> QED BY <2>6, <2>7, <3>1, <3>2
  <2>14. s = <<a>> \o t
    BY <2>4, <2>11, <2>12, <2>13, SeqEqual
  <2> QED BY <2>14 DEF a, s, t
<1>5. \A k \in 1..L : From[codes[k]] = StretchesFrom(k, codes, file)
  <2> DEFINE T == {d \in 0..(L - 1) : From[codes[L - d]] # StretchesFrom(L - d, codes, file)}
  <2>1. SUFFICES ASSUME T # {} PROVE FALSE
    <3> SUFFICES ASSUME NEW k \in 1..L, From[codes[k]] # StretchesFrom(k, codes, file)
                 PROVE  FALSE
      OBVIOUS
    <3>1. L - k \in 0..(L - 1) /\ L - (L - k) = k
      BY <1>1
    <3>2. L - k \in T
      BY <3>1
    <3> QED BY <2>1, <3>2
  <2>2. PICK d \in T : \A m \in T : d <= m
    <3>1. T \in SUBSET Nat
      BY <1>1
    <3> HIDE DEF T
    <3> QED BY <2>1, <3>1, LeastMember
  <2> DEFINE k == L - d
  <2>3. d \in 0..(L - 1) /\ From[codes[k]] # StretchesFrom(k, codes, file)
    OBVIOUS
  <2>4. k \in 1..L /\ (k = L <=> d = 0)
    BY <1>1, <2>3
  <2>5. codes[k] \in 0..N
    BY <1>1, <2>4
  <2>6. CASE k = L
    <3>1. From[codes[k]] = <<>>
      BY <1>2, <1>3, <2>4, <2>5, <2>6
    <3>2. StretchesFrom(k, codes, file) = <<>>
      <4>1. L - k = 0 /\ 1..0 = {}
        BY <1>1, <2>6
      <4> QED BY <4>1 DEF StretchesFrom
    <3> QED BY <2>3, <3>1, <3>2
  <2>7. CASE k # L
    <3>1. d - 1 \in 0..(L - 1) /\ L - (d - 1) = k + 1 /\ ~(d <= d - 1) /\ k + 1 \in 1..L
      BY <1>1, <2>3, <2>4, <2>7
    <3>2. d - 1 \notin T
      BY <2>2, <3>1
    <3>3. From[codes[k + 1]] = StretchesFrom(k + 1, codes, file)
      BY <3>1, <3>2
    <3>4. codes[k + 1] # EndOfStream
      BY <1>1, <3>1 DEF EndOfStream
    <3>5. From[codes[k]] = <<SubSeq(file, codes[k] + 1, codes[k + 1])>> \o From[codes[k + 1]]
      BY <1>2, <1>3, <2>4, <2>5, <2>7, <3>4
    <3> QED BY <1>4, <2>3, <2>4, <2>7, <3>3, <3>5
  <2> QED BY <2>6, <2>7
<1>6. From[0] = IF codes = <<>> THEN <<>>
                ELSE IF codes[1] = 0 THEN From[codes[1]]
                ELSE <<SubSeq(file, 1, codes[1])>> \o From[codes[1]]
  <2>1. 0 \in 0..N
    BY <1>1
  <2>2. CASE codes = <<>>
    <3>1. \A p \in Nat : ~StartCodeAt(file, p + 1)
      BY <2>2 DEF Lists
    <3> QED BY <1>2, <2>1, <2>2, <3>1, NextBlockIs
  <2>3. CASE codes # <<>> /\ codes[1] # 0
    <3>1. 1 \in 1..L /\ codes[1] \in Nat /\ 0 < codes[1] /\ StartCodeAt(file, codes[1] + 1)
      <4>1. 1 \in 1..L
        BY <1>1, <2>3
      <4> QED BY <1>1, <2>3, <4>1 DEF Lists
    <3>2. ASSUME NEW p \in Nat, StartCodeAt(file, p + 1) PROVE codes[1] <= p
      <4>1. PICK i \in 1..L : codes[i] = p
        BY <3>2 DEF Lists
      <4>2. i = 1 \/ 1 < i
        BY <1>1
      <4> QED BY <3>1, <4>1, <4>2 DEF Lists
    <3>3. GetNextBlock(file, 0) = codes[1]
      BY <3>1, <3>2, NextBlockIs
    <3>4. codes[1] # EndOfStream
      BY <3>1 DEF EndOfStream
    <3>5. From[0] = IF GetNextBlock(file, 0) = EndOfStream
                      THEN <<>>
                      ELSE <<SubSeq(file, 0 + 1, GetNextBlock(file, 0))>>
                             \o From[GetNextBlock(file, 0)]
      BY <1>2, <2>1
    <3>6. From[0] = <<SubSeq(file, 1, codes[1])>> \o From[codes[1]]
      <4>1. From[0] = <<SubSeq(file, 0 + 1, codes[1])>> \o From[codes[1]]
        BY <3>3, <3>4, <3>5, Zenon
      <4>2. 0 + 1 = 1
        OBVIOUS
      <4> QED BY <4>1, <4>2, Zenon
    <3> QED BY <2>3, <3>6
  <2>4. CASE codes # <<>> /\ codes[1] = 0
    BY <2>4
  <2> QED BY <2>2, <2>3, <2>4
<1> QED BY <1>5, <1>6

(* One start code or none: nothing is between two of them. *)
LEMMA NoStretches ==
  ASSUME NEW file, NEW codes, Len(codes) \in {0, 1}
  PROVE  Stretches(codes, file) = <<>>
<1>1. 1..(0 - 1) = {} /\ 1..(1 - 1) = {}
  OBVIOUS
<1>2. 1..(Len(codes) - 1) = {}
  BY <1>1, Zenon
<1> QED BY <1>2 DEF Stretches, StretchesFrom

(* The units of destreamer.h are the stretches between the start codes. *)
LEMMA UnitsListed ==
  ASSUME NEW file \in Seq(AnyByte), NEW codes, Lists(codes, file)
  PROVE  Units(file) = Stretches(codes, file)
<1>1. PICK From : From = BlocksFrom(file, From) /\ Blocks(file) = From[0]
  BY BlocksRecursion
<1>2. /\ \A k \in 1..Len(codes) : From[codes[k]] = StretchesFrom(k, codes, file)
      /\ From[0] = IF codes = <<>> THEN <<>>
                   ELSE IF codes[1] = 0 THEN From[codes[1]]
                   ELSE <<SubSeq(file, 1, codes[1])>> \o From[codes[1]]
  BY <1>1, ListedBlocks
<1>3. CASE codes = <<>>
  BY <1>1, <1>2, <1>3, EmptySeq, NoStretches DEF Units
<1>4. CASE codes # <<>>
  <2> DEFINE a == SubSeq(file, 1, codes[1])
             t == Stretches(codes, file)
  <2>1. 1 \in 1..Len(codes) /\ codes \in Seq(Nat)
    BY <1>4, EmptySeq DEF Lists
  <2>2. From[codes[1]] = t /\ t \in Seq(Seq(AnyByte))
    BY <1>2, <2>1, StretchesAre DEF Stretches
  <2>3. codes[1] \in Nat /\ codes[1] <= Len(file)
    <3>1. codes[1] \in Nat /\ StartCodeAt(file, codes[1] + 1)
      BY <2>1 DEF Lists
    <3> QED BY <3>1 DEF StartCodeAt
  <2>4. CASE codes[1] = 0
    <3>1. StartCodeAt(file, 1)
      <4>1. StartCodeAt(file, codes[1] + 1)
        BY <2>1 DEF Lists
      <4> QED BY <2>4, <4>1
    <3>2. Blocks(file) = t
      BY <1>1, <1>2, <1>4, <2>2, <2>4
    <3> QED BY <1>4, <3>1, <3>2 DEF Units
  <2>5. CASE codes[1] # 0
    <3>1. ~StartCodeAt(file, 1)
      <4> SUFFICES ASSUME StartCodeAt(file, 0 + 1) PROVE FALSE
        OBVIOUS
      <4>1. PICK i \in 1..Len(codes) : codes[i] = 0
        BY DEF Lists
      <4>2. i # 1 /\ 1 < i
        BY <2>1, <2>5, <4>1
      <4>3. codes[1] < codes[i]
        BY <2>1, <4>2 DEF Lists
      <4> QED BY <2>3, <4>1, <4>3
    <3>2. Blocks(file) = <<a>> \o t
      BY <1>1, <1>2, <1>4, <2>2, <2>5
    <3>3. a \in Seq(AnyByte)
      <4>1. \A m \in 1..codes[1] : file[m] \in AnyByte
        BY <2>3, ElementOfSeq
      <4> QED BY <2>3, <4>1, SubSeqProperties
    <3> HIDE DEF a, t
    <3>4. <<a>> \o t # <<>> /\ Tail(<<a>> \o t) = t
      <4>1. <<a>> \in Seq(Seq(AnyByte)) /\ Len(<<a>>) = 1
        BY <3>3
      <4>2. /\ <<a>> \o t \in Seq(Seq(AnyByte)) /\ Len(<<a>> \o t) = 1 + Len(t)
            /\ \A i \in 1..(1 + Len(t)) :
                 (<<a>> \o t)[i] = IF i <= 1 THEN <<a>>[i] ELSE t[i - 1]
        BY <2>2, <4>1, ConcatProperties
      <4>3. Len(t) \in Nat
        BY <2>2
      <4>4. <<a>> \o t # <<>>
        BY <4>2, <4>3, EmptySeq
      <4>5. /\ Tail(<<a>> \o t) \in Seq(Seq(AnyByte))
            /\ Len(Tail(<<a>> \o t)) = Len(t)
            /\ \A i \in 1..Len(t) : Tail(<<a>> \o t)[i] = (<<a>> \o t)[i + 1]
        BY <4>2, <4>3, <4>4, HeadTailProperties
      <4>6. ASSUME NEW i \in 1..Len(t) PROVE Tail(<<a>> \o t)[i] = t[i]
        <5>1. i + 1 \in 1..(1 + Len(t)) /\ ~(i + 1 <= 1) /\ (i + 1) - 1 = i
          BY <4>3
        <5> QED BY <4>2, <4>5, <5>1
      <4>7. Tail(<<a>> \o t) = t
        BY <2>2, <4>5, <4>6, SeqEqual
      <4> QED BY <4>4, <4>7
    <3> QED BY <1>4, <3>1, <3>2, <3>4 DEF Units, t
  <2> QED BY <2>4, <2>5
<1> QED BY <1>3, <1>4

-----------------------------------------------------------------------------
(* What is joined after each unit. *)
JoinedAfter(units, After) ==
  [n \in 0..Len(units) |->
     IF n = 0 THEN [out |-> <<>>, held |-> <<>>]
              ELSE Join(After[n - 1], units[n])]

(* The recursive function of Joined exists and has its defining equation. *)
LEMMA JoinedRecursion ==
  ASSUME NEW S, NEW units \in Seq(S)
  PROVE  \E After : /\ After = JoinedAfter(units, After)
                    /\ Joined(units) = After[Len(units)]
<1> DEFINE N == Len(units)
           At(n, g) == IF n = 0 THEN [out |-> <<>>, held |-> <<>>]
                                ELSE Join(g[n - 1], units[n])
           Solves(g, k) == g = [n \in 0..k |-> At(n, g)]
           T == {k \in 0..N : ~ \E g : Solves(g, k)}
<1>1. N \in Nat
  OBVIOUS
<1>2. T = {}
  <2> SUFFICES ASSUME T # {} PROVE FALSE
    OBVIOUS
  <2>1. PICK k \in T : \A m \in T : k <= m
    <3>1. T \in SUBSET Nat
      BY <1>1
    <3> HIDE DEF T
    <3> QED BY <3>1, LeastMember
  <2>2. k \in 0..N /\ ~ \E g : Solves(g, k)
    OBVIOUS
  <2>3. \E g : k = 0 \/ Solves(g, k - 1)
    <3>1. CASE k = 0
      BY <3>1
    <3>2. CASE k # 0
      <4>1. k - 1 \in 0..N /\ ~(k <= k - 1)
        BY <1>1, <2>2, <3>2
      <4>2. k - 1 \notin T
        BY <2>1, <4>1
      <4> QED BY <4>1, <4>2
    <3> QED BY <3>1, <3>2
  <2>4. PICK g : k = 0 \/ Solves(g, k - 1)
    BY <2>3
  <2> DEFINE h == [n \in 0..k |-> IF n = k THEN At(k, g) ELSE g[n]]
  <2>5. ASSUME NEW n \in 0..k PROVE h[n] = At(n, h)
    <3>1. n \in Nat /\ n <= k /\ k \in Nat
      BY <1>1, <2>2
    <3>2. h[n] = At(n, g)
      <4>1. CASE n = k
        BY <4>1
      <4>2. CASE n # k
        <5>1. n \in 0..(k - 1) /\ k # 0
          BY <3>1, <4>2
        <5>2. g = [m \in 0..(k - 1) |-> At(m, g)]
          BY <2>4, <5>1
        <5> HIDE DEF At
        <5> QED BY <4>2, <5>1, <5>2
      <4> QED BY <4>1, <4>2
    <3>3. n = 0 \/ h[n - 1] = g[n - 1]
      <4>1. n # 0 => n - 1 \in 0..k /\ n - 1 # k
        BY <3>1
      <4> QED BY <4>1
    <3>4. At(n, g) = At(n, h)
      <4> HIDE DEF h
      <4> QED BY <3>3
    <3> QED BY <3>2, <3>4
  <2>6. Solves(h, k)
    <3>1. h = [n \in 0..k |-> h[n]]
      OBVIOUS
    <3> HIDE DEF h, At
    <3> QED BY <2>5, <3>1
  <2> QED BY <2>2, <2>6
<1>3. PICK g : Solves(g, N)
  <2>1. N \in 0..N
    BY <1>1
  <2>2. N \notin T
    <3> HIDE DEF T
    <3> QED BY <1>2
  <2> QED BY <2>1, <2>2
<1> DEFINE Chosen == CHOOSE After : After = JoinedAfter(units, After)
<1>4. g = JoinedAfter(units, g)
  BY <1>3 DEF JoinedAfter
<1>5. Chosen = JoinedAfter(units, Chosen)
  BY <1>4
<1>6. Joined(units) = Chosen[N]
  BY DEF Joined, JoinedAfter
<1> HIDE DEF Chosen
<1> QED BY <1>5, <1>6

(* One more unit is joined to what the ones before it left. *)
LEMMA JoinedOfAppend ==
  ASSUME NEW S, NEW units \in Seq(S), NEW unit \in S
  PROVE  Joined(Append(units, unit)) = Join(Joined(units), unit)
<1> DEFINE N == Len(units)
           more == Append(units, unit)
<1>1. /\ N \in Nat /\ more \in Seq(S) /\ Len(more) = N + 1 /\ more[N + 1] = unit
      /\ \A i \in 1..N : more[i] = units[i]
  BY AppendProperties
<1> HIDE DEF more
<1>2. PICK f : f = JoinedAfter(units, f) /\ Joined(units) = f[N]
  BY JoinedRecursion
<1>3. PICK g : g = JoinedAfter(more, g) /\ Joined(more) = g[Len(more)]
  BY <1>1, JoinedRecursion
<1>4. ASSUME NEW n \in 0..N
      PROVE  f[n] = IF n = 0 THEN [out |-> <<>>, held |-> <<>>]
                             ELSE Join(f[n - 1], units[n])
  BY <1>2, <1>4 DEF JoinedAfter
<1>5. ASSUME NEW n \in 0..(N + 1)
      PROVE  g[n] = IF n = 0 THEN [out |-> <<>>, held |-> <<>>]
                             ELSE Join(g[n - 1], more[n])
  BY <1>1, <1>3, <1>5 DEF JoinedAfter
<1>6. f[N] = g[N]
  <2> DEFINE T == {n \in 0..N : f[n] # g[n]}
  <2>1. SUFFICES ASSUME T # {} PROVE FALSE
    <3>1. N \in 0..N
      BY <1>1
    <3> QED BY <2>1, <3>1
  <2>2. PICK n \in T : \A m \in T : n <= m
    <3>1. T \in SUBSET Nat
      BY <1>1
    <3> HIDE DEF T
    <3> QED BY <2>1, <3>1, LeastMember
  <2>3. n \in 0..N /\ n \in 0..(N + 1) /\ f[n] # g[n]
    BY <1>1
  <2>4. n # 0
    BY <1>4, <1>5, <2>3
  <2>5. n - 1 \in 0..N /\ ~(n <= n - 1) /\ n \in 1..N
    BY <1>1, <2>3, <2>4
  <2>6. f[n - 1] = g[n - 1] /\ more[n] = units[n]
    BY <1>1, <2>2, <2>5
  <2>7. f[n] = Join(f[n - 1], units[n]) /\ g[n] = Join(g[n - 1], more[n])
    BY <1>4, <1>5, <2>3, <2>4
  <2> QED BY <2>3, <2>6, <2>7
<1>7. g[N + 1] = Join(g[N], more[N + 1])
  <2>1. N + 1 \in 0..(N + 1) /\ N + 1 # 0 /\ (N + 1) - 1 = N
    BY <1>1
  <2> QED BY <1>5, <2>1
<1> QED BY <1>1, <1>2, <1>3, <1>6, <1>7 DEF more

(* Nothing is joined at first. *)
LEMMA JoinedOfNone == Joined(<<>>) = [out |-> <<>>, held |-> <<>>]
<1>1. <<>> \in Seq({}) /\ Len(<<>>) = 0
  BY EmptySeq
<1>2. PICK f : f = JoinedAfter(<<>>, f) /\ Joined(<<>>) = f[Len(<<>>)]
  BY <1>1, JoinedRecursion
<1>3. f[0] = [out |-> <<>>, held |-> <<>>]
  BY <1>1, <1>2 DEF JoinedAfter
<1> QED BY <1>1, <1>2, <1>3

-----------------------------------------------------------------------------
(* What a byte at the end of the file changes. *)
LEMMA FileGrows ==
  ASSUME NEW file \in Seq(AnyByte), NEW byte \in AnyByte
  PROVE  /\ \A p \in Nat : StartCodeAt(file, p + 1) => StartCodeAt(Append(file, byte), p + 1)
         /\ \A p \in Nat : StartCodeAt(Append(file, byte), p + 1) =>
              StartCodeAt(file, p + 1) \/ p = Len(file) - 3
<1> DEFINE more == Append(file, byte)
           n == Len(file)
<1>1. n \in Nat /\ Len(more) = n + 1 /\ \A i \in 1..n : more[i] = file[i]
  BY AppendProperties
<1> HIDE DEF more, n
<1>2. ASSUME NEW p \in Nat, p + 1 + 3 <= n
      PROVE  /\ more[p + 1] = file[p + 1] /\ more[p + 1 + 1] = file[p + 1 + 1]
             /\ more[p + 1 + 2] = file[p + 1 + 2] /\ more[p + 1 + 3] = file[p + 1 + 3]
             /\ p + 1 + 3 <= Len(more)
  <2>1. p + 1 \in 1..n /\ p + 1 + 1 \in 1..n /\ p + 1 + 2 \in 1..n /\ p + 1 + 3 \in 1..n
    BY <1>1, <1>2
  <2> QED BY <1>1, <2>1
<1>3. ASSUME NEW p \in Nat, StartCodeAt(file, p + 1) PROVE StartCodeAt(more, p + 1)
  <2>1. p + 1 + 3 <= n
    BY <1>3 DEF StartCodeAt, n
  <2> QED BY <1>2, <1>3, <2>1 DEF StartCodeAt
<1>4. ASSUME NEW p \in Nat, StartCodeAt(more, p + 1), p # n - 3
      PROVE  StartCodeAt(file, p + 1)
  <2>1. p + 1 + 3 <= n
    BY <1>1, <1>4 DEF StartCodeAt
  <2> QED BY <1>2, <1>4, <2>1 DEF StartCodeAt, n
<1> QED BY <1>3, <1>4 DEF more, n

(* The list of the start codes grows exactly when the byte completes one. *)
LEMMA ListsGrow ==
  ASSUME NEW file \in Seq(AnyByte), NEW byte \in AnyByte, NEW codes, Lists(codes, file)
  PROVE  /\ ~(Len(file) - 3 \in Nat /\ StartCodeAt(Append(file, byte), Len(file) - 3 + 1)) =>
              Lists(codes, Append(file, byte))
         /\ Len(file) - 3 \in Nat /\ StartCodeAt(Append(file, byte), Len(file) - 3 + 1) =>
              Lists(Append(codes, Len(file) - 3), Append(file, byte))
<1> DEFINE more == Append(file, byte)
           q == Len(file) - 3
           longer == Append(codes, q)
           L == Len(codes)
<1>1. /\ codes \in Seq(Nat) /\ L \in Nat /\ Len(file) \in Nat
      /\ \A i \in 1..L : codes[i] \in Nat /\ codes[i] < q
  <2>1. codes \in Seq(Nat) /\ L \in Nat /\ Len(file) \in Nat
    BY DEF Lists
  <2>2. ASSUME NEW i \in 1..L PROVE codes[i] \in Nat /\ codes[i] < q
    <3>1. codes[i] \in Nat
      BY <2>1
    <3>2. codes[i] + 1 + 3 <= Len(file)
      BY DEF Lists, StartCodeAt
    <3> QED BY <2>1, <3>1, <3>2
  <2> QED BY <2>1, <2>2
<1>2. /\ \A p \in Nat : StartCodeAt(file, p + 1) => StartCodeAt(more, p + 1)
      /\ \A p \in Nat : StartCodeAt(more, p + 1) => StartCodeAt(file, p + 1) \/ p = q
  BY FileGrows
<1> HIDE DEF more, q
<1>3. ASSUME ~(q \in Nat /\ StartCodeAt(more, q + 1)) PROVE Lists(codes, more)
  <2>1. \A p \in Nat : StartCodeAt(more, p + 1) => StartCodeAt(file, p + 1)
    BY <1>2, <1>3
  <2> QED BY <1>1, <1>2, <2>1 DEF Lists
<1>4. ASSUME StartCodeAt(more, q + 1), q \in Nat PROVE Lists(longer, more)
  <2>1. /\ longer \in Seq(Nat) /\ Len(longer) = L + 1 /\ longer[L + 1] = q
        /\ \A i \in 1..L : longer[i] = codes[i]
    BY <1>1, <1>4, AppendProperties
  <2> HIDE DEF longer
  <2>2. ASSUME NEW i \in 1..(L + 1) PROVE i \in 1..L \/ i = L + 1
    BY <1>1
  <2>3. \A i \in 1..(L + 1) : StartCodeAt(more, longer[i] + 1)
    BY <1>1, <1>2, <1>4, <2>1, <2>2 DEF Lists
  <2>4. ASSUME NEW i \in 1..(L + 1), NEW j \in 1..(L + 1), i < j
        PROVE  longer[i] < longer[j]
    <3>1. i \in 1..L /\ (j \in 1..L \/ j = L + 1)
      <4>1. i \in Nat /\ j \in Nat /\ 1 <= i /\ 1 <= j /\ j <= L + 1 /\ i < j
        BY <1>1, <2>4
      <4>2. i <= L
        BY <1>1, <4>1
      <4> QED BY <1>1, <2>2, <4>1, <4>2
    <3> QED BY <1>1, <2>1, <2>4, <3>1 DEF Lists
  <2>5. ASSUME NEW p \in Nat, StartCodeAt(more, p + 1)
        PROVE  \E i \in 1..(L + 1) : longer[i] = p
    <3>1. CASE p = q
      <4>1. L + 1 \in 1..(L + 1)
        BY <1>1
      <4> QED BY <2>1, <3>1, <4>1
    <3>2. CASE p # q
      <4>1. PICK i \in 1..L : codes[i] = p
        BY <1>2, <2>5, <3>2 DEF Lists
      <4>2. i \in 1..(L + 1)
        BY <1>1
      <4> QED BY <2>1, <4>1, <4>2
    <3> QED BY <3>1, <3>2
  <2> QED BY <2>1, <2>3, <2>4, <2>5 DEF Lists
<1> QED BY <1>3, <1>4 DEF more, q

(* The stretches that are there do not change... *)
LEMMA StretchesGrow ==
  ASSUME NEW file \in Seq(AnyByte), NEW codes, NEW byte \in AnyByte, Lists(codes, file)
  PROVE  Stretches(codes, Append(file, byte)) = Stretches(codes, file)
<1> DEFINE L == Len(codes)
<1>1. codes \in Seq(Nat) /\ L \in Nat /\ Len(file) \in Nat
  BY DEF Lists
<1>2. ASSUME NEW i \in 1..(L - 1)
      PROVE  SubSeq(Append(file, byte), codes[1 + i - 1] + 1, codes[1 + i])
               = SubSeq(file, codes[1 + i - 1] + 1, codes[1 + i])
  <2> DEFINE a == codes[1 + i - 1]
             b == codes[1 + i]
  <2>1. 1 + i - 1 \in 1..L /\ 1 + i \in 1..L
    BY <1>1
  <2>2. a \in Nat /\ b \in Nat /\ b + 1 + 3 <= Len(file)
    <3>1. a \in Nat /\ b \in Nat
      BY <1>1, <2>1
    <3>2. StartCodeAt(file, b + 1)
      BY <2>1 DEF Lists
    <3> HIDE DEF a, b
    <3> QED BY <3>1, <3>2 DEF StartCodeAt
  <2> HIDE DEF a, b
  <2>3. a + 1 \in Nat \ {0} /\ b <= Len(file)
    BY <1>1, <2>2
  <2>4. SubSeq(Append(file, byte), a + 1, b) = SubSeq(file, a + 1, b)
    BY <2>2, <2>3, StretchOfAppend
  <2> QED BY <2>4 DEF a, b
<1> QED BY <1>2 DEF Stretches, StretchesFrom

(* ...and one more start code ends one more of them. *)
LEMMA StretchAdded ==
  ASSUME NEW file \in Seq(AnyByte), NEW byte \in AnyByte,
         NEW codes \in Seq(Nat), NEW q \in Nat, Len(codes) # 0,
         Lists(codes, file), Lists(Append(codes, q), Append(file, byte))
  PROVE  /\ Stretches(codes, file) \in Seq(Seq(AnyByte))
         /\ SubSeq(Append(file, byte), codes[Len(codes)] + 1, q) \in Seq(AnyByte)
         /\ Stretches(Append(codes, q), Append(file, byte))
              = Append(Stretches(codes, file),
                       SubSeq(Append(file, byte), codes[Len(codes)] + 1, q))
<1> DEFINE L == Len(codes)
           more == Append(file, byte)
           longer == Append(codes, q)
           u == SubSeq(more, codes[L] + 1, q)
           s == Stretches(codes, file)
           t == Stretches(longer, more)
<1>1. codes \in Seq(Nat) /\ L \in Nat /\ L > 0
  OBVIOUS
<1>2. /\ longer \in Seq(Nat) /\ Len(longer) = L + 1 /\ longer[L + 1] = q
      /\ \A i \in 1..L : longer[i] = codes[i]
  BY <1>1, AppendProperties
<1> HIDE DEF longer
<1>3. /\ s \in Seq(Seq(AnyByte)) /\ Len(s) = L - 1
      /\ \A i \in 1..(L - 1) : s[i] = SubSeq(more, codes[1 + i - 1] + 1, codes[1 + i])
  <2>1. 1 \in 1..L
    BY <1>1
  <2>2. s \in Seq(Seq(AnyByte)) /\ Len(s) = L - 1
    BY <2>1, StretchesAre DEF Stretches
  <2>3. s = Stretches(codes, more)
    BY StretchesGrow
  <2>4. \A i \in 1..(L - 1) :
          Stretches(codes, more)[i] = SubSeq(more, codes[1 + i - 1] + 1, codes[1 + i])
    BY DEF Stretches, StretchesFrom
  <2> HIDE DEF s
  <2> QED BY <2>2, <2>3, <2>4
<1>4. /\ t \in Seq(Seq(AnyByte)) /\ Len(t) = L
      /\ \A i \in 1..L : /\ t[i] = SubSeq(more, longer[1 + i - 1] + 1, longer[1 + i])
                         /\ SubSeq(more, longer[1 + i - 1] + 1, longer[1 + i]) \in Seq(AnyByte)
  <2>1. 1 \in 1..Len(longer) /\ Len(longer) - 1 = L
    BY <1>1, <1>2
  <2>2. Lists(longer, more) /\ more \in Seq(AnyByte)
    BY AppendProperties DEF longer
  <2>3. /\ t \in Seq(Seq(AnyByte)) /\ Len(t) = Len(longer) - 1
        /\ \A i \in 1..(Len(longer) - 1) :
             /\ t[i] = SubSeq(more, longer[1 + i - 1] + 1, longer[1 + i])
             /\ SubSeq(more, longer[1 + i - 1] + 1, longer[1 + i]) \in Seq(AnyByte)
    BY <2>1, <2>2, StretchesAre DEF Stretches
  <2> QED BY <2>1, <2>3
<1>5. t[L] = u /\ u \in Seq(AnyByte)
  <2>1. L \in 1..L /\ 1 + L - 1 = L /\ 1 + L = L + 1
    BY <1>1
  <2>2. longer[1 + L - 1] = codes[L] /\ longer[1 + L] = q
    BY <1>2, <2>1
  <2> QED BY <1>4, <2>1, <2>2
<1>6. ASSUME NEW i \in 1..(L - 1) PROVE t[i] = s[i]
  <2>1. i \in 1..L /\ 1 + i - 1 \in 1..L /\ 1 + i \in 1..L
    BY <1>1
  <2>2. longer[1 + i - 1] = codes[1 + i - 1] /\ longer[1 + i] = codes[1 + i]
    BY <1>2, <2>1
  <2> QED BY <1>3, <1>4, <2>1, <2>2
<1> HIDE DEF s, t, u
<1>7. /\ Append(s, u) \in Seq(Seq(AnyByte)) /\ Len(Append(s, u)) = (L - 1) + 1
      /\ \A i \in 1..(L - 1) : Append(s, u)[i] = s[i]
      /\ Append(s, u)[(L - 1) + 1] = u
  BY <1>3, <1>5, AppendProperties
<1>8. (L - 1) + 1 = L /\ \A i \in 1..L : i \in 1..(L - 1) \/ i = L
  BY <1>1
<1>9. t = Append(s, u)
  <2>1. Len(t) = Len(Append(s, u))
    BY <1>4, <1>7, <1>8
  <2>2. \A i \in 1..L : t[i] = Append(s, u)[i]
    BY <1>5, <1>6, <1>7, <1>8
  <2> QED BY <1>4, <1>7, <2>1, <2>2, SeqEqual
<1> QED BY <1>3, <1>5, <1>9 DEF s, t, u, longer

-----------------------------------------------------------------------------
(* The register starts full of ones; 255 is what EOF becomes, too. *)
OnesAround ==
  /\ Len(seen) >= 4 /\ \A i \in 1..4 : seen[i] = 255
  /\ eof => Len(seen) >= 5 /\ seen[Len(seen)] = 255

(* What has been joined so far: the packets, and what is between the last  *)
(* cut and the last start code, which is nothing or a bare start code.     *)
LastCut == cuts[Len(cuts)]
Agreeing(codes) ==
  /\ Lists(codes, File)
  /\ sync <=> codes # <<>>
  /\ sync => LastCut <= codes[Len(codes)] + 4
  /\ Joined(Stretches(codes, File)) =
       [out  |-> packets,
        held |-> IF sync THEN SubSeq(seen, LastCut + 1, codes[Len(codes)] + 4) ELSE <<>>]
AgreeInv == IInv /\ OnesAround /\ \E codes : Agreeing(codes)

(* A file behind the register's first content, before e bytes of EOF. *)
LEMMA FileOf ==
  ASSUME NEW stream \in Seq(AnyByte), NEW e \in {0, 1}, Len(stream) - e >= 4,
         NEW file, file = SubSeq(stream, 5, Len(stream) - e)
  PROVE  /\ file \in Seq(AnyByte)
         /\ Len(file) = Len(stream) - 4 - e
         /\ Len(file) \in Nat
         /\ \A i \in 1..Len(file) : file[i] = stream[i + 4]
         /\ \A a \in Nat, b \in Nat : b <= Len(file) =>
              SubSeq(file, a + 1, b) = SubSeq(stream, (a + 4) + 1, b + 4)
<1> DEFINE n == Len(stream)
<1>1. n \in Nat
  OBVIOUS
<1>2. n - e >= 4 /\ n - e <= n
  BY <1>1
<1>3. file = SubSeq(stream, 5, n - e)
  OBVIOUS
<1>4. \A i \in 5..(n - e) : stream[i] \in AnyByte
  <2>1. \A i \in 5..(n - e) : i \in 1..n
    BY <1>1, <1>2
  <2> QED BY <1>1, <2>1, ElementOfSeq
<1>5. /\ file \in Seq(AnyByte)
      /\ Len(file) = IF 5 <= n - e THEN (n - e) - 5 + 1 ELSE 0
      /\ \A i \in 1..((n - e) - 5 + 1) : file[i] = stream[5 + i - 1]
  BY <1>1, <1>2, <1>3, <1>4, SubSeqProperties
<1>6. Len(file) = n - 4 - e /\ Len(file) \in Nat
  BY <1>1, <1>2, <1>5
<1>7. ASSUME NEW i \in 1..Len(file) PROVE file[i] = stream[i + 4]
  <2>1. i \in 1..((n - e) - 5 + 1) /\ 5 + i - 1 = i + 4
    BY <1>1, <1>2, <1>6
  <2> QED BY <1>5, <2>1
<1>8. ASSUME NEW a \in Nat, NEW b \in Nat, b <= Len(file)
      PROVE  SubSeq(file, a + 1, b) = SubSeq(stream, (a + 4) + 1, b + 4)
  <2> DEFINE u == SubSeq(file, a + 1, b)
             v == SubSeq(stream, (a + 4) + 1, b + 4)
  <2>1. \A i \in (a + 1)..b : i \in 1..Len(file)
    BY <1>6, <1>8
  <2>2. \A i \in (a + 1)..b : file[i] \in AnyByte
    BY <1>5, <2>1, ElementOfSeq
  <2>3. \A i \in ((a + 4) + 1)..(b + 4) : i \in 1..n
    BY <1>1, <1>2, <1>6, <1>8
  <2>4. \A i \in ((a + 4) + 1)..(b + 4) : stream[i] \in AnyByte
    BY <1>1, <2>3, ElementOfSeq
  <2>5. /\ u \in Seq(AnyByte) /\ Len(u) = IF a + 1 <= b THEN b - (a + 1) + 1 ELSE 0
        /\ \A i \in 1..(b - (a + 1) + 1) : u[i] = file[(a + 1) + i - 1]
    <3> DEFINE m == a + 1
    <3>1. m \in Int /\ b \in Int /\ \A i \in m..b : file[i] \in AnyByte
      <4>1. m \in Int
        OBVIOUS
      <4>2. b \in Int
        OBVIOUS
      <4> QED BY <2>2, <4>1, <4>2, Zenon
    <3> HIDE DEF m
    <3>2. /\ SubSeq(file, m, b) \in Seq(AnyByte)
          /\ Len(SubSeq(file, m, b)) = IF m <= b THEN b - m + 1 ELSE 0
          /\ \A i \in 1..(b - m + 1) : SubSeq(file, m, b)[i] = file[m + i - 1]
      BY ONLY <3>1, SubSeqProperties
    <3> QED BY <3>2 DEF m
  <2>6. /\ v \in Seq(AnyByte)
        /\ Len(v) = IF (a + 4) + 1 <= b + 4 THEN (b + 4) - ((a + 4) + 1) + 1 ELSE 0
        /\ \A i \in 1..((b + 4) - ((a + 4) + 1) + 1) : v[i] = stream[((a + 4) + 1) + i - 1]
    BY <2>4, SubSeqProperties
  <2> HIDE DEF u, v
  <2>7. Len(u) = Len(v)
    BY <2>5, <2>6
  <2>8. ASSUME NEW i \in 1..Len(u) PROVE u[i] = v[i]
    <3>1. /\ i \in 1..(b - (a + 1) + 1) /\ i \in 1..((b + 4) - ((a + 4) + 1) + 1)
          /\ (a + 1) + i - 1 \in 1..Len(file)
          /\ ((a + 4) + 1) + i - 1 = ((a + 1) + i - 1) + 4
      BY <1>6, <1>8, <2>5
    <3> QED BY <1>7, <2>5, <2>6, <3>1
  <2>9. u = v
    BY <2>5, <2>6, <2>7, <2>8, SeqEqual
  <2> QED BY <2>9 DEF u, v
<1> QED BY <1>5, <1>6, <1>7, <1>8

(* The file of BlockReader lies in the viewer's stream. *)
LEMMA FileInStream ==
  ASSUME IInv, OnesAround
  PROVE  /\ File \in Seq(AnyByte)
         /\ Len(File) = Len(seen) - 4 - (IF eof THEN 1 ELSE 0)
         /\ Len(File) \in Nat
         /\ \A i \in 1..Len(File) : File[i] = seen[i + 4]
         /\ \A a \in Nat, b \in Nat : b <= Len(File) =>
              SubSeq(File, a + 1, b) = SubSeq(seen, (a + 4) + 1, b + 4)
<1> DEFINE e == IF eof THEN 1 ELSE 0
<1>1. seen \in Seq(AnyByte) /\ e \in {0, 1} /\ Len(seen) - e >= 4
  BY DEF IInv, ViewerTypeOK, OnesAround
<1>2. File = SubSeq(seen, 5, Len(seen) - e)
  BY DEF File
<1> HIDE DEF e
<1>3. /\ File \in Seq(AnyByte)
      /\ Len(File) = Len(seen) - 4 - e
      /\ Len(File) \in Nat
      /\ \A i \in 1..Len(File) : File[i] = seen[i + 4]
      /\ \A a \in Nat, b \in Nat : b <= Len(File) =>
           SubSeq(File, a + 1, b) = SubSeq(seen, (a + 4) + 1, b + 4)
  BY <1>1, <1>2, FileOf
<1> QED BY <1>3 DEF e

(* Before anything is read, neither splitter has found anything. *)
LEMMA InitAgrees == ViewerInit => AgreeInv
<1> SUFFICES ASSUME ViewerInit PROVE AgreeInv
  OBVIOUS
<1>1. IInv
  BY InitIInv
<1>2. OnesAround
  BY DEF ViewerInit, EmptyRegister, OnesAround
<1>3. Len(File) = 0 /\ sync = FALSE /\ packets = <<>>
  BY <1>1, <1>2, FileInStream DEF ViewerInit, EmptyRegister
<1>4. Lists(<<>>, File)
  <2>1. <<>> \in Seq(Nat) /\ Len(<<>>) = 0
    BY EmptySeq
  <2>2. \A p \in Nat : ~StartCodeAt(File, p + 1)
    BY <1>3 DEF StartCodeAt
  <2> QED BY <2>1, <2>2 DEF Lists
<1>5. Agreeing(<<>>)
  BY <1>3, <1>4, EmptySeq, NoStretches, JoinedOfNone DEF Agreeing
<1> QED BY <1>1, <1>2, <1>5 DEF AgreeInv

(* The file grows by the byte that is read; that the register's ones stay  *)
(* in front of it needs nothing of the splitter.                           *)
LEMMA ReadGrowsFile ==
  ASSUME IInv, OnesAround, ~eof, NEW byte \in AnyByte, Input(byte)
  PROVE  /\ eof' = FALSE /\ IInv' => OnesAround' /\ File' = Append(File, byte)
         /\ eof' = TRUE /\ IInv' /\ byte = 255 => OnesAround' /\ File' = File
<1> DEFINE n == Len(seen)
<1>1. /\ seen \in Seq(AnyByte) /\ n \in Nat /\ n >= 4
      /\ seen' \in Seq(AnyByte) /\ Len(seen') = n + 1
      /\ \A i \in 1..n : seen'[i] = seen[i]
      /\ seen'[n + 1] = byte
  BY InputSeen DEF IInv, ViewerTypeOK
<1>2. /\ File \in Seq(AnyByte) /\ Len(File) = n - 4 - 0
      /\ \A i \in 1..Len(File) : File[i] = seen[i + 4]
  BY FileInStream
<1>3. \A i \in 1..4 : seen'[i] = 255
  BY <1>1 DEF OnesAround
<1>4. ASSUME eof' = FALSE, IInv' PROVE OnesAround' /\ File' = Append(File, byte)
  <2>1. OnesAround'
    BY <1>1, <1>3, <1>4 DEF OnesAround
  <2>2. /\ File' \in Seq(AnyByte) /\ Len(File') = (n + 1) - 4 - 0
        /\ \A i \in 1..Len(File') : File'[i] = seen'[i + 4]
    <3>1. File' = SubSeq(seen', 5, Len(seen') - 0)
      BY <1>4 DEF File
    <3>2. Len(seen') - 0 >= 4 /\ 0 \in {0, 1}
      BY <1>1
    <3> QED BY <1>1, <3>1, <3>2, FileOf
  <2>3. /\ Append(File, byte) \in Seq(AnyByte) /\ Len(Append(File, byte)) = Len(File) + 1
        /\ \A i \in 1..Len(File) : Append(File, byte)[i] = File[i]
        /\ Append(File, byte)[Len(File) + 1] = byte
    BY <1>2, AppendProperties
  <2>4. ASSUME NEW i \in 1..Len(File') PROVE File'[i] = Append(File, byte)[i]
    <3>1. CASE i \in 1..Len(File)
      <4>1. i + 4 \in 1..n
        BY <1>1, <1>2, <3>1
      <4> QED BY <1>1, <1>2, <2>2, <2>3, <3>1, <4>1
    <3>2. CASE i = Len(File) + 1
      <4>1. i + 4 = n + 1
        BY <1>1, <1>2, <3>2
      <4> QED BY <1>1, <2>2, <2>3, <3>2, <4>1
    <3>3. i \in 1..Len(File) \/ i = Len(File) + 1
      BY <1>1, <1>2, <2>2
    <3> QED BY <3>1, <3>2, <3>3
  <2>5. Len(File') = Len(Append(File, byte))
    BY <1>1, <1>2, <2>2, <2>3
  <2> QED BY <2>1, <2>2, <2>3, <2>4, <2>5, SeqEqual
<1>5. ASSUME eof' = TRUE, IInv', byte = 255 PROVE OnesAround' /\ File' = File
  <2>1. OnesAround'
    BY <1>1, <1>3, <1>5 DEF OnesAround
  <2>2. /\ File' \in Seq(AnyByte) /\ Len(File') = (n + 1) - 4 - 1
        /\ \A i \in 1..Len(File') : File'[i] = seen'[i + 4]
    <3>1. File' = SubSeq(seen', 5, Len(seen') - 1)
      BY <1>5 DEF File
    <3>2. PICK e \in {0, 1} : e = 1
      OBVIOUS
    <3>4. Len(seen') - e >= 4 /\ File' = SubSeq(seen', 5, Len(seen') - e)
      BY <1>1, <3>1, <3>2
    <3>5. /\ File' \in Seq(AnyByte) /\ Len(File') = Len(seen') - 4 - e
          /\ \A i \in 1..Len(File') : File'[i] = seen'[i + 4]
      BY <1>1, <3>4, FileOf
    <3>3. /\ File' \in Seq(AnyByte) /\ Len(File') = Len(seen') - 4 - 1
          /\ \A i \in 1..Len(File') : File'[i] = seen'[i + 4]
      BY <3>2, <3>5
    <3> QED BY <1>1, <3>3
  <2>3. Len(File') = Len(File)
    BY <1>1, <1>2, <2>2
  <2>4. ASSUME NEW i \in 1..Len(File') PROVE File'[i] = File[i]
    <3>1. i \in 1..Len(File) /\ i + 4 \in 1..n
      BY <1>1, <1>2, <2>3
    <3> QED BY <1>1, <1>2, <2>2, <3>1
  <2> QED BY <1>2, <2>1, <2>2, <2>3, <2>4, SeqEqual
<1> QED BY <1>4, <1>5

(* The register holds a start code when one ends the file. *)
LEMMA CodeCompleted ==
  ASSUME IInv, OnesAround, ~eof, NEW byte \in AnyByte, Input(byte)
  PROVE  (previous_state' = StartCode) <=>
           Len(File) - 3 \in Nat /\ StartCodeAt(Append(File, byte), Len(File) - 3 + 1)
<1> DEFINE n == Len(seen)
           more == Append(File, byte)
<1>1. /\ seen \in Seq(AnyByte) /\ n \in Nat /\ n >= 4
      /\ Len(seen') = n + 1
      /\ \A i \in 1..n : seen'[i] = seen[i]
      /\ seen'[n + 1] = byte
  BY InputSeen DEF IInv, ViewerTypeOK
<1>2. /\ File \in Seq(AnyByte) /\ Len(File) = n - 4
      /\ \A i \in 1..Len(File) : File[i] = seen[i + 4]
  BY <1>1, FileInStream
<1>3. /\ Len(more) = n - 3 /\ \A i \in 1..(n - 4) : more[i] = File[i]
      /\ more[n - 3] = byte
  <2>1. /\ Len(more) = Len(File) + 1 /\ \A i \in 1..Len(File) : more[i] = File[i]
        /\ more[Len(File) + 1] = byte
    BY <1>2, AppendProperties
  <2>2. Len(File) + 1 = n - 3
    BY <1>1, <1>2
  <2> QED BY <1>2, <2>1, <2>2
<1> HIDE DEF more
<1>4. (previous_state' = StartCode) <=> StartCodeAt(seen', n - 2)
  BY InputFinds
<1>5. \A i \in 1..4 : seen'[i] = 255
  BY <1>1 DEF OnesAround
<1> HIDE DEF n
<1>8. StartCodeAt(seen', n - 2) => n >= 7
  <2>1. ASSUME ~(n >= 7) PROVE n - 2 \in 1..4
    BY <1>1, <2>1
  <2> QED BY <1>5, <2>1 DEF StartCodeAt
<1>6. ASSUME n >= 7
      PROVE  StartCodeAt(more, n - 6) <=> StartCodeAt(seen', n - 2)
  <2>1. /\ n - 6 \in 1..(n - 4) /\ n - 6 + 1 \in 1..(n - 4) /\ n - 6 + 2 \in 1..(n - 4)
        /\ n - 6 + 3 = n - 3
        /\ n - 6 + 4 = n - 2 /\ n - 6 + 1 + 4 = n - 2 + 1 /\ n - 6 + 2 + 4 = n - 2 + 2
        /\ n - 2 + 3 = n + 1
        /\ n - 2 \in 1..n /\ n - 2 + 1 \in 1..n /\ n - 2 + 2 \in 1..n
    <3>1. n \in Nat /\ n >= 7
      BY <1>1, <1>6
    <3> QED BY <3>1
  <2>2. /\ more[n - 6] = seen'[n - 2] /\ more[n - 6 + 1] = seen'[n - 2 + 1]
        /\ more[n - 6 + 2] = seen'[n - 2 + 2] /\ more[n - 6 + 3] = seen'[n - 2 + 3]
    <3>1. more[n - 6] = seen'[n - 2]
      BY <1>1, <1>2, <1>3, <2>1
    <3>2. more[n - 6 + 1] = seen'[n - 2 + 1]
      BY <1>1, <1>2, <1>3, <2>1
    <3>3. more[n - 6 + 2] = seen'[n - 2 + 2]
      BY <1>1, <1>2, <1>3, <2>1
    <3>4. more[n - 6 + 3] = seen'[n - 2 + 3]
      BY <1>1, <1>3, <2>1
    <3> QED BY <3>1, <3>2, <3>3, <3>4
  <2>3. n - 6 + 3 <= Len(more) /\ n - 2 + 3 <= Len(seen')
    BY <1>1, <1>3, <2>1
  <2> QED BY <2>2, <2>3 DEF StartCodeAt
<1>7. /\ Len(File) - 3 \in Nat <=> n >= 7
      /\ Len(File) - 3 + 1 = n - 6
  BY <1>1, <1>2
<1> QED BY <1>4, <1>8, <1>6, <1>7 DEF more

(* A byte preserves the agreement: one that completes no start code leaves *)
(* both sides as they are; one that does adds a unit to the file, and what *)
(* that unit makes of the units held back is what the splitter collected.  *)
LEMMA ReadAgrees ==
  ASSUME AgreeInv, ~eof, NEW byte \in AnyByte, Input(byte), IInv',
         eof' = FALSE \/ (eof' = TRUE /\ byte = 255)
  PROVE  AgreeInv'
<1> DEFINE n == Len(seen)
           q == Len(File) - 3
           more == Append(File, byte)
<1>1. PICK codes : Agreeing(codes)
  BY DEF AgreeInv
<1> DEFINE L == Len(codes)
           c == codes[L]
<1>2. IInv /\ OnesAround /\ sync \in BOOLEAN /\ eof \in BOOLEAN
  BY DEF AgreeInv, IInv, ViewerTypeOK
<1>3. /\ File \in Seq(AnyByte) /\ Len(File) = n - 4
      /\ seen \in Seq(AnyByte) /\ n \in Nat /\ Len(File) \in Nat
      /\ q + 4 = n - 3
  <2>1. n \in Nat /\ seen \in Seq(AnyByte)
    BY <1>2 DEF IInv, ViewerTypeOK
  <2>2. File \in Seq(AnyByte) /\ Len(File) \in Nat /\ Len(File) = n - 4
    BY <1>2, <2>1, FileInStream
  <2> QED BY <2>1, <2>2
<1>4. /\ OnesAround'
      /\ File' = IF eof' THEN File ELSE more
  BY <1>2, ReadGrowsFile
<1>5. /\ Lists(codes, File) /\ (sync <=> codes # <<>>)
      /\ sync => LastCut <= c + 4
      /\ Joined(Stretches(codes, File)) =
           [out |-> packets, held |-> IF sync THEN SubSeq(seen, LastCut + 1, c + 4) ELSE <<>>]
  BY <1>1 DEF Agreeing
<1>6. sync => /\ LastCut \in Nat /\ L \in 1..L /\ c \in Nat /\ c + 4 <= Len(File)
  <2> SUFFICES ASSUME sync
               PROVE  LastCut \in Nat /\ L \in 1..L /\ c \in Nat /\ c + 4 <= Len(File)
    OBVIOUS
  <2>1. LastCut \in Nat
    BY <1>2, CollectedGrows DEF LastCut
  <2>2. codes \in Seq(Nat) /\ L \in 1..L
    BY <1>5, EmptySeq DEF Lists
  <2>3. c \in Nat /\ c + 1 + 3 <= Len(File)
    BY <1>5, <2>2 DEF Lists, StartCodeAt
  <2> QED BY <1>3, <2>1, <2>2, <2>3
<1>7. sync => SubSeq(seen', LastCut + 1, c + 4) = SubSeq(seen, LastCut + 1, c + 4)
  <2> SUFFICES ASSUME sync
               PROVE  SubSeq(seen', LastCut + 1, c + 4) = SubSeq(seen, LastCut + 1, c + 4)
    OBVIOUS
  <2> DEFINE a == LastCut + 1
             b == c + 4
  <2>1. seen' = Append(seen, byte)
    BY DEF Input
  <2>2. a \in Nat \ {0} /\ b \in Nat /\ b <= n
    BY <1>3, <1>6
  <2> HIDE DEF a, b
  <2>3. SubSeq(Append(seen, byte), a, b) = SubSeq(seen, a, b)
    BY <1>3, <2>2, StretchOfAppend
  <2> QED BY <2>1, <2>3 DEF a, b
<1>8. (previous_state' = StartCode) <=> q \in Nat /\ StartCodeAt(more, q + 1)
  BY <1>2, CodeCompleted
<1>9. Stretches(codes, more) = Stretches(codes, File)
  BY <1>3, <1>5, StretchesGrow
<1> HIDE DEF q, more, c, n
<1>10. ASSUME previous_state' # StartCode
       PROVE  Agreeing(codes)'
  <2>1. UNCHANGED <<sync, packets, cuts>>
    BY <1>2, <1>10, InputEffect
  <2>2. Lists(codes, more)
    BY <1>3, <1>5, <1>8, <1>10, ListsGrow DEF q, more
  <2>3. Lists(codes, File') /\ Stretches(codes, File') = Stretches(codes, File)
    BY <1>4, <1>5, <1>9, <2>2
  <2>4. LastCut' = LastCut
    BY <2>1 DEF LastCut
  <2> QED BY <1>5, <1>7, <2>1, <2>3, <2>4 DEF Agreeing, c
<1>11. ASSUME previous_state' = StartCode
       PROVE  \E longer : Agreeing(longer)'
  <2>9. PICK longer : longer = Append(codes, q)
    OBVIOUS
  <2>1. q \in Nat /\ StartCodeAt(more, q + 1)
    BY <1>8, <1>11
  <2>2. File' = more /\ eof' = FALSE
    <3>1. byte = 255 => previous_state' # StartCode
      BY DEF Input, Shift, StartCode
    <3>2. eof' = FALSE
      BY <1>11, <3>1
    <3> QED BY <1>4, <3>2
  <2>3. Lists(longer, more)
    BY <1>3, <1>5, <2>1, <2>9, ListsGrow DEF q, more
  <2>4. /\ codes \in Seq(Nat) /\ longer \in Seq(Nat) /\ Len(longer) = L + 1
        /\ longer[L + 1] = q /\ longer # <<>> /\ L \in Nat
    <3>1. codes \in Seq(Nat)
      BY <1>5 DEF Lists
    <3> QED BY <2>1, <2>9, <3>1, AppendProperties, EmptySeq
  <2>5. sync' = TRUE /\ (LastCut' = q + 4 \/ (sync /\ LastCut' = LastCut))
    <3>1. cuts \in Seq(Nat) /\ n - 3 \in Nat
      BY <1>2, <1>3, <2>1 DEF IInv, ViewerTypeOK
    <3>2. Append(cuts, n - 3)[Len(Append(cuts, n - 3))] = n - 3
      BY <3>1, AppendProperties
    <3>3. CASE cuts' = cuts /\ sync
      BY <1>2, <1>11, <3>3, InputEffect DEF LastCut
    <3>4. CASE cuts' = Append(cuts, n - 3)
      BY <1>2, <1>3, <1>11, <3>2, <3>4, InputEffect DEF LastCut, n
    <3> QED BY <1>2, <1>11, <3>3, <3>4, InputEffect DEF n
  <2>6. SubSeq(seen', (q + 4) + 1, q + 4) = <<>>
    <3>1. (q + 4) + 1 \in Int /\ q + 4 \in Int /\ q + 4 < (q + 4) + 1
      BY <2>1
    <3> QED BY <3>1, SubSeqEmpty
  <2>7. CASE ~sync
    <3>1. /\ codes = <<>> /\ packets' = packets /\ cuts' = Append(cuts, n - 3)
      BY <1>2, <1>5, <1>11, <2>7, InputEffect DEF n
    <3>2. packets = <<>> /\ LastCut' = q + 4
      BY <1>2, <2>5, <2>7 DEF IInv, PacketsTileStream, BufferIsTail
    <3>3. Stretches(longer, more) = <<>>
      <4>1. Len(longer) = 1
        BY <2>4, <3>1, EmptySeq
      <4> QED BY <4>1, NoStretches
    <3>4. longer[Len(longer)] = q
      BY <2>4
    <3>5. Joined(Stretches(longer, File'))
            = [out |-> packets', held |-> SubSeq(seen', LastCut' + 1, longer[Len(longer)] + 4)]
      BY <2>2, <2>6, <3>1, <3>2, <3>3, <3>4, JoinedOfNone
    <3>6. LastCut' <= longer[Len(longer)] + 4
      BY <2>1, <3>2, <3>4
    <3>7. Agreeing(longer)'
      <4>1. Lists(longer, File') /\ (sync' <=> longer # <<>>)
        BY <2>2, <2>3, <2>4, <2>5
      <4>2. LastCut' <= longer[Len(longer)] + 4
        BY <3>6
      <4>3. Joined(Stretches(longer, File'))
              = [out  |-> packets',
                 held |-> IF sync' THEN SubSeq(seen', LastCut' + 1, longer[Len(longer)] + 4)
                                   ELSE <<>>]
        BY <2>5, <3>5
      <4> QED BY <4>1, <4>2, <4>3 DEF Agreeing
    <3> QED BY <3>7
  <2>8. CASE sync
    <3> DEFINE u == SubSeq(more, c + 1, q)
               held == SubSeq(seen, LastCut + 1, c + 4)
    <3>1. /\ Stretches(codes, File) \in Seq(Seq(AnyByte)) /\ u \in Seq(AnyByte)
          /\ Stretches(longer, more) = Append(Stretches(codes, File), u)
      <4>1. /\ File \in Seq(AnyByte) /\ q \in Nat
            /\ codes \in Seq(Nat) /\ Len(codes) # 0
            /\ Lists(codes, File) /\ Lists(Append(codes, q), Append(File, byte))
        BY <1>3, <1>5, <2>1, <2>3, <2>4, <2>8, <2>9, EmptySeq DEF more
      <4>2. /\ Stretches(codes, File) \in Seq(Seq(AnyByte))
            /\ SubSeq(Append(File, byte), codes[Len(codes)] + 1, q) \in Seq(AnyByte)
            /\ Stretches(Append(codes, q), Append(File, byte))
                 = Append(Stretches(codes, File),
                          SubSeq(Append(File, byte), codes[Len(codes)] + 1, q))
        BY <4>1, StretchAdded
      <4> QED BY <2>9, <4>2 DEF more, c
    <3>2. Joined(Stretches(longer, more)) = Join(Joined(Stretches(codes, File)), u)
      BY <3>1, JoinedOfAppend
    <3>3. Joined(Stretches(codes, File)) = [out |-> packets, held |-> held]
      BY <1>5, <2>8
    <3>4. LastCut \in Nat /\ c \in Nat /\ LastCut <= c + 4 /\ c < q /\ q \in Nat
          /\ q + 4 <= n /\ n \in Nat
      BY <1>3, <1>5, <1>6, <2>1, <2>8 DEF q
    <3>5. held \o u = buffer
      <4>1. seen' \in Seq(AnyByte) /\ Len(seen') = n + 1
        BY <1>2, InputSeen DEF n, IInv, ViewerTypeOK
      <4>2. u = SubSeq(seen', (c + 4) + 1, q + 4)
        <5>1. more = SubSeq(seen', 5, Len(seen') - 0)
          BY <2>2 DEF File
        <5>2. Len(seen') - 0 >= 4 /\ 0 \in {0, 1}
          BY <3>4, <4>1
        <5>3. Len(more) = Len(seen') - 4 - 0
              /\ \A a \in Nat, b \in Nat : b <= Len(more) =>
                   SubSeq(more, a + 1, b) = SubSeq(seen', (a + 4) + 1, b + 4)
          BY <4>1, <5>1, <5>2, FileOf
        <5>4. q <= Len(more)
          BY <3>4, <4>1, <5>3
        <5>5. SubSeq(more, c + 1, q) = SubSeq(seen', (c + 4) + 1, q + 4)
          <6>1. c \in Nat /\ q \in Nat
            BY <3>4
          <6>2. \A a \in Nat : \A b \in Nat : b <= Len(more) =>
                   SubSeq(more, a + 1, b) = SubSeq(seen', (a + 4) + 1, b + 4)
            BY <5>3
          <6> QED BY <5>4, <6>1, <6>2, Zenon
        <5> QED BY <5>5
      <4>3. held = SubSeq(seen', LastCut + 1, c + 4)
        BY <1>7, <2>8
      <4>4. SubSeq(seen', LastCut + 1, c + 4) \o SubSeq(seen', (c + 4) + 1, q + 4)
              = SubSeq(seen', LastCut + 1, q + 4)
        <5> DEFINE m == LastCut + 1
                   k == c + 4
                   l == q + 4
        <5>1. m \in 1..(Len(seen') + 1) /\ k \in (m - 1)..Len(seen') /\ l \in k..Len(seen')
          BY <3>4, <4>1
        <5> HIDE DEF m, k, l
        <5>2. SubSeq(seen', m, k) \o SubSeq(seen', k + 1, l) = SubSeq(seen', m, l)
          BY <4>1, <5>1, ConcatAdjacentSubSeq
        <5> QED BY <5>2 DEF m, k, l
      <4>5. buffer = SubSeq(seen', LastCut + 1, q + 4)
        BY <1>2, <1>3, <2>8, CollectedGrows DEF LastCut, n
      <4> QED BY <4>2, <4>3, <4>4, <4>5
    <3> HIDE DEF u, held
    <3>6. Joined(Stretches(longer, File'))
            = IF Len(buffer) > 4 THEN [out |-> Append(packets, buffer), held |-> <<>>]
                                 ELSE [out |-> packets, held |-> buffer]
      <4> DEFINE joined == [out |-> packets, held |-> held]
      <4>1. joined.out = packets /\ joined.held = held
            /\ [joined EXCEPT !.held = buffer] = [out |-> packets, held |-> buffer]
        OBVIOUS
      <4>2. Joined(Stretches(longer, File')) = Join(joined, u)
        BY <2>2, <3>2, <3>3
      <4> HIDE DEF joined
      <4>3. Join(joined, u) =
              IF Len(buffer) > 4 THEN [out |-> Append(packets, buffer), held |-> <<>>]
                                 ELSE [out |-> packets, held |-> buffer]
        BY <3>5, <4>1 DEF Join
      <4> QED BY <4>2, <4>3
    <3>7. longer[Len(longer)] = q /\ LastCut' <= q + 4
      <4>1. q + 4 <= q + 4 /\ LastCut <= q + 4
        BY <3>4
      <4> QED BY <2>4, <2>5, <4>1
    <3>8. Joined(Stretches(longer, File'))
            = [out |-> packets', held |-> SubSeq(seen', LastCut' + 1, q + 4)]
      <4>1. CASE Len(buffer) > 4
        <5>1. packets' = Append(packets, buffer) /\ cuts' = Append(cuts, n - 3)
          BY <1>2, <1>11, <2>8, <4>1, InputEffect DEF n
        <5>2. LastCut' = q + 4
          <6>1. cuts \in Seq(Nat) /\ n - 3 \in Nat
            BY <1>2, <1>3, <2>1 DEF IInv, ViewerTypeOK
          <6>2. Append(cuts, n - 3)[Len(Append(cuts, n - 3))] = n - 3
            BY <6>1, AppendProperties
          <6> QED BY <1>3, <5>1, <6>2 DEF LastCut
        <5> QED BY <2>6, <3>6, <4>1, <5>1, <5>2
      <4>2. CASE ~(Len(buffer) > 4)
        <5>1. packets' = packets /\ cuts' = cuts
          BY <1>2, <1>11, <2>8, <4>2, InputEffect
        <5>2. LastCut' = LastCut
          BY <5>1 DEF LastCut
        <5>3. buffer = SubSeq(seen', LastCut + 1, q + 4)
          BY <1>2, <1>3, <2>8, CollectedGrows DEF LastCut, n
        <5> QED BY <3>6, <4>2, <5>1, <5>2, <5>3
      <4> QED BY <4>1, <4>2
    <3>9. Agreeing(longer)'
      <4>1. Lists(longer, File') /\ (sync' <=> longer # <<>>)
        BY <2>2, <2>3, <2>4, <2>5
      <4>2. LastCut' <= longer[Len(longer)] + 4
        BY <3>7
      <4>3. Joined(Stretches(longer, File'))
              = [out  |-> packets',
                 held |-> IF sync' THEN SubSeq(seen', LastCut' + 1, longer[Len(longer)] + 4)
                                   ELSE <<>>]
        BY <2>5, <3>7, <3>8
      <4> QED BY <4>1, <4>2, <4>3 DEF Agreeing
    <3> QED BY <3>9
  <2> QED BY <1>2, <2>7, <2>8
<1> QED BY <1>2, <1>4, <1>10, <1>11 DEF AgreeInv

(* The reading loop of the viewer preserves the agreement. *)
LEMMA ReadLoopAgrees ==
  ASSUME AgreeInv
  PROVE  /\ \A byte \in Byte : ReadByte(byte) => AgreeInv'
         /\ ReadEof => AgreeInv'
         /\ UNCHANGED viewerVars => AgreeInv'
<1>1. ASSUME NEW byte \in Byte, ReadByte(byte) PROVE AgreeInv'
  <2>1. ~eof /\ Input(byte) /\ eof' = FALSE /\ byte \in AnyByte
    BY <1>1 DEF ReadByte, AnyByte
  <2>2. IInv'
    BY <1>1, ReadIInv DEF AgreeInv
  <2> QED BY <2>1, <2>2, ReadAgrees
<1>2. ASSUME ReadEof PROVE AgreeInv'
  <2>1. ~eof /\ Input(255) /\ eof' = TRUE /\ 255 \in AnyByte
    BY <1>2 DEF ReadEof, EofByte, AnyByte
  <2>2. IInv'
    BY <1>2, ReadIInv DEF AgreeInv
  <2> QED BY <2>1, <2>2, ReadAgrees
<1>3. ASSUME UNCHANGED viewerVars PROVE AgreeInv'
  <2>1. UNCHANGED <<sync, packets, seen, cuts, eof>>
    BY <1>3 DEF viewerVars
  <2>2. IInv' /\ OnesAround'
    BY <1>3, <2>1, ReadIInv DEF AgreeInv, OnesAround
  <2>3. PICK codes : Agreeing(codes)
    BY DEF AgreeInv
  <2>4. File' = File /\ LastCut' = LastCut
    BY <2>1 DEF File, LastCut
  <2>5. Agreeing(codes)'
    BY <2>1, <2>3, <2>4 DEF Agreeing
  <2> QED BY <2>2, <2>5 DEF AgreeInv
<1> QED BY <1>1, <1>2, <1>3

(* The agreement is what BlockReader says of the two splitters. *)
LEMMA AgreementSuffices == AgreeInv => SplittersAgree
<1> SUFFICES ASSUME AgreeInv PROVE SplittersAgree
  OBVIOUS
<1>1. PICK codes : Agreeing(codes)
  BY DEF AgreeInv
<1>2. File \in Seq(AnyByte)
  BY FileInStream DEF AgreeInv
<1>3. Units(File) = Stretches(codes, File)
  BY <1>1, <1>2, UnitsListed DEF Agreeing
<1> QED BY <1>1, <1>3 DEF Agreeing, SplittersAgree

(* The splitter that scans a file in memory (destreamer.h, get_next_block) *)
(* and the one that lags behind the input in a shift register              *)
(* (x264_destreamer::input) cut every stream alike, at every moment and    *)
(* however long it is.                                                     *)
THEOREM SplittersCutAlike ==
  ASSUME NEW CONSTANT maxInput
  PROVE  ViewerSpec(maxInput) => []SplittersAgree
<1>1. ViewerInit => AgreeInv
  BY InitAgrees
<1>2. AgreeInv /\ [ViewerNext(maxInput)]_viewerVars => AgreeInv'
  BY ReadLoopAgrees DEF ViewerNext
<1> QED BY <1>1, <1>2, AgreementSuffices, PTL DEF ViewerSpec
=============================================================================
