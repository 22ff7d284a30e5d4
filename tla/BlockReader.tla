---------------------------- MODULE BlockReader ----------------------------
(***************************************************************************)
(* The splitter of destreamer.h, which cuts a file that is in memory, next *)
(* to the one of the stdin viewer, which cuts the same bytes as they       *)
(* arrive.  test_data_source_ocv broadcasts what the first one finds.      *)
(*                                                                         *)
(* get_next_block keeps two positions in the file, last_pos and cur_pos,   *)
(* and moves them to the next start code.  Positions are the code's, from  *)
(* zero.  When the file cannot be opened or read to its end, the unread    *)
(* bytes are whatever the memory held; the file is arbitrary here anyway.  *)
(***************************************************************************)
EXTENDS Destreamer, FiniteSetsExt

(* The file: what the stdin viewer has read, without the byte that EOF     *)
(* became.                                                                 *)
File == SubSeq(seen, 5, Len(seen) - (IF eof THEN 1 ELSE 0))

(* The last position get_next_block looks at, cur_pos < size - 3, and a    *)
(* mutant that stops one position early.                                   *)
LastPosition_Early(size) == size - 5
LastPosition(size) == size - 4

EndOfStream == -1

(* get_next_block: the start code after cur_pos, if there is one. *)
GetNextBlock(file, cur_pos) ==
  LET Found == {p \in (cur_pos + 1)..LastPosition(Len(file)) :
                  StartCodeAt(file, p + 1)}
  IN  IF Found = {} THEN EndOfStream ELSE Min(Found)

(* The loop of test_data_source_ocv: the blocks it broadcasts.  What       *)
(* follows the last start code is never broadcast.                         *)
Blocks(file) ==
  LET From[last_pos \in 0..Len(file)] ==
        LET cur_pos == GetNextBlock(file, last_pos)
        IN  IF cur_pos = EndOfStream
              THEN <<>>
              ELSE <<SubSeq(file, last_pos + 1, cur_pos)>> \o From[cur_pos]
  IN  From[0]

-----------------------------------------------------------------------------
(* The blocks that begin with a start code: only the first may not. *)
Units(file) ==
  IF StartCodeAt(file, 1) \/ Blocks(file) = <<>> THEN Blocks(file)
                                                 ELSE Tail(Blocks(file))

(* Bare start codes joined to the unit after them, with what is left over. *)
Join(joined, unit) ==
  LET whole == joined.held \o unit
  IN  IF Len(whole) > 4 THEN [out |-> Append(joined.out, whole), held |-> <<>>]
                        ELSE [joined EXCEPT !.held = whole]
Joined(units) ==
  LET After[n \in 0..Len(units)] ==
        IF n = 0 THEN [out |-> <<>>, held |-> <<>>]
                 ELSE Join(After[n - 1], units[n])
  IN  After[Len(units)]

(* The two splitters of the repository, one that scans ahead in memory and *)
(* one that lags behind in a shift register, cut every stream alike at     *)
(* every moment, but for two differences: bytes in front of the first      *)
(* start code are a block of destreamer.h and no packet of                 *)
(* x264_destreamer, and a bare start code is a block of its own for the    *)
(* one and joined to the unit after it by the other.                       *)
SplittersAgree == packets = Joined(Units(File)).out
=============================================================================
