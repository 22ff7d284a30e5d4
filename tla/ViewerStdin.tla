----------------------------- MODULE ViewerStdin -----------------------------
(***************************************************************************)
(* The stdin viewer on its own: whatever bytes arrive on its standard      *)
(* input, in any number, the end of file at any point.  Spec is            *)
(* ViewerSpec(MaxInput), written out for the model checker; what it reads  *)
(* is the file of BlockReader.                                             *)
(***************************************************************************)
EXTENDS BlockReader

CONSTANT MaxInput   \* bound: how many bytes are read before end of file

ASSUME MaxInputAssumption == MaxInput \in Nat

Init == ViewerInit
Next == ViewerNext(MaxInput)

Spec == Init /\ [][Next]_viewerVars
=============================================================================
