----------------------------- MODULE FrameLease -----------------------------
(***************************************************************************)
(* What VideoCapture promises its client, without buffers: the camera's    *)
(* frames are leased one at a time, in the order they were delivered, each *)
(* at most once, until capturing stops and the frames not yet leased are   *)
(* discarded.  Frames are numbered modulo FrameNumbers.                    *)
(*                                                                         *)
(* When calls may fail (faulty) a lease may be of any frame, and may       *)
(* change while the client has it; but no frame is taken out of turn, and  *)
(* none is lost.                                                           *)
(***************************************************************************)
EXTENDS Integers, Sequences

CONSTANTS FrameNumbers,   \* how many frame numbers there are
          Capacity,       \* how many frames can wait
          NoFrame         \* not a frame number

VARIABLES next,    \* the number of the next frame delivered
          ready,   \* the frames delivered and not yet leased
          lease,   \* the frame the client has, or NoFrame
          faulty   \* calls may fail

vars == <<next, ready, lease, faulty>>

Frame == 0..(FrameNumbers - 1)

Init == /\ next = 0
        /\ ready = <<>>
        /\ lease = NoFrame
        /\ faulty \in BOOLEAN

(* The frame the client has stays as it is, unless calls may fail. *)
LeaseKept == \/ UNCHANGED lease
             \/ faulty /\ lease # NoFrame /\ lease' \in Frame

Deliver == /\ Len(ready) < Capacity
           /\ ready' = Append(ready, next)
           /\ next' = (next + 1) % FrameNumbers
           /\ LeaseKept
           /\ UNCHANGED faulty

Take == /\ lease = NoFrame
        /\ ready # <<>>
        /\ lease' = Head(ready)
        /\ ready' = Tail(ready)
        /\ UNCHANGED <<next, faulty>>

(* A call failed and nobody noticed: the client is given something else. *)
Misread == /\ faulty
           /\ lease = NoFrame
           /\ lease' \in Frame
           /\ UNCHANGED <<next, ready, faulty>>

GiveBack == /\ lease # NoFrame
            /\ lease' = NoFrame
            /\ UNCHANGED <<next, ready, faulty>>

Discard == /\ next' = 0
           /\ ready' = <<>>
           /\ lease' = NoFrame
           /\ UNCHANGED faulty

Next == Deliver \/ Take \/ Misread \/ GiveBack \/ Discard

Spec == Init /\ [][Next]_vars
=============================================================================
