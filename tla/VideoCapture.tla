---------------------------- MODULE VideoCapture ----------------------------
(***************************************************************************)
(* The camera wrapper VideoCapture of v4l2device.hpp, a client that uses   *)
(* it as the encoders do, and the V4L2 driver it shares its buffers with.  *)
(*                                                                         *)
(* A client starts capturing, locks and unlocks frames, and may stop,      *)
(* start again or destroy the object, also while a frame is locked: the    *)
(* class frees its memory then, and has an old lock when it captures       *)
(* again.  Nothing catches what the class throws, so an exception ends the *)
(* process (pc = "dead").  Between two calls, and while the client waits   *)
(* in select or uses a frame, the driver fills queued buffers.             *)
(*                                                                         *)
(* The client calls LockFrame only while it captures; the class relies on  *)
(* that.  pc = "using" from the return of LockFrame to the next call.      *)
(*                                                                         *)
(* In mode READ the driver has buffers of its own, which it starts filling *)
(* when it is first polled, and read copies the oldest frame.              *)
(*                                                                         *)
(* faults, chosen in Init, names what may go wrong below the class:        *)
(* "select" (select fails for another reason than a signal), "soft" (EIO   *)
(* from the camera), "hard" (any other error of a call).                   *)
(*                                                                         *)
(* Frames are numbered modulo FrameNumbers from the start of streaming, as *)
(* the driver keeps them; last is a history variable, the number of the    *)
(* frame last locked.                                                      *)
(***************************************************************************)
EXTENDS Integers, Sequences, SequencesExt

CONSTANTS BufCount,       \* how many buffers the driver grants (bufCount)
          FrameNumbers,   \* bound: how many frame numbers there are
          FaultSets       \* what may go wrong together

ASSUME BufCountAssumption == BufCount \in Nat \ {0}
ASSUME FrameNumbersAssumption == FrameNumbers \in Nat /\ FrameNumbers > BufCount + 1
ASSUME FaultsAssumption == FaultSets \subseteq SUBSET {"select", "soft", "hard"}

IO == {"READ", "USERPTR", "MMAP"}
Buffers == 1..BufCount   \* the code's indices plus one

VARIABLES pc,             \* where the client is
          mIO,            \* the chosen IO method
          mCapturing, mIsLocked,
          mLockedBuffer,  \* the buffer of the last DQBUF
          memory,         \* what mBuffers point to: "none", "live", "freed",
                          \* or "misfreed" when it was not there to be freed
          copy,           \* mode READ: the frame last read into mBuffers[0]
          last            \* history: the frame last locked

VARIABLES streaming,      \* driver: it fills buffers
          queued,         \* driver: the buffers to fill, in order
          done,           \* driver: the filled buffers, oldest first
          content,        \* the frame each buffer holds
          frame,          \* driver: the number of the next frame
          faults          \* what may go wrong

clientVars == <<pc, mIO, mCapturing, mIsLocked, mLockedBuffer, memory, copy, last>>
driverVars == <<streaming, queued, done, content, frame, faults>>
vars == <<clientVars, driverVars>>

-----------------------------------------------------------------------------
(* The driver. *)
InOrder == [b \in Buffers |-> b]
HeldByDriver == ToSet(queued) \cup ToSet(done)

StreamOn == /\ streaming' = TRUE
            /\ queued' = InOrder
            /\ UNCHANGED <<done, content, frame, faults>>

StreamOff == /\ streaming' = FALSE
             /\ queued' = <<>>
             /\ done' = <<>>
             /\ frame' = 0
             /\ UNCHANGED <<content, faults>>

(* A frame goes to the buffer queued first.  With none queued it is lost,  *)
(* which no call of the class notices, and gets no number.                 *)
Fill ==
  /\ streaming
  /\ queued # <<>>
  /\ content' = [content EXCEPT ![Head(queued)] = frame]
  /\ done' = Append(done, Head(queued))
  /\ queued' = Tail(queued)
  /\ frame' = (frame + 1) % FrameNumbers
  /\ UNCHANGED <<clientVars, streaming, faults>>

(* An exception, which nothing catches. *)
Throw == pc' = "dead"

-----------------------------------------------------------------------------
(* StartCapture: in the streaming modes the driver gives up what it has,   *)
(* the memory is obtained, all of it queued, and streaming started last.   *)
StartCapture ==
  /\ pc = "stopped"
  /\ mCapturing = FALSE
  /\ mCapturing' = TRUE
  /\ memory' = "live"
  /\ pc' = "idle"
  /\ IF mIO = "READ" THEN UNCHANGED driverVars ELSE StreamOn
  /\ UNCHANGED <<mIO, mIsLocked, mLockedBuffer, copy, last>>

(* "already locked!" and "already capturing!": the only calls out of turn  *)
(* that the class notices.                                                 *)
OutOfTurn ==
  /\ pc \in {"stopped", "idle", "using"}
  /\ mIsLocked \/ mCapturing
  /\ Throw
  /\ UNCHANGED <<mIO, mCapturing, mIsLocked, mLockedBuffer, memory, copy, last,
                 driverVars>>

(* LockFrame up to select.  The driver of mode READ starts on the poll.    *)
LockFrame ==
  /\ pc = "idle"
  /\ mIsLocked = FALSE
  /\ mIsLocked' = TRUE
  /\ pc' = "select"
  /\ IF streaming THEN UNCHANGED driverVars ELSE StreamOn
  /\ UNCHANGED <<mIO, mCapturing, mLockedBuffer, memory, copy, last>>

(* select returns: a frame is there, or an error other than EINTR is taken *)
(* for one, because the throw is nested inside the EINTR case.  A timeout  *)
(* or a signal only repeats the loop.  The mutant takes a timeout for a    *)
(* frame.                                                                  *)
SelectReady_Timeout == TRUE
SelectReady == done # <<>> \/ "select" \in faults

SelectReturns ==
  /\ pc = "select"
  /\ SelectReady
  /\ pc' = "dequeue"
  /\ UNCHANGED <<mIO, mCapturing, mIsLocked, mLockedBuffer, memory, copy, last,
                 driverVars>>

(* Which of mBuffers holds the dequeued buffer: in mode USERPTR it is      *)
(* found by comparing addresses, in mode MMAP by its index.  The mutants   *)
(* are off by one.                                                         *)
FoundBuffer_Next(b) == (b % BufCount) + 1
FoundBuffer_Before(b) == b - 1
FoundBuffer(b) == b

(* read or VIDIOC_DQBUF succeeds with the oldest frame.                    *)
Dequeue ==
  /\ pc = "dequeue"
  /\ done # <<>>
  /\ pc' = "using"
  /\ done' = Tail(done)
  /\ last' = content[Head(done)]
  /\ IF mIO = "READ"
       THEN /\ copy' = content[Head(done)]
            /\ queued' = Append(queued, Head(done))
            /\ UNCHANGED mLockedBuffer
       ELSE /\ mLockedBuffer' = FoundBuffer(Head(done))
            /\ UNCHANGED <<copy, queued>>
  /\ UNCHANGED <<mIO, mCapturing, mIsLocked, memory, streaming, content, frame,
                 faults>>

(* EAGAIN (nothing is there) or EIO, both ignored.  In mode READ the old   *)
(* image is returned again, in mode MMAP buffer 0 of the zeroed            *)
(* mLockedBuffer; in mode USERPTR no buffer has the address NULL.          *)
DequeueIgnored ==
  /\ pc = "dequeue"
  /\ done = <<>> \/ "soft" \in faults
  /\ IF mIO = "USERPTR" THEN Throw ELSE pc' = "using"
  /\ IF mIO = "MMAP" THEN mLockedBuffer' = 1 ELSE UNCHANGED mLockedBuffer
  /\ UNCHANGED <<mIO, mCapturing, mIsLocked, memory, copy, last, driverVars>>

(* UnlockFrame on the driver: VIDIOC_QBUF gives the buffer back, unless    *)
(* the driver has it already (EINVAL).  The mutants give nothing back, and *)
(* do not see the driver's refusal.                                        *)
Requeue_Forgotten(q) == q
Requeue(q) ==
  IF mIO = "READ" \/ ~mIsLocked THEN q ELSE Append(q, mLockedBuffer)
MayRequeue_Always == TRUE
MayRequeue == mIO = "READ" \/ ~mIsLocked \/ mLockedBuffer \notin HeldByDriver

UnlockFrame ==
  /\ pc \in {"stopped", "idle", "using"}
  /\ mIsLocked
  /\ mIsLocked' = FALSE
  /\ IF MayRequeue
       THEN /\ pc' = IF mCapturing THEN "idle" ELSE "stopped"
            /\ queued' = Requeue(queued)
       ELSE Throw /\ UNCHANGED queued
  /\ UNCHANGED <<mIO, mCapturing, mLockedBuffer, memory, copy, last, streaming,
                 done, content, frame, faults>>

(* What StopCapture does to the driver: STREAMOFF, but in mode READ the    *)
(* driver is left alone.  The mutant frees the memory of a running driver. *)
StopDriver_NoStreamOff == UNCHANGED driverVars
StopDriver == IF mIO = "READ" THEN UNCHANGED driverVars ELSE StreamOff

Freed == IF memory = "live" THEN "freed" ELSE "misfreed"

(* A frame that is locked stays locked, without its memory.                *)
StopCapture ==
  /\ pc \in {"idle", "using"}
  /\ mCapturing
  /\ mCapturing' = FALSE
  /\ memory' = Freed
  /\ pc' = "stopped"
  /\ StopDriver
  /\ last' = IF mIO = "READ" THEN last ELSE FrameNumbers - 1
  /\ UNCHANGED <<mIO, mIsLocked, mLockedBuffer, copy>>

(* The destructor: UnlockFrame, StopCapture, close.  The close ends what   *)
(* is left of streaming.                                                   *)
Destroy ==
  /\ pc \in {"stopped", "idle", "using"}
  /\ mIsLocked' = FALSE
  /\ IF MayRequeue
       THEN /\ pc' = "closed"
            /\ mCapturing' = FALSE
            /\ memory' = IF mCapturing THEN Freed ELSE memory
            /\ last' = FrameNumbers - 1
            /\ StreamOff
       ELSE Throw /\ UNCHANGED <<mCapturing, memory, last, driverVars>>
  /\ UNCHANGED <<mIO, mLockedBuffer, copy>>

(* Any other error of a call throws.  The driver may always refuse to      *)
(* queue memory of the client's that is gone.                              *)
CallFails ==
  /\ \/ "hard" \in faults /\ pc \in {"stopped", "dequeue", "using", "idle"}
     \/ pc = "stopped" /\ mIsLocked /\ mIO = "USERPTR"
  /\ Throw
  /\ UNCHANGED <<mIO, mCapturing, mIsLocked, mLockedBuffer, memory, copy, last,
                 driverVars>>

-----------------------------------------------------------------------------
Init ==
  /\ pc = "stopped"
  /\ mIO \in IO
  /\ mCapturing = FALSE
  /\ mIsLocked = FALSE
  /\ mLockedBuffer = 1
  /\ memory = "none"
  /\ copy = FrameNumbers - 1
  /\ last = FrameNumbers - 1
  /\ streaming = FALSE
  /\ queued = <<>>
  /\ done = <<>>
  /\ content = [b \in Buffers |-> FrameNumbers - 1]
  /\ frame = 0
  /\ faults \in FaultSets

Client == \/ StartCapture \/ OutOfTurn \/ LockFrame \/ SelectReturns \/ Dequeue
          \/ DequeueIgnored \/ UnlockFrame \/ StopCapture \/ Destroy
          \/ CallFails

Next == Client \/ Fill

(* The camera keeps filming, and a call that can return does. *)
Fairness == WF_vars(Fill) /\ WF_vars(SelectReturns) /\ WF_vars(Dequeue)

Spec == Init /\ [][Next]_vars /\ Fairness

-----------------------------------------------------------------------------
(* The locked buffer is one of mBuffers (the range test of LockFrame), and *)
(* everything else has its type.                                           *)
TypeOK ==
  /\ pc \in {"stopped", "idle", "select", "dequeue", "using", "closed", "dead"}
  /\ mIO \in IO
  /\ mCapturing \in BOOLEAN
  /\ mIsLocked \in BOOLEAN
  /\ mLockedBuffer \in Buffers
  /\ memory \in {"none", "live", "freed", "misfreed"}
  /\ copy \in 0..(FrameNumbers - 1)
  /\ last \in 0..(FrameNumbers - 1)
  /\ streaming \in BOOLEAN
  /\ queued \in Seq(Buffers)
  /\ done \in Seq(Buffers)
  /\ content \in [Buffers -> 0..(FrameNumbers - 1)]
  /\ frame \in 0..(FrameNumbers - 1)
  /\ faults \in FaultSets

(* The client's buffer is on loan: it is locked, and not in the driver.    *)
OnLoan == pc = "using" /\ mIO # "READ" /\ mLockedBuffer \notin HeldByDriver

(* Every buffer is in exactly one place: queued, filled or on loan to the  *)
(* client.  None is queued twice and none leaks, however often frames are  *)
(* locked, unlocked and dropped, and whichever calls fail; not even when   *)
(* an old lock is released after a restart.  A driver that has stopped has *)
(* at most the one buffer that was unlocked too late (LockFrame,           *)
(* UnlockFrame, StopCapture and the driver).                               *)
BuffersAccounted ==
  LET held == queued \o done
  IN  /\ IsInjective(held)
      /\ streaming /\ pc # "dead" =>
           Len(held) = BufCount - (IF OnLoan THEN 1 ELSE 0)
      /\ ~streaming => Len(held) <= 1

(* The driver never fills memory of the client that is not there, neither  *)
(* after StopCapture nor behind the destructor; each memory is freed once, *)
(* and once the object is destroyed nothing is left allocated.  That the   *)
(* client's own frame outlives StopCapture is not promised: the class      *)
(* frees it while it is locked.                                            *)
MemoryOutlivesUse ==
  /\ mIO # "READ" /\ streaming => memory = "live"
  /\ memory # "misfreed"
  /\ pc = "closed" => memory # "live" /\ ~streaming

(* What the client sees in the frame it has locked. *)
Shown == IF mIO = "READ" THEN copy ELSE content[mLockedBuffer]

(* The image in use does not change under the client, because the driver   *)
(* does not have its buffer.  Only where calls fail may the class hand out *)
(* a buffer of the driver (LockFrame's EAGAIN and EIO).                    *)
LeaseIsStable ==
  pc = "using" => \/ Shown = last /\ (mIO = "READ" \/ OnLoan)
                  \/ faults # {} /\ mIO = "MMAP" /\ ~OnLoan

(* "wait for next frame and return it" (the comment above LockFrame): what *)
(* LockFrame returns is the frame after the one it returned before.        *)
LockReturnsNextFrame ==
  [][pc # "using" /\ pc' = "using" =>
       Shown' = (last + 1) % FrameNumbers]_vars

(* The client has a buffer locked that the driver has too: because EAGAIN  *)
(* or EIO was ignored in mode MMAP, or the lock is from before the last    *)
(* StopCapture.                                                            *)
Stranded ==
  /\ pc \in {"idle", "using"}
  /\ mIO # "READ"
  /\ mIsLocked
  /\ mLockedBuffer \in HeldByDriver

(* No frame is leased and no buffer queued on top of such a lock: every    *)
(* call on the object ends the process, because the class refuses to lock  *)
(* again and the driver refuses the buffer, unless capturing is stopped    *)
(* first (LockFrame, UnlockFrame and the destructor).                      *)
StrandedLockIsFatal ==
  [][Stranded => pc' \in {pc, "dead"} \/ ~mCapturing']_vars

(* LockFrame returns, or throws if a call failed: no timeout, signal or    *)
(* error keeps it in its loop for ever (LockFrame).                        *)
LockReturns ==
  pc = "select" ~> (pc = "using" \/ (pc = "dead" /\ faults # {}))

NoFrame == FrameNumbers
Lease == INSTANCE FrameLease WITH
  Capacity <- BufCount,
  next <- frame,
  ready <- [i \in 1..Len(done) |-> content[done[i]]],
  lease <- IF pc = "using" THEN Shown ELSE NoFrame,
  faulty <- faults # {}

(* The class leases the camera's frames in the order they were delivered,  *)
(* each at most once, and discards them only when capturing stops; when    *)
(* calls fail it may hand out another frame, but takes none out of turn    *)
(* (LockFrame, UnlockFrame and StopCapture implement FrameLease).          *)
ImplementsLease == Lease!Spec
=============================================================================
