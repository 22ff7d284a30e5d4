-------------------------- MODULE VideoCaptureProofs --------------------------
(***************************************************************************)
(* The camera wrapper keeps its buffers apart, keeps their memory as long  *)
(* as the driver fills it, and leases frames as FrameLease promises; for     *)
(* every number of buffers, every set of faults and any number of calls.   *)
(*                                                                         *)
(* BuffersAccounted counts; what is inductive is which buffers are where:  *)
(* while the driver streams it has all of them but the one on loan.  The   *)
(* count follows because no buffer is held twice.  Memory is there because *)
(* the driver streams in the streaming modes only while capturing.         *)
(* Frames are leased in turn because the filled buffers hold consecutive   *)
(* numbers between the frame last leased and the driver's next (InTurn).   *)
(***************************************************************************)
EXTENDS VideoCapture, FiniteSetTheorems, TLAPS

(* The flags by where the client is. *)
FlagsByPlace ==
  /\ pc \in {"idle", "select", "dequeue", "using"} => mCapturing /\ memory = "live"
  /\ pc \in {"select", "dequeue", "using"} => mIsLocked
  /\ pc \in {"stopped", "closed"} => ~mCapturing /\ memory # "live"
  /\ memory # "misfreed"
  /\ pc = "closed" => ~streaming

(* In the streaming modes the driver runs while the class captures.  When  *)
(* it does not, it has at most the buffer whose lock outlived capturing.   *)
StreamsWhileCapturing ==
  /\ mIO # "READ" /\ streaming => memory = "live"
  /\ mIO # "READ" /\ pc \in {"idle", "select", "dequeue", "using"} => streaming
  /\ ~streaming => /\ done = <<>> /\ Len(queued) <= 1
                   /\ mIsLocked \/ mIO = "READ" => queued = <<>>

(* No buffer is in two places, and all of them are somewhere. *)
Apart ==
  /\ IsInjective(queued) /\ IsInjective(done)
  /\ ToSet(queued) \cap ToSet(done) = {}
Whereabouts ==
  streaming /\ pc # "dead" =>
    HeldByDriver = Buffers \ (IF OnLoan THEN {mLockedBuffer} ELSE {})

(* Nothing but an error makes select return without a frame; in mode READ  *)
(* the copy is the frame last locked.                                      *)
FrameBehindSelect ==
  /\ pc = "dequeue" => done # <<>> \/ "select" \in faults
  /\ mIO = "READ" /\ pc # "closed" => copy = last

IInv == /\ TypeOK
        /\ FlagsByPlace
        /\ StreamsWhileCapturing
        /\ Apart
        /\ Whereabouts
        /\ FrameBehindSelect
        /\ LeaseIsStable

-----------------------------------------------------------------------------
(* What is in a sequence without repetitions, and how long it is. *)
LEMMA AppendApart ==
  ASSUME NEW S, NEW q \in Seq(S), NEW x \in S
  PROVE  /\ Append(q, x) \in Seq(S)
         /\ ToSet(Append(q, x)) = ToSet(q) \cup {x}
         /\ IsInjective(q) /\ x \notin ToSet(q) => IsInjective(Append(q, x))
<1>1. /\ Append(q, x) \in Seq(S) /\ Len(q) \in Nat
      /\ DOMAIN q = 1..Len(q) /\ DOMAIN Append(q, x) = 1..(Len(q) + 1)
      /\ \A i \in 1..Len(q) : Append(q, x)[i] = q[i]
      /\ Append(q, x)[Len(q) + 1] = x
  OBVIOUS
<1>2. ToSet(Append(q, x)) = ToSet(q) \cup {x}
  BY <1>1 DEF ToSet
<1>3. ASSUME IsInjective(q), x \notin ToSet(q)
      PROVE  IsInjective(Append(q, x))
  BY <1>1, <1>3 DEF IsInjective, ToSet
<1> QED BY <1>1, <1>2, <1>3

LEMMA TailApart ==
  ASSUME NEW S, NEW q \in Seq(S), q # <<>>, IsInjective(q)
  PROVE  /\ Head(q) \in S /\ Head(q) \in ToSet(q)
         /\ Tail(q) \in Seq(S)
         /\ ToSet(Tail(q)) = ToSet(q) \ {Head(q)}
         /\ IsInjective(Tail(q))
<1>1. /\ Len(q) \in Nat /\ Len(q) > 0 /\ DOMAIN q = 1..Len(q)
      /\ Head(q) = q[1] /\ Head(q) \in S /\ Tail(q) \in Seq(S)
      /\ DOMAIN Tail(q) = 1..(Len(q) - 1)
      /\ \A i \in 1..(Len(q) - 1) : Tail(q)[i] = q[i + 1]
  OBVIOUS
<1>2. Head(q) \in ToSet(q)
  BY <1>1 DEF ToSet
<1>3. \A x : x \in ToSet(Tail(q)) <=> \E i \in 1..(Len(q) - 1) : q[i + 1] = x
  BY <1>1 DEF ToSet
<1>4. \A x : x \in ToSet(q) /\ x # Head(q) <=> \E j \in 2..Len(q) : q[j] = x
  BY <1>1 DEF ToSet, IsInjective
<1>5. ToSet(Tail(q)) = ToSet(q) \ {Head(q)}
  <2>1. \A i \in 1..(Len(q) - 1) : i + 1 \in 2..Len(q)
    BY <1>1
  <2>2. \A j \in 2..Len(q) : j - 1 \in 1..(Len(q) - 1) /\ (j - 1) + 1 = j
    BY <1>1
  <2> QED BY <1>3, <1>4, <2>1, <2>2
<1>6. IsInjective(Tail(q))
  <2> SUFFICES ASSUME NEW i \in 1..(Len(q) - 1), NEW j \in 1..(Len(q) - 1),
                      Tail(q)[i] = Tail(q)[j]
               PROVE  i = j
    BY <1>1 DEF IsInjective
  <2>1. q[i + 1] = q[j + 1] /\ i + 1 \in DOMAIN q /\ j + 1 \in DOMAIN q
    BY <1>1
  <2> QED BY <2>1 DEF IsInjective
<1> QED BY <1>1, <1>2, <1>5, <1>6

LEMMA ConcatApart ==
  ASSUME NEW S, NEW p \in Seq(S), NEW q \in Seq(S),
         IsInjective(p), IsInjective(q), ToSet(p) \cap ToSet(q) = {}
  PROVE  /\ p \o q \in Seq(S) /\ Len(p \o q) = Len(p) + Len(q)
         /\ IsInjective(p \o q)
         /\ ToSet(p \o q) = ToSet(p) \cup ToSet(q)
<1> DEFINE r == p \o q
<1>1. /\ Len(p) \in Nat /\ Len(q) \in Nat
      /\ DOMAIN p = 1..Len(p) /\ DOMAIN q = 1..Len(q)
      /\ r \in Seq(S) /\ Len(r) = Len(p) + Len(q)
      /\ DOMAIN r = 1..(Len(p) + Len(q))
      /\ \A i \in 1..Len(p) : r[i] = p[i]
      /\ \A i \in (Len(p) + 1)..(Len(p) + Len(q)) : r[i] = q[i - Len(p)]
  OBVIOUS
<1> HIDE DEF r
<1>2. \A i \in 1..Len(p) : i \in DOMAIN r /\ r[i] = p[i] /\ r[i] \in ToSet(p)
  BY <1>1 DEF ToSet
<1>3. \A i \in (Len(p) + 1)..(Len(p) + Len(q)) :
         /\ i \in DOMAIN r /\ i - Len(p) \in DOMAIN q
         /\ r[i] = q[i - Len(p)] /\ r[i] \in ToSet(q)
  <2> SUFFICES ASSUME NEW i \in (Len(p) + 1)..(Len(p) + Len(q))
               PROVE  /\ i \in DOMAIN r /\ i - Len(p) \in DOMAIN q
                      /\ r[i] = q[i - Len(p)] /\ r[i] \in ToSet(q)
    OBVIOUS
  <2>1. i \in 1..(Len(p) + Len(q)) /\ i - Len(p) \in 1..Len(q)
    BY <1>1
  <2>2. q[i - Len(p)] \in ToSet(q)
    BY <1>1, <2>1 DEF ToSet
  <2> QED BY <1>1, <2>1, <2>2
<1>4. \A i \in DOMAIN r : \/ i \in 1..Len(p)
                          \/ i \in (Len(p) + 1)..(Len(p) + Len(q))
  BY <1>1
<1>5. IsInjective(r)
  <2> SUFFICES ASSUME NEW i \in DOMAIN r, NEW j \in DOMAIN r, r[i] = r[j]
               PROVE  i = j
    BY DEF IsInjective
  <2>1. CASE i \in 1..Len(p) /\ j \in 1..Len(p)
    BY <1>1, <1>2, <2>1 DEF IsInjective
  <2>2. CASE /\ i \in (Len(p) + 1)..(Len(p) + Len(q))
             /\ j \in (Len(p) + 1)..(Len(p) + Len(q))
    <3>1. i - Len(p) = j - Len(p)
      BY <1>3, <2>2 DEF IsInjective
    <3> QED BY <1>1, <2>2, <3>1
  <2> QED BY <1>2, <1>3, <1>4, <2>1, <2>2
<1>6. ToSet(r) = ToSet(p) \cup ToSet(q)
  <2>1. \A x \in ToSet(r) : x \in ToSet(p) \cup ToSet(q)
    BY <1>2, <1>3, <1>4 DEF ToSet
  <2>2. \A x \in ToSet(p) : x \in ToSet(r)
    BY <1>1, <1>2 DEF ToSet
  <2>3. ASSUME NEW x \in ToSet(q) PROVE x \in ToSet(r)
    <3>1. PICK i \in 1..Len(q) : q[i] = x
      BY <1>1 DEF ToSet
    <3>2. /\ i + Len(p) \in (Len(p) + 1)..(Len(p) + Len(q))
          /\ (i + Len(p)) - Len(p) = i
      BY <1>1
    <3> QED BY <1>3, <3>1, <3>2 DEF ToSet
  <2> QED BY <2>1, <2>2, <2>3
<1> QED BY <1>1, <1>5, <1>6 DEF r

LEMMA LengthApart ==
  ASSUME NEW S, IsFiniteSet(S), NEW q \in Seq(S), IsInjective(q)
  PROVE  Len(q) = Cardinality(ToSet(q)) /\ Len(q) <= Cardinality(S)
<1>1. /\ Len(q) \in Nat /\ DOMAIN q = 1..Len(q)
      /\ ToSet(q) \in SUBSET S /\ q \in [1..Len(q) -> ToSet(q)]
  BY DEF ToSet
<1>2. q \in Bijection(1..Len(q), ToSet(q))
  BY <1>1 DEF Bijection, Injection, Surjection, IsInjective, ToSet
<1>3. IsFiniteSet(1..Len(q)) /\ Cardinality(1..Len(q)) = Len(q)
  BY <1>1, FS_Interval
<1>4. Cardinality(ToSet(q)) = Len(q)
  BY <1>2, <1>3, FS_Bijection DEF ExistsBijection
<1> QED BY <1>1, <1>4, FS_Subset

(* The entries of a sequence with one more or one less. *)
LEMMA SequenceEntries ==
  ASSUME NEW S, NEW q \in Seq(S)
  PROVE  q = [i \in 1..Len(q) |-> q[i]]
OBVIOUS

LEMMA AppendEntries ==
  ASSUME NEW S, NEW q \in Seq(S), NEW x \in S
  PROVE  Append(q, x) =
           [i \in 1..(Len(q) + 1) |-> IF i <= Len(q) THEN q[i] ELSE x]
<1> DEFINE r == Append(q, x)
<1>1. /\ r \in Seq(S) /\ Len(q) \in Nat /\ Len(r) = Len(q) + 1
      /\ \A i \in 1..Len(q) : r[i] = q[i]
      /\ r[Len(q) + 1] = x
  OBVIOUS
<1> HIDE DEF r
<1>2. r = [i \in 1..(Len(q) + 1) |-> r[i]]
  BY <1>1, SequenceEntries
<1>3. \A i \in 1..(Len(q) + 1) : r[i] = IF i <= Len(q) THEN q[i] ELSE x
  BY <1>1
<1>4. r = [i \in 1..(Len(q) + 1) |-> IF i <= Len(q) THEN q[i] ELSE x]
  BY <1>2, <1>3
<1> QED BY <1>4 DEF r

LEMMA TailEntries ==
  ASSUME NEW S, NEW q \in Seq(S), q # <<>>
  PROVE  Tail(q) = [i \in 1..(Len(q) - 1) |-> q[i + 1]]
<1> DEFINE r == Tail(q)
<1>1. /\ r \in Seq(S) /\ Len(q) \in Nat /\ Len(q) > 0 /\ Len(r) = Len(q) - 1
      /\ \A i \in 1..(Len(q) - 1) : r[i] = q[i + 1]
  OBVIOUS
<1> HIDE DEF r
<1>2. r = [i \in 1..(Len(q) - 1) |-> r[i]]
  BY <1>1, SequenceEntries
<1>3. r = [i \in 1..(Len(q) - 1) |-> q[i + 1]]
  BY <1>1, <1>2
<1> QED BY <1>3 DEF r

LEMMA BuffersFinite == IsFiniteSet(Buffers) /\ Cardinality(Buffers) = BufCount
BY BufCountAssumption, FS_Interval DEF Buffers

LEMMA InOrderApart ==
  /\ InOrder \in Seq(Buffers) /\ IsInjective(InOrder)
  /\ ToSet(InOrder) = Buffers
<1>1. InOrder \in [1..BufCount -> Buffers] /\ BufCount \in Nat
  BY BufCountAssumption DEF InOrder, Buffers
<1> QED BY <1>1 DEF InOrder, Buffers, IsInjective, ToSet

LEMMA EmptyApart == /\ \A S : <<>> \in Seq(S)
                    /\ IsInjective(<<>>) /\ ToSet(<<>>) = {}
BY DEF IsInjective, ToSet

-----------------------------------------------------------------------------
LEMMA InitIInv == Init => IInv
<1> SUFFICES ASSUME Init PROVE IInv
  OBVIOUS
<1>1. FrameNumbers - 1 \in 0..(FrameNumbers - 1) /\ 0 \in 0..(FrameNumbers - 1)
  BY FrameNumbersAssumption, BufCountAssumption
<1>2. 1 \in Buffers
  BY BufCountAssumption DEF Buffers
<1>3. TypeOK
  BY <1>1, <1>2, EmptyApart DEF Init, TypeOK
<1>4. Apart
  BY EmptyApart DEF Init, Apart
<1>5. /\ FlagsByPlace /\ StreamsWhileCapturing /\ Whereabouts
      /\ FrameBehindSelect /\ LeaseIsStable
  BY DEF Init, FlagsByPlace, StreamsWhileCapturing, Whereabouts,
         FrameBehindSelect, LeaseIsStable
<1> QED BY <1>3, <1>4, <1>5 DEF IInv

(* StreamOn and StreamOff.                                                 *)
LEMMA StreamOnApart ==
  ASSUME IInv, ~streaming, StreamOn
  PROVE  /\ streaming' /\ queued' \in Seq(Buffers) /\ done' = <<>>
         /\ Apart' /\ HeldByDriver' = Buffers
<1>1. queued' = InOrder /\ streaming' /\ done' = <<>>
  BY DEF IInv, StreamsWhileCapturing, StreamOn
<1> QED BY <1>1, InOrderApart, EmptyApart DEF Apart, HeldByDriver

LEMMA StreamOffApart ==
  ASSUME StreamOff
  PROVE  Apart' /\ ~streaming' /\ queued' = <<>> /\ done' = <<>>
BY EmptyApart DEF StreamOff, Apart

(* Fill moves the first queued buffer to the filled ones.                  *)
LEMMA FillApart ==
  ASSUME IInv, Fill
  PROVE  /\ Head(queued) \in Buffers /\ Head(queued) \in HeldByDriver
         /\ Head(queued) \notin ToSet(done)
         /\ queued' \in Seq(Buffers) /\ done' \in Seq(Buffers)
         /\ done' = Append(done, Head(queued))
         /\ Apart' /\ HeldByDriver' = HeldByDriver
<1>1. /\ queued \in Seq(Buffers) /\ done \in Seq(Buffers) /\ queued # <<>>
      /\ done' = Append(done, Head(queued)) /\ queued' = Tail(queued)
      /\ IsInjective(queued) /\ IsInjective(done)
      /\ ToSet(queued) \cap ToSet(done) = {}
  BY DEF IInv, TypeOK, Apart, Fill
<1>2. /\ Head(queued) \in Buffers /\ Head(queued) \in ToSet(queued)
      /\ queued' \in Seq(Buffers) /\ IsInjective(queued')
      /\ ToSet(queued') = ToSet(queued) \ {Head(queued)}
  BY <1>1, TailApart
<1>3. /\ done' \in Seq(Buffers) /\ IsInjective(done')
      /\ ToSet(done') = ToSet(done) \cup {Head(queued)}
  BY <1>1, <1>2, AppendApart
<1> QED BY <1>1, <1>2, <1>3 DEF Apart, HeldByDriver

(* Dequeue takes the oldest filled buffer: on loan, or, in mode READ, back *)
(* to the queue.                                                           *)
LEMMA DequeueApart ==
  ASSUME IInv, Dequeue
  PROVE  /\ Head(done) \in Buffers
         /\ queued' \in Seq(Buffers) /\ done' \in Seq(Buffers)
         /\ Apart'
         /\ mIO = "READ" => HeldByDriver' = HeldByDriver
         /\ mIO # "READ" => /\ mLockedBuffer' = Head(done)
                            /\ HeldByDriver' = HeldByDriver \ {Head(done)}
<1>1. /\ queued \in Seq(Buffers) /\ done \in Seq(Buffers) /\ done # <<>>
      /\ done' = Tail(done)
      /\ IsInjective(queued) /\ IsInjective(done)
      /\ ToSet(queued) \cap ToSet(done) = {}
  BY DEF IInv, TypeOK, Apart, Dequeue
<1>2. /\ Head(done) \in Buffers /\ Head(done) \in ToSet(done)
      /\ done' \in Seq(Buffers) /\ IsInjective(done')
      /\ ToSet(done') = ToSet(done) \ {Head(done)}
  BY <1>1, TailApart
<1>3. CASE mIO = "READ"
  <2>1. queued' = Append(queued, Head(done))
    BY <1>3 DEF Dequeue
  <2>2. /\ queued' \in Seq(Buffers) /\ IsInjective(queued')
        /\ ToSet(queued') = ToSet(queued) \cup {Head(done)}
    BY <1>1, <1>2, <2>1, AppendApart
  <2> QED BY <1>1, <1>2, <1>3, <2>2 DEF Apart, HeldByDriver
<1>4. CASE mIO # "READ"
  <2>1. queued' = queued /\ mLockedBuffer' = Head(done)
    BY <1>4 DEF Dequeue, FoundBuffer
  <2> QED BY <1>1, <1>2, <1>4, <2>1 DEF Apart, HeldByDriver
<1> QED BY <1>3, <1>4

(* UnlockFrame gives back the buffer on loan; and to a driver that does    *)
(* not stream, the one that is locked.                                     *)
LEMMA UnlockApart ==
  ASSUME IInv, UnlockFrame
  PROVE  /\ queued' \in Seq(Buffers) /\ done' = done
         /\ Apart'
         /\ MayRequeue /\ streaming => HeldByDriver' = Buffers
         /\ ~streaming => Len(queued') <= 1 /\ (mIO = "READ" => queued' = <<>>)
<1>1. /\ queued \in Seq(Buffers) /\ mLockedBuffer \in Buffers /\ done' = done
      /\ Apart /\ mIsLocked
      /\ ~streaming => queued = <<>>
      /\ streaming => HeldByDriver = Buffers \ (IF OnLoan THEN {mLockedBuffer} ELSE {})
  BY DEF IInv, TypeOK, UnlockFrame, StreamsWhileCapturing, Whereabouts
<1>2. CASE MayRequeue /\ mIO # "READ"
  <2>1. /\ mLockedBuffer \notin HeldByDriver
        /\ streaming => OnLoan
        /\ queued' = Append(queued, mLockedBuffer)
    BY <1>1, <1>2 DEF MayRequeue, UnlockFrame, Requeue
  <2>2. /\ queued' \in Seq(Buffers) /\ IsInjective(queued')
        /\ ToSet(queued') = ToSet(queued) \cup {mLockedBuffer}
    BY <1>1, <2>1, AppendApart DEF Apart, HeldByDriver
  <2>3. Apart'
    BY <1>1, <2>1, <2>2 DEF Apart, HeldByDriver
  <2>4. HeldByDriver' = HeldByDriver \cup {mLockedBuffer}
    BY <1>1, <2>2 DEF HeldByDriver
  <2>5. ~streaming => Len(queued') <= 1
    BY <1>1, <2>1
  <2> QED BY <1>1, <1>2, <2>1, <2>2, <2>3, <2>4, <2>5
<1>3. CASE ~(MayRequeue /\ mIO # "READ")
  <2>1. queued' = queued
    BY <1>3 DEF UnlockFrame, Requeue
  <2>2. MayRequeue => ~OnLoan
    BY <1>3 DEF OnLoan
  <2>3. ~streaming => Len(queued') <= 1
    BY <1>1, <2>1
  <2> QED BY <1>1, <2>1, <2>2, <2>3 DEF Apart, HeldByDriver
<1> QED BY <1>2, <1>3

-----------------------------------------------------------------------------
LEMMA NextTypeOK == IInv /\ [Next]_vars => TypeOK'
<1> SUFFICES ASSUME IInv, [Next]_vars PROVE TypeOK'
  OBVIOUS
<1>0. /\ TypeOK
      /\ FrameNumbers - 1 \in 0..(FrameNumbers - 1) /\ 0 \in 0..(FrameNumbers - 1)
      /\ 1 \in Buffers
  BY FrameNumbersAssumption, BufCountAssumption DEF IInv, Buffers
<1>1. CASE StartCapture
  <2>1. queued' \in Seq(Buffers)
    BY <1>0, <1>1, InOrderApart DEF StartCapture, StreamOn, driverVars, TypeOK
  <2> QED BY <1>0, <1>1, <2>1 DEF StartCapture, StreamOn, driverVars, TypeOK
<1>2. CASE LockFrame
  <2>1. queued' \in Seq(Buffers)
    BY <1>0, <1>2, InOrderApart DEF LockFrame, StreamOn, driverVars, TypeOK
  <2> QED BY <1>0, <1>2, <2>1 DEF LockFrame, StreamOn, driverVars, TypeOK
<1>3. CASE SelectReturns
  BY <1>0, <1>3 DEF SelectReturns, driverVars, TypeOK
<1>4. CASE Dequeue
  <2>1. /\ Head(done) \in Buffers
        /\ queued' \in Seq(Buffers) /\ done' \in Seq(Buffers)
    BY <1>4, DequeueApart
  <2>2. content[Head(done)] \in 0..(FrameNumbers - 1)
    BY <1>0, <2>1 DEF TypeOK
  <2>3. /\ mLockedBuffer' \in Buffers /\ copy' \in 0..(FrameNumbers - 1)
        /\ last' \in 0..(FrameNumbers - 1)
    BY <1>0, <1>4, <2>1, <2>2 DEF Dequeue, FoundBuffer, TypeOK
  <2> QED BY <1>0, <1>4, <2>1, <2>3 DEF Dequeue, TypeOK
<1>5. CASE DequeueIgnored
  BY <1>0, <1>5 DEF DequeueIgnored, Throw, driverVars, TypeOK
<1>6. CASE UnlockFrame
  <2>1. queued' \in Seq(Buffers)
    BY <1>6, UnlockApart
  <2> QED BY <1>0, <1>6, <2>1 DEF UnlockFrame, Throw, TypeOK
<1>7. CASE StopCapture
  <2>1. queued' \in Seq(Buffers) /\ done' \in Seq(Buffers)
    BY <1>0, <1>7, EmptyApart
       DEF StopCapture, StopDriver, StreamOff, driverVars, TypeOK
  <2> QED BY <1>0, <1>7, <2>1
          DEF StopCapture, StopDriver, StreamOff, Freed, driverVars, TypeOK
<1>8. CASE Destroy
  <2>1. queued' \in Seq(Buffers) /\ done' \in Seq(Buffers)
    BY <1>0, <1>8, EmptyApart DEF Destroy, StreamOff, driverVars, TypeOK
  <2> QED BY <1>0, <1>8, <2>1
          DEF Destroy, Throw, StreamOff, Freed, driverVars, TypeOK
<1>9. CASE CallFails \/ OutOfTurn
  BY <1>0, <1>9 DEF CallFails, OutOfTurn, Throw, driverVars, TypeOK
<1>10. CASE Fill
  <2>1. /\ Head(queued) \in Buffers
        /\ queued' \in Seq(Buffers) /\ done' \in Seq(Buffers)
    BY <1>10, FillApart
  <2>2. frame' \in 0..(FrameNumbers - 1)
    BY <1>0, <1>10, FrameNumbersAssumption, BufCountAssumption DEF Fill, TypeOK
  <2>3. content' \in [Buffers -> 0..(FrameNumbers - 1)]
    BY <1>0, <1>10, <2>1 DEF Fill, TypeOK
  <2> QED BY <1>0, <1>10, <2>1, <2>2, <2>3 DEF Fill, clientVars, TypeOK
<1>11. CASE UNCHANGED vars
  BY <1>0, <1>11 DEF vars, clientVars, driverVars, TypeOK
<1> QED BY <1>1, <1>2, <1>3, <1>4, <1>5, <1>6, <1>7, <1>8, <1>9, <1>10, <1>11
        DEF Next, Client

(* The flags follow the client's place, and the driver follows them.       *)
LEMMA NextFlags == IInv /\ [Next]_vars => FlagsByPlace' /\ StreamsWhileCapturing'
<1> SUFFICES ASSUME IInv, [Next]_vars
             PROVE  FlagsByPlace' /\ StreamsWhileCapturing'
  OBVIOUS
<1>0. FlagsByPlace /\ StreamsWhileCapturing
  BY DEF IInv
<1> USE <1>0 DEF FlagsByPlace, StreamsWhileCapturing, Throw
<1>1. CASE StartCapture
  BY <1>1 DEF StartCapture, StreamOn, driverVars
<1>2. CASE LockFrame
  BY <1>2 DEF LockFrame, StreamOn, driverVars
<1>3. CASE SelectReturns
  BY <1>3 DEF SelectReturns, driverVars
<1>4. CASE Dequeue
  BY <1>4 DEF Dequeue
<1>5. CASE DequeueIgnored
  BY <1>5 DEF DequeueIgnored, driverVars
<1>6. CASE UnlockFrame
  <2>1. /\ done' = done
        /\ ~streaming => Len(queued') <= 1 /\ (mIO = "READ" => queued' = <<>>)
    BY <1>6, UnlockApart
  <2> QED BY <1>6, <2>1 DEF UnlockFrame
<1>7. CASE StopCapture
  <2>1. CASE mIO = "READ"
    BY <1>7, <2>1 DEF StopCapture, StopDriver, Freed, driverVars
  <2>2. CASE mIO # "READ"
    BY <1>7, <2>2 DEF StopCapture, StopDriver, StreamOff, Freed
  <2> QED BY <2>1, <2>2
<1>8. CASE Destroy
  <2>1. CASE MayRequeue
    <3>1. mCapturing => memory = "live"
      BY <1>8 DEF Destroy
    <3> QED BY <1>8, <2>1, <3>1 DEF Destroy, StreamOff, Freed
  <2>2. CASE ~MayRequeue
    BY <1>8, <2>2 DEF Destroy, driverVars, MayRequeue
  <2> QED BY <2>1, <2>2
<1>9. CASE CallFails \/ OutOfTurn
  BY <1>9 DEF CallFails, OutOfTurn, driverVars
<1>10. CASE Fill
  BY <1>10 DEF Fill, clientVars
<1>11. CASE UNCHANGED vars
  BY <1>11 DEF vars, clientVars, driverVars
<1> QED BY <1>1, <1>2, <1>3, <1>4, <1>5, <1>6, <1>7, <1>8, <1>9, <1>10, <1>11
        DEF Next, Client

(* The buffers stay apart, and are where they are expected.                *)
LEMMA NextApart == IInv /\ [Next]_vars => Apart' /\ Whereabouts'
<1> SUFFICES ASSUME IInv, [Next]_vars PROVE Apart' /\ Whereabouts'
  OBVIOUS
<1>0. Apart /\ Whereabouts
  BY DEF IInv
<1>a. ASSUME UNCHANGED driverVars
      PROVE  Apart' /\ HeldByDriver' = HeldByDriver /\ streaming' = streaming
  BY <1>0, <1>a DEF driverVars, Apart, HeldByDriver
<1>1. CASE StartCapture
  <2>1. ~OnLoan /\ ~OnLoan'
    BY <1>1 DEF StartCapture, OnLoan
  <2>2. CASE mIO = "READ"
    <3>1. UNCHANGED driverVars
      BY <1>1, <2>2 DEF StartCapture
    <3>2. pc # "dead"
      BY <1>1 DEF StartCapture
    <3> QED BY <1>0, <1>a, <2>1, <3>1, <3>2 DEF Whereabouts
  <2>3. CASE mIO # "READ"
    <3>1. StreamOn /\ ~streaming
      BY <1>1, <2>3 DEF StartCapture, IInv, FlagsByPlace, StreamsWhileCapturing
    <3> QED BY <2>1, <3>1, StreamOnApart DEF Whereabouts
  <2> QED BY <2>2, <2>3
<1>2. CASE LockFrame
  <2>1. ~OnLoan /\ ~OnLoan' /\ pc # "dead"
    BY <1>2 DEF LockFrame, OnLoan
  <2>2. CASE streaming
    <3>1. UNCHANGED driverVars
      BY <1>2, <2>2 DEF LockFrame
    <3> QED BY <1>0, <1>a, <2>1, <3>1 DEF Whereabouts
  <2>3. CASE ~streaming
    <3>1. StreamOn
      BY <1>2, <2>3 DEF LockFrame
    <3> QED BY <2>1, <2>3, <3>1, StreamOnApart DEF Whereabouts
  <2> QED BY <2>2, <2>3
<1>3. CASE SelectReturns
  <2>1. /\ UNCHANGED driverVars /\ pc # "dead"
        /\ ~OnLoan /\ ~OnLoan'
    BY <1>3 DEF SelectReturns, OnLoan
  <2> QED BY <1>0, <1>a, <2>1 DEF Whereabouts
<1>4. CASE Dequeue
  <2>1. /\ pc = "dequeue" /\ pc' = "using" /\ mIO' = mIO
        /\ streaming' = streaming /\ ~OnLoan
    BY <1>4 DEF Dequeue, OnLoan
  <2>2. CASE mIO = "READ"
    <3>1. HeldByDriver' = HeldByDriver /\ Apart' /\ ~OnLoan'
      BY <1>4, <2>1, <2>2, DequeueApart DEF OnLoan
    <3> QED BY <1>0, <2>1, <3>1 DEF Whereabouts
  <2>3. CASE mIO # "READ"
    <3>1. /\ mLockedBuffer' = Head(done) /\ Apart'
          /\ HeldByDriver' = HeldByDriver \ {Head(done)}
      BY <1>4, <2>3, DequeueApart
    <3>2. OnLoan'
      BY <2>1, <2>3, <3>1 DEF OnLoan
    <3>3. HeldByDriver = Buffers \/ ~streaming
      BY <1>0, <2>1 DEF Whereabouts
    <3>4. streaming' => HeldByDriver' = Buffers \ {mLockedBuffer'}
      BY <2>1, <3>1, <3>3
    <3> QED BY <3>1, <3>2, <3>4 DEF Whereabouts
  <2> QED BY <2>2, <2>3
<1>5. CASE DequeueIgnored
  <2>1. /\ UNCHANGED driverVars /\ pc = "dequeue" /\ ~OnLoan
        /\ pc' = "dead" \/ (pc' = "using" /\ mIO # "USERPTR")
        /\ mIO' = mIO /\ mIO \in IO
        /\ mIO = "MMAP" => mLockedBuffer' = 1
    BY <1>5 DEF DequeueIgnored, Throw, OnLoan, IInv, TypeOK
  <2>2. mIO = "MMAP" => streaming
    BY <2>1 DEF IInv, StreamsWhileCapturing
  <2>3. streaming => HeldByDriver = Buffers
    BY <1>0, <2>1 DEF Whereabouts
  <2>4. 1 \in Buffers
    BY BufCountAssumption DEF Buffers
  <2>5. ~OnLoan'
    BY <1>a, <2>1, <2>2, <2>3, <2>4 DEF OnLoan, IO
  <2> QED BY <1>a, <2>1, <2>3, <2>5 DEF Whereabouts
<1>6. CASE UnlockFrame
  <2>1. Apart' /\ (MayRequeue /\ streaming => HeldByDriver' = Buffers)
    BY <1>6, UnlockApart
  <2>2. /\ streaming' = streaming /\ ~OnLoan'
        /\ ~MayRequeue => pc' = "dead"
    BY <1>6 DEF UnlockFrame, Throw, OnLoan
  <2> QED BY <2>1, <2>2 DEF Whereabouts
<1>7. CASE StopCapture
  <2>1. ~OnLoan' /\ pc # "dead"
    BY <1>7 DEF StopCapture, OnLoan
  <2>2. CASE mIO = "READ"
    <3>1. UNCHANGED driverVars /\ ~OnLoan
      BY <1>7, <2>2 DEF StopCapture, StopDriver, OnLoan
    <3> QED BY <1>0, <1>a, <2>1, <3>1 DEF Whereabouts
  <2>3. CASE mIO # "READ"
    <3>1. StreamOff
      BY <1>7, <2>3 DEF StopCapture, StopDriver
    <3> QED BY <3>1, StreamOffApart DEF Whereabouts
  <2> QED BY <2>2, <2>3
<1>8. CASE Destroy
  <2>1. CASE MayRequeue
    <3>1. StreamOff
      BY <1>8, <2>1 DEF Destroy
    <3> QED BY <3>1, StreamOffApart DEF Whereabouts
  <2>2. CASE ~MayRequeue
    <3>1. UNCHANGED driverVars /\ pc' = "dead"
      BY <1>8, <2>2 DEF Destroy, Throw
    <3> QED BY <1>a, <3>1 DEF Whereabouts
  <2> QED BY <2>1, <2>2
<1>9. CASE CallFails \/ OutOfTurn
  <2>1. UNCHANGED driverVars /\ pc' = "dead"
    BY <1>9 DEF CallFails, OutOfTurn, Throw
  <2> QED BY <1>a, <2>1 DEF Whereabouts
<1>10. CASE Fill
  <2>1. Apart' /\ HeldByDriver' = HeldByDriver
    BY <1>10, FillApart
  <2>2. UNCHANGED <<pc, mIO, mLockedBuffer, streaming>>
    BY <1>10 DEF Fill, clientVars
  <2>3. OnLoan' = OnLoan
    BY <2>1, <2>2 DEF OnLoan
  <2> QED BY <1>0, <2>1, <2>2, <2>3 DEF Whereabouts
<1>11. CASE UNCHANGED vars
  <2>1. UNCHANGED driverVars /\ UNCHANGED <<pc, mIO, mLockedBuffer>>
    BY <1>11 DEF vars, clientVars
  <2>2. OnLoan' = OnLoan
    BY <1>a, <2>1 DEF OnLoan
  <2> QED BY <1>0, <1>a, <2>1, <2>2 DEF Whereabouts
<1> QED BY <1>1, <1>2, <1>3, <1>4, <1>5, <1>6, <1>7, <1>8, <1>9, <1>10, <1>11
        DEF Next, Client

(* The client's image is the frame last locked, unless a call has failed.  *)
LEMMA NextLease == IInv /\ [Next]_vars => FrameBehindSelect' /\ LeaseIsStable'
<1> SUFFICES ASSUME IInv, [Next]_vars
             PROVE  FrameBehindSelect' /\ LeaseIsStable'
  OBVIOUS
<1>0. FrameBehindSelect /\ LeaseIsStable /\ TypeOK
  BY DEF IInv
<1>1. CASE StartCapture
  BY <1>0, <1>1 DEF StartCapture, FrameBehindSelect, LeaseIsStable
<1>2. CASE LockFrame
  BY <1>0, <1>2 DEF LockFrame, FrameBehindSelect, LeaseIsStable
<1>3. CASE SelectReturns
  BY <1>0, <1>3 DEF SelectReturns, SelectReady, driverVars, FrameBehindSelect,
                    LeaseIsStable
<1>4. CASE Dequeue
  <2>1. /\ pc' = "using" /\ mIO' = mIO /\ content' = content
        /\ last' = content[Head(done)]
        /\ mIO = "READ" => copy' = content[Head(done)]
    BY <1>4 DEF Dequeue
  <2>2. mIO # "READ" => /\ mLockedBuffer' = Head(done)
                        /\ mLockedBuffer' \notin HeldByDriver'
    BY <1>4, DequeueApart
  <2>3. Shown' = last' /\ (mIO' = "READ" \/ OnLoan')
    BY <2>1, <2>2 DEF Shown, OnLoan
  <2> QED BY <2>1, <2>3 DEF FrameBehindSelect, LeaseIsStable
<1>5. CASE DequeueIgnored
  <2>1. /\ pc = "dequeue" /\ faults' = faults
        /\ mIO' = mIO /\ copy' = copy /\ last' = last
        /\ pc' = "dead" \/ (pc' = "using" /\ mIO \in {"READ", "MMAP"})
    BY <1>0, <1>5 DEF DequeueIgnored, Throw, driverVars, TypeOK, IO
  <2>2. faults # {}
    BY <1>0, <1>5 DEF DequeueIgnored, FrameBehindSelect
  <2>3. mIO = "READ" => Shown' = last'
    BY <1>0, <2>1 DEF FrameBehindSelect, Shown
  <2>4. mIO = "MMAP" /\ pc' = "using" => ~OnLoan'
    <3>1. ASSUME mIO = "MMAP", pc' = "using" PROVE 1 \in HeldByDriver'
      <4>1. streaming /\ pc # "dead" /\ ~OnLoan
        BY <2>1, <3>1 DEF IInv, StreamsWhileCapturing, OnLoan
      <4>2. 1 \in HeldByDriver
        BY <4>1, BufCountAssumption DEF IInv, Whereabouts, Buffers
      <4> QED BY <1>5, <4>2 DEF DequeueIgnored, driverVars, HeldByDriver
    <3>2. mIO = "MMAP" => mLockedBuffer' = 1
      BY <1>5 DEF DequeueIgnored
    <3> QED BY <3>1, <3>2 DEF OnLoan
  <2> QED BY <2>1, <2>2, <2>3, <2>4, <1>0 DEF FrameBehindSelect, LeaseIsStable
<1>6. CASE UnlockFrame
  BY <1>0, <1>6 DEF UnlockFrame, Throw, FrameBehindSelect, LeaseIsStable
<1>7. CASE StopCapture
  BY <1>0, <1>7 DEF StopCapture, FrameBehindSelect, LeaseIsStable
<1>8. CASE Destroy
  BY <1>0, <1>8 DEF Destroy, Throw, FrameBehindSelect, LeaseIsStable
<1>9. CASE CallFails \/ OutOfTurn
  BY <1>0, <1>9 DEF CallFails, OutOfTurn, Throw, FrameBehindSelect, LeaseIsStable
<1>10. CASE Fill
  <2>1. /\ UNCHANGED clientVars /\ faults' = faults
        /\ content' = [content EXCEPT ![Head(queued)] = frame]
        /\ content \in [Buffers -> 0..(FrameNumbers - 1)]
    BY <1>0, <1>10 DEF Fill, TypeOK
  <2>2. /\ HeldByDriver' = HeldByDriver /\ Head(queued) \in HeldByDriver
        /\ Head(queued) \in Buffers /\ done' # <<>>
    <3>1. done \in Seq(Buffers) /\ done' = Append(done, Head(queued))
      BY <1>0, <1>10 DEF Fill, TypeOK
    <3> QED BY <1>10, <3>1, FillApart
  <2>3. OnLoan' = OnLoan
    BY <2>1, <2>2 DEF clientVars, OnLoan
  <2>4. OnLoan => content'[mLockedBuffer] = content[mLockedBuffer]
    BY <1>0, <2>1, <2>2 DEF OnLoan, TypeOK
  <2>5. mIO = "READ" \/ OnLoan => Shown' = Shown
    BY <2>1, <2>4 DEF clientVars, Shown
  <2>6. FrameBehindSelect'
    BY <1>0, <2>1, <2>2 DEF clientVars, FrameBehindSelect
  <2> QED BY <1>0, <2>1, <2>3, <2>5, <2>6 DEF clientVars, LeaseIsStable
<1>11. CASE UNCHANGED vars
  <2>1. OnLoan' = OnLoan /\ Shown' = Shown
    BY <1>11 DEF vars, clientVars, driverVars, OnLoan, HeldByDriver, Shown
  <2> QED BY <1>0, <1>11, <2>1
          DEF vars, clientVars, driverVars, FrameBehindSelect, LeaseIsStable
<1> QED BY <1>1, <1>2, <1>3, <1>4, <1>5, <1>6, <1>7, <1>8, <1>9, <1>10, <1>11
        DEF Next, Client

LEMMA NextIInv == IInv /\ [Next]_vars => IInv'
BY NextTypeOK, NextFlags, NextApart, NextLease DEF IInv

LEMMA SpecIInv == Spec => []IInv
BY InitIInv, NextIInv, PTL DEF Spec

-----------------------------------------------------------------------------
(* The state of the class and of the driver is well formed; in particular  *)
(* the locked buffer is one of mBuffers.                                   *)
THEOREM TypeCorrect == Spec => []TypeOK
<1>1. IInv => TypeOK
  BY DEF IInv
<1> QED BY SpecIInv, <1>1, PTL

(* How many buffers the driver has. *)
LEMMA HeldApart ==
  ASSUME IInv
  PROVE  /\ queued \o done \in Seq(Buffers)
         /\ IsInjective(queued \o done)
         /\ Len(queued \o done) = Len(queued) + Len(done)
         /\ Len(queued \o done) <= BufCount
         /\ Len(queued \o done) = Cardinality(HeldByDriver)
<1>1. /\ queued \in Seq(Buffers) /\ done \in Seq(Buffers)
      /\ IsInjective(queued) /\ IsInjective(done)
      /\ ToSet(queued) \cap ToSet(done) = {}
  BY DEF IInv, TypeOK, Apart
<1> DEFINE held == queued \o done
<1>2. /\ held \in Seq(Buffers) /\ IsInjective(held)
      /\ Len(held) = Len(queued) + Len(done)
      /\ ToSet(held) = HeldByDriver
  BY <1>1, ConcatApart DEF HeldByDriver
<1> HIDE DEF held
<1>3. Len(held) = Cardinality(HeldByDriver) /\ Len(held) <= BufCount
  BY <1>2, BuffersFinite, LengthApart
<1> QED BY <1>2, <1>3 DEF held

(* No buffer is queued twice and none leaks, however many calls are made   *)
(* and whichever fail: while the driver streams it has all of them but the *)
(* one on loan, also when frames are unlocked after capturing has stopped. *)
THEOREM NoBufferLost == Spec => []BuffersAccounted
<1>1. IInv => BuffersAccounted
  <2> SUFFICES ASSUME IInv PROVE BuffersAccounted
    OBVIOUS
  <2>1. ASSUME streaming, pc # "dead"
        PROVE  Cardinality(HeldByDriver) = BufCount - (IF OnLoan THEN 1 ELSE 0)
    <3>1. HeldByDriver = Buffers \ (IF OnLoan THEN {mLockedBuffer} ELSE {})
      BY <2>1 DEF IInv, Whereabouts
    <3>2. mLockedBuffer \in Buffers /\ BufCount \in Nat
      BY BufCountAssumption DEF IInv, TypeOK
    <3>3. Cardinality(Buffers \ {mLockedBuffer}) = BufCount - 1
      BY <3>2, BuffersFinite, FS_RemoveElement
    <3>4. CASE OnLoan
      BY <3>1, <3>3, <3>4
    <3>5. CASE ~OnLoan
      BY <3>1, <3>2, <3>5, BuffersFinite
    <3> QED BY <3>4, <3>5
  <2>2. ~streaming => Len(queued \o done) <= 1
    <3>1. ~streaming => Len(queued) <= 1 /\ done = <<>>
      BY DEF IInv, StreamsWhileCapturing
    <3>2. queued \in Seq(Buffers) /\ Len(queued \o done) = Len(queued) + Len(done)
      BY HeldApart DEF IInv, TypeOK
    <3> QED BY <3>1, <3>2
  <2> QED BY <2>1, <2>2, HeldApart DEF BuffersAccounted
<1> QED BY SpecIInv, <1>1, PTL

(* The driver never fills memory that was freed or unmapped, none is freed *)
(* twice, and a destroyed object leaves nothing allocated; the client may  *)
(* stop, restart and destroy it at any time, with a frame locked or not.   *)
THEOREM MemoryIsThere == Spec => []MemoryOutlivesUse
<1>1. IInv => MemoryOutlivesUse
  BY DEF IInv, StreamsWhileCapturing, FlagsByPlace, MemoryOutlivesUse
<1> QED BY SpecIInv, <1>1, PTL

(* The image in use is the frame last locked and does not change, unless   *)
(* calls fail.                                                             *)
THEOREM LeaseStable == Spec => []LeaseIsStable
<1>1. IInv => LeaseIsStable
  BY DEF IInv
<1> QED BY SpecIInv, <1>1, PTL

(* A lock on a buffer that the driver has, too, ends in an exception or in *)
(* StopCapture: no frame is leased behind it.                              *)
THEOREM StrandedLockEnds == Spec => StrandedLockIsFatal
<1>1. IInv /\ [Next]_vars => (Stranded => pc' \in {pc, "dead"} \/ ~mCapturing')
  <2> SUFFICES ASSUME IInv, [Next]_vars, Stranded
               PROVE  pc' \in {pc, "dead"} \/ ~mCapturing'
    OBVIOUS
  <2>1. ~MayRequeue
    BY DEF Stranded, MayRequeue
  <2>2. CASE UnlockFrame \/ Destroy
    BY <2>1, <2>2 DEF UnlockFrame, Destroy, Throw
  <2>3. CASE CallFails \/ OutOfTurn
    BY <2>3 DEF CallFails, OutOfTurn, Throw
  <2>4. CASE Fill \/ UNCHANGED vars
    BY <2>4 DEF Fill, vars, clientVars
  <2>5. CASE StopCapture
    BY <2>5 DEF StopCapture
  <2>6. ~(\/ StartCapture \/ LockFrame \/ SelectReturns \/ Dequeue
          \/ DequeueIgnored)
    BY DEF Stranded, StartCapture, LockFrame, SelectReturns, Dequeue,
           DequeueIgnored
  <2> QED BY <2>2, <2>3, <2>4, <2>5, <2>6 DEF Next, Client
<1> QED BY SpecIInv, <1>1, PTL DEF Spec, StrandedLockIsFatal

-----------------------------------------------------------------------------
(* The refinement.  The frames that wait in FrameLease are the contents of *)
(* the filled buffers, its lease the image the client has.                 *)
Ready == [i \in 1..Len(done) |-> content[done[i]]]
Leased == IF pc = "using" THEN Shown ELSE NoFrame
Frame == 0..(FrameNumbers - 1)

LEMMA LeasedType ==
  ASSUME IInv
  PROVE  pc = "using" => Shown \in Frame /\ Shown # NoFrame
<1>1. /\ copy \in Frame /\ mLockedBuffer \in Buffers
      /\ content \in [Buffers -> Frame]
  BY DEF IInv, TypeOK, Frame
<1>2. Shown \in Frame
  BY <1>1 DEF Shown
<1> QED BY <1>2, FrameNumbersAssumption DEF NoFrame, Frame

(* Fill delivers a frame, and there was room for it. *)
LEMMA FillDelivers ==
  ASSUME IInv, Fill
  PROVE  /\ Len(Ready) < BufCount
         /\ Ready' = Append(Ready, frame)
<1>1. /\ done \in Seq(Buffers) /\ content \in [Buffers -> Frame] /\ frame \in Frame
      /\ content' = [content EXCEPT ![Head(queued)] = frame]
      /\ queued # <<>> /\ queued \in Seq(Buffers)
  BY DEF IInv, TypeOK, Fill, Frame
<1>2. /\ Head(queued) \in Buffers /\ Head(queued) \notin ToSet(done)
      /\ done' = Append(done, Head(queued))
  BY FillApart
<1>3. Len(done) < BufCount
  <2>1. Len(queued) \in Nat /\ Len(queued) > 0 /\ Len(done) \in Nat
    BY <1>1
  <2> QED BY <2>1, HeldApart, BufCountAssumption
<1>4. /\ Len(done) \in Nat /\ Len(done') = Len(done) + 1
      /\ \A i \in 1..Len(done) : done'[i] = done[i] /\ done[i] \in Buffers
      /\ done'[Len(done) + 1] = Head(queued)
      /\ DOMAIN done = 1..Len(done)
  BY <1>1, <1>2
<1>5. \A i \in 1..Len(done) : content'[done'[i]] = content[done[i]]
  BY <1>1, <1>2, <1>4 DEF ToSet
<1>6. content'[done'[Len(done) + 1]] = frame
  BY <1>1, <1>2, <1>4
<1>7. Ready \in Seq(Frame) /\ Len(Ready) = Len(done)
      /\ \A i \in 1..Len(done) : Ready[i] = content[done[i]]
  BY <1>1, <1>4 DEF Ready
<1>8. Ready' = [i \in 1..(Len(done) + 1) |-> content'[done'[i]]]
  BY <1>4 DEF Ready
<1>9. Append(Ready, frame) =
        [i \in 1..(Len(done) + 1) |-> IF i <= Len(done) THEN Ready[i] ELSE frame]
  BY <1>1, <1>7, AppendEntries
<1>10. \A i \in 1..(Len(done) + 1) :
         content'[done'[i]] = IF i <= Len(done) THEN Ready[i] ELSE frame
  <2> SUFFICES ASSUME NEW i \in 1..(Len(done) + 1)
               PROVE  content'[done'[i]] = IF i <= Len(done) THEN Ready[i] ELSE frame
    OBVIOUS
  <2>1. CASE i <= Len(done)
    BY <1>4, <1>5, <1>7, <2>1
  <2>2. CASE i = Len(done) + 1
    BY <1>4, <1>6, <2>2
  <2> QED BY <1>4, <2>1, <2>2
<1> QED BY <1>3, <1>7, <1>8, <1>9, <1>10

(* Dequeue takes the frame that has waited longest. *)
LEMMA DequeueTakes ==
  ASSUME IInv, Dequeue
  PROVE  /\ Ready # <<>>
         /\ Shown' = Head(Ready)
         /\ Ready' = Tail(Ready)
<1>1. /\ done \in Seq(Buffers) /\ done # <<>> /\ done' = Tail(done)
      /\ content \in [Buffers -> Frame] /\ content' = content
  BY DEF IInv, TypeOK, Dequeue, Frame
<1>2. /\ Len(done) \in Nat /\ Len(done) > 0
      /\ Len(done') = Len(done) - 1
      /\ \A i \in 1..(Len(done) - 1) : done'[i] = done[i + 1]
      /\ \A i \in 1..Len(done) : done[i] \in Buffers
      /\ Head(done) = done[1]
  BY <1>1
<1>3. /\ Ready \in Seq(Frame) /\ Len(Ready) = Len(done)
      /\ \A i \in 1..Len(done) : Ready[i] = content[done[i]]
  BY <1>1, <1>2 DEF Ready
<1>4. Ready # <<>> /\ Head(Ready) = content[Head(done)]
  BY <1>2, <1>3
<1>5. Shown' = content[Head(done)]
  <2>1. CASE mIO = "READ"
    BY <2>1 DEF Dequeue, Shown
  <2>2. CASE mIO # "READ"
    BY <1>1, <2>2, DequeueApart DEF Dequeue, Shown
  <2> QED BY <2>1, <2>2
<1>6. Ready' = [i \in 1..(Len(done) - 1) |-> content[done'[i]]]
  BY <1>1, <1>2 DEF Ready
<1>7. Tail(Ready) = [i \in 1..(Len(done) - 1) |-> Ready[i + 1]]
  BY <1>3, <1>4, TailEntries
<1>8. \A i \in 1..(Len(done) - 1) : content[done'[i]] = Ready[i + 1]
  BY <1>2, <1>3
<1> QED BY <1>4, <1>5, <1>6, <1>7, <1>8

LEMMA ReadyEmpty == done = <<>> => Ready = <<>>
BY DEF Ready

(* The steps of FrameLease, and a step of it that changes nothing, in      *)
(* terms of the class.                                                     *)
LeaseNext ==
  \/ /\ Len(Ready) < BufCount
     /\ Ready' = Append(Ready, frame)
     /\ frame' = (frame + 1) % FrameNumbers
     /\ \/ Leased' = Leased
        \/ faults # {} /\ Leased # NoFrame /\ Leased' \in Frame
     /\ (faults # {})' = (faults # {})
  \/ /\ Leased = NoFrame
     /\ Ready # <<>>
     /\ Leased' = Head(Ready)
     /\ Ready' = Tail(Ready)
     /\ frame' = frame /\ (faults # {})' = (faults # {})
  \/ /\ faults # {}
     /\ Leased = NoFrame
     /\ Leased' \in Frame
     /\ frame' = frame /\ Ready' = Ready /\ (faults # {})' = (faults # {})
  \/ /\ Leased # NoFrame
     /\ Leased' = NoFrame
     /\ frame' = frame /\ Ready' = Ready /\ (faults # {})' = (faults # {})
  \/ /\ frame' = 0
     /\ Ready' = <<>>
     /\ Leased' = NoFrame
     /\ (faults # {})' = (faults # {})
LeaseStutters ==
  /\ frame' = frame /\ Ready' = Ready /\ Leased' = Leased
  /\ (faults # {})' = (faults # {})

LEMMA LeaseNextIs == LeaseNext \/ LeaseStutters => [Lease!Next]_Lease!vars
<1>1. LeaseNext => Lease!Next
  BY DEF LeaseNext, Ready, Leased, Frame, Lease!Next, Lease!Deliver, Lease!LeaseKept,
         Lease!Take, Lease!Misread, Lease!GiveBack, Lease!Discard, Lease!Frame
<1>2. LeaseStutters => UNCHANGED Lease!vars
  BY DEF LeaseStutters, Ready, Leased, Lease!vars
<1> QED BY <1>1, <1>2

LEMMA StepIsLeaseStep ==
  IInv /\ IInv' /\ [Next]_vars => LeaseNext \/ LeaseStutters
<1> SUFFICES ASSUME IInv, IInv', [Next]_vars PROVE LeaseNext \/ LeaseStutters
  OBVIOUS
<1>0. /\ pc # "using" => Leased = NoFrame
      /\ pc = "using" => Leased \in Frame /\ Leased # NoFrame
      /\ pc' # "using" => Leased' = NoFrame
  BY LeasedType DEF Leased, NoFrame
<1>a. pc' = "using" => Leased' = Shown' /\ Shown' \in Frame
  <2>1. /\ copy' \in Frame /\ mLockedBuffer' \in Buffers
        /\ content' \in [Buffers -> Frame]
    BY DEF IInv, TypeOK, Frame
  <2> QED BY <2>1 DEF Shown, Leased
<1>b. ASSUME UNCHANGED <<done, content, frame, faults>>
      PROVE  /\ Ready' = Ready /\ frame' = frame
             /\ (faults # {})' = (faults # {})
  BY <1>b DEF Ready
<1>c. ASSUME ~streaming, StreamOn
      PROVE  UNCHANGED <<done, content, frame, faults>>
  BY <1>c DEF StreamOn
<1>1. CASE StartCapture \/ LockFrame
  <2>1. pc # "using" /\ pc' # "using"
    BY <1>1 DEF StartCapture, LockFrame
  <2>2. UNCHANGED <<done, content, frame, faults>>
    BY <1>1, <1>c DEF StartCapture, LockFrame, StreamOn, driverVars
  <2> QED BY <1>0, <1>b, <2>1, <2>2 DEF LeaseStutters
<1>2. CASE SelectReturns
  <2>1. pc # "using" /\ pc' # "using" /\ UNCHANGED <<done, content, frame, faults>>
    BY <1>2 DEF SelectReturns, driverVars
  <2> QED BY <1>0, <1>b, <2>1 DEF LeaseStutters
<1>3. CASE Dequeue
  <2>1. /\ pc # "using" /\ pc' = "using"
        /\ frame' = frame /\ faults' = faults
    BY <1>3 DEF Dequeue
  <2>2. Ready # <<>> /\ Leased' = Head(Ready) /\ Ready' = Tail(Ready)
    BY <1>3, <1>a, <2>1, DequeueTakes
  <2> QED BY <1>0, <2>1, <2>2 DEF LeaseNext
<1>4. CASE DequeueIgnored
  <2>1. pc # "using" /\ UNCHANGED <<done, content, frame, faults>>
    BY <1>4 DEF DequeueIgnored, driverVars
  <2>2. faults # {}
    BY <1>4 DEF DequeueIgnored, IInv, FrameBehindSelect
  <2>3. CASE pc' = "using"
    <3>1. Leased' \in Frame
      BY <1>a, <2>3
    <3> QED BY <1>0, <1>b, <2>1, <2>2, <3>1 DEF LeaseNext
  <2>4. CASE pc' # "using"
    BY <1>0, <1>b, <2>1, <2>4 DEF LeaseStutters
  <2> QED BY <2>3, <2>4
<1>5. CASE UnlockFrame
  <2>1. pc' # "using" /\ UNCHANGED <<done, content, frame, faults>>
    BY <1>5 DEF UnlockFrame, Throw
  <2> QED BY <1>0, <1>b, <2>1 DEF LeaseNext, LeaseStutters
<1>6. ASSUME StreamOff, pc' # "using"
      PROVE  LeaseNext
  <2>1. frame' = 0 /\ done' = <<>> /\ faults' = faults
    BY <1>6 DEF StreamOff
  <2>2. Ready' = <<>>
    BY <2>1 DEF Ready
  <2> QED BY <1>0, <1>6, <2>1, <2>2 DEF LeaseNext
<1>7. CASE StopCapture
  <2>1. pc' # "using"
    BY <1>7 DEF StopCapture
  <2>2. CASE mIO = "READ"
    <3>1. UNCHANGED <<done, content, frame, faults>>
      BY <1>7, <2>2 DEF StopCapture, StopDriver, driverVars
    <3> QED BY <1>0, <1>b, <2>1, <3>1 DEF LeaseNext, LeaseStutters
  <2>3. CASE mIO # "READ"
    BY <1>6, <1>7, <2>1, <2>3 DEF StopCapture, StopDriver
  <2> QED BY <2>2, <2>3
<1>8. CASE Destroy
  <2>1. pc' # "using"
    BY <1>8 DEF Destroy, Throw
  <2>2. CASE MayRequeue
    BY <1>6, <1>8, <2>1, <2>2 DEF Destroy
  <2>3. CASE ~MayRequeue
    <3>1. UNCHANGED <<done, content, frame, faults>>
      BY <1>8, <2>3 DEF Destroy, driverVars
    <3> QED BY <1>0, <1>b, <2>1, <3>1 DEF LeaseNext, LeaseStutters
  <2> QED BY <2>2, <2>3
<1>9. CASE CallFails \/ OutOfTurn
  <2>1. pc' # "using" /\ UNCHANGED <<done, content, frame, faults>>
    BY <1>9 DEF CallFails, OutOfTurn, Throw, driverVars
  <2> QED BY <1>0, <1>b, <2>1 DEF LeaseNext, LeaseStutters
<1>10. CASE Fill
  <2>1. Len(Ready) < BufCount /\ Ready' = Append(Ready, frame)
    BY <1>10, FillDelivers
  <2>2. /\ frame' = (frame + 1) % FrameNumbers
        /\ pc' = pc /\ mIO' = mIO /\ faults' = faults
        /\ copy' = copy /\ last' = last
    BY <1>10 DEF Fill, clientVars
  <2>3. \/ Leased' = Leased
        \/ faults # {} /\ Leased # NoFrame /\ Leased' \in Frame
    <3>1. CASE pc # "using"
      BY <1>0, <2>2, <3>1
    <3>2. CASE pc = "using" /\ faults # {}
      BY <1>0, <1>a, <2>2, <3>2
    <3>3. CASE pc = "using" /\ faults = {}
      <4>1. Shown = last /\ Shown' = last'
        BY <2>2, <3>3 DEF IInv, LeaseIsStable
      <4> QED BY <1>a, <2>2, <3>3, <4>1 DEF Leased
    <3> QED BY <3>1, <3>2, <3>3
  <2> QED BY <2>1, <2>2, <2>3 DEF LeaseNext
<1>11. CASE UNCHANGED vars
  <2>1. UNCHANGED <<done, content, frame, faults>> /\ Leased' = Leased
    BY <1>11 DEF vars, clientVars, driverVars, Leased, Shown
  <2> QED BY <1>b, <2>1 DEF LeaseStutters
<1> QED BY <1>1, <1>2, <1>3, <1>4, <1>5, <1>7, <1>8, <1>9, <1>10, <1>11
        DEF Next, Client

(* The class leases the camera's frames in order, each at most once, and   *)
(* discards them only when capturing stops, whatever fails.                *)
THEOREM LeaseImplemented == Spec => ImplementsLease
<1>1. Init => Lease!Init
  <2> SUFFICES ASSUME Init PROVE Lease!Init
    OBVIOUS
  <2>1. /\ frame = 0 /\ done = <<>> /\ pc # "using"
    BY DEF Init
  <2>2. Ready = <<>>
    BY <2>1, ReadyEmpty
  <2> QED BY <2>1, <2>2 DEF Ready, Lease!Init
<1>2. IInv /\ IInv' /\ [Next]_vars => [Lease!Next]_Lease!vars
  BY StepIsLeaseStep, LeaseNextIs
<1> QED BY SpecIInv, <1>1, <1>2, PTL DEF Spec, ImplementsLease, Lease!Spec

-----------------------------------------------------------------------------
(* The filled buffers hold the frames after the one last locked, without a *)
(* gap, and the driver's next frame comes after them.                      *)
Following(number) == (number + 1) % FrameNumbers
InTurn ==
  \A i \in 0..Len(done) :
    (IF i = Len(done) THEN frame ELSE content[done[i + 1]])
      = Following(IF i = 0 THEN last ELSE content[done[i]])

(* STREAMOFF starts the numbers again, and the history with them. *)
LEMMA StartsInTurn ==
  ASSUME done' = <<>>, frame' = 0, last' = FrameNumbers - 1
  PROVE  InTurn'
<1>1. Following(FrameNumbers - 1) = 0
  BY FrameNumbersAssumption, BufCountAssumption DEF Following
<1>2. Len(done') = 0
  OBVIOUS
<1> HIDE DEF Following
<1> QED BY <1>1, <1>2 DEF InTurn

LEMMA FillInTurn == IInv /\ InTurn /\ Fill => InTurn'
<1> SUFFICES ASSUME IInv, InTurn, Fill PROVE InTurn'
  OBVIOUS
<1> DEFINE n == Len(done)
           b == Head(queued)
<1>1. /\ done \in Seq(Buffers) /\ n \in Nat /\ b \in Buffers /\ b \notin ToSet(done)
      /\ done' = Append(done, b) /\ content' = [content EXCEPT ![b] = frame]
      /\ frame' = Following(frame) /\ last' = last
      /\ content \in [Buffers -> 0..(FrameNumbers - 1)]
  BY FillApart DEF IInv, TypeOK, Fill, clientVars, Following
<1>2. /\ Len(done') = n + 1 /\ done'[n + 1] = b
      /\ \A i \in 1..n : done'[i] = done[i] /\ done[i] \in Buffers /\ done[i] # b
  BY <1>1 DEF ToSet
<1>3. /\ content'[done'[n + 1]] = frame
      /\ \A i \in 1..n : content'[done'[i]] = content[done[i]]
  BY <1>1, <1>2
<1> HIDE DEF n, b, Following
<1>4. ASSUME NEW i \in 0..(n + 1)
      PROVE  (IF i = n + 1 THEN frame' ELSE content'[done'[i + 1]])
               = Following(IF i = 0 THEN last' ELSE content'[done'[i]])
  <2>1. CASE i = n + 1
    <3>1. n + 1 # 0
      BY <1>1
    <3> QED BY <1>1, <1>3, <2>1, <3>1
  <2>2. CASE i = n
    <3>1. n \in 0..n /\ n # n + 1 /\ (n # 0 => n \in 1..n)
      BY <1>1
    <3>2. frame = Following(IF n = 0 THEN last ELSE content[done[n]])
      BY <3>1 DEF InTurn, n
    <3>3. content'[done'[n + 1]] = frame /\ last' = last
          /\ (n # 0 => content'[done'[n]] = content[done[n]])
      BY <1>1, <1>3, <3>1
    <3>4. (IF n = 0 THEN last' ELSE content'[done'[n]])
            = IF n = 0 THEN last ELSE content[done[n]]
      BY <3>3
    <3> QED BY <2>2, <3>1, <3>2, <3>3, <3>4
  <2>3. CASE i \in 0..n /\ i # n
    <3>1. content[done[i + 1]] = Following(IF i = 0 THEN last ELSE content[done[i]])
      BY <2>3 DEF InTurn, n
    <3>2. i + 1 \in 1..n /\ (i # 0 => i \in 1..n) /\ i # n + 1
      BY <1>1, <2>3
    <3> QED BY <1>1, <1>3, <3>1, <3>2
  <2>4. i = n + 1 \/ i = n \/ (i \in 0..n /\ i # n)
    BY <1>1
  <2> QED BY <2>1, <2>2, <2>3, <2>4
<1> QED BY <1>2, <1>4 DEF InTurn

LEMMA DequeueInTurn ==
  ASSUME IInv, InTurn, Dequeue
  PROVE  InTurn' /\ last' = Following(last)
<1> DEFINE n == Len(done)
<1>1. /\ done \in Seq(Buffers) /\ done # <<>> /\ n \in Nat /\ n > 0
      /\ done' = Tail(done) /\ last' = content[Head(done)]
      /\ UNCHANGED <<content, frame>>
  BY DEF IInv, TypeOK, Dequeue
<1>2. /\ Len(done') = n - 1 /\ Head(done) = done[1]
      /\ \A i \in 1..(n - 1) : done'[i] = done[i + 1]
  BY <1>1
<1> HIDE DEF n, Following
<1>3. ASSUME NEW i \in 0..(n - 1)
      PROVE  (IF i = n - 1 THEN frame' ELSE content'[done'[i + 1]])
               = Following(IF i = 0 THEN last' ELSE content'[done'[i]])
  <2>1. (IF i + 1 = n THEN frame ELSE content[done[i + 2]]) = Following(content[done[i + 1]])
    <3>1. i + 1 \in 0..n /\ i + 1 # 0 /\ (i + 1) + 1 = i + 2
      BY <1>1
    <3> QED BY <3>1 DEF InTurn, n
  <2>2. (IF i = 0 THEN last' ELSE content'[done'[i]]) = content[done[i + 1]]
    <3>1. CASE i = 0
      BY <1>1, <1>2, <3>1
    <3>2. CASE i # 0
      <4>1. i \in 1..(n - 1)
        BY <3>2
      <4> QED BY <1>1, <1>2, <3>2, <4>1
    <3> QED BY <3>1, <3>2
  <2>3. (IF i = n - 1 THEN frame' ELSE content'[done'[i + 1]])
          = IF i + 1 = n THEN frame ELSE content[done[i + 2]]
    <3>1. CASE i = n - 1
      <4>1. i + 1 = n
        BY <1>1, <3>1
      <4> QED BY <1>1, <3>1, <4>1
    <3>2. CASE i # n - 1
      <4>1. i + 1 # n /\ i + 1 \in 1..(n - 1) /\ (i + 1) + 1 = i + 2
        BY <1>1, <3>2
      <4> QED BY <1>1, <1>2, <3>2, <4>1
    <3> QED BY <3>1, <3>2
  <2> QED BY <2>1, <2>2, <2>3
<1>4. last' = Following(last)
  <2>1. 0 \in 0..n /\ 0 # n /\ 0 + 1 = 1
    BY <1>1
  <2> QED BY <1>1, <1>2, <2>1 DEF InTurn, n
<1> QED BY <1>2, <1>3, <1>4 DEF InTurn

LEMMA NextInTurn == IInv /\ InTurn /\ [Next]_vars => InTurn'
<1> SUFFICES ASSUME IInv, InTurn, [Next]_vars PROVE InTurn'
  OBVIOUS
<1>1. ASSUME UNCHANGED <<done, content, frame, last>> PROVE InTurn'
  BY <1>1 DEF InTurn
<1>2. CASE StartCapture \/ LockFrame
  <2>1. UNCHANGED <<done, content, frame, last>>
    BY <1>2 DEF StartCapture, LockFrame, StreamOn, driverVars
  <2> QED BY <1>1, <2>1
<1>3. CASE \/ SelectReturns \/ DequeueIgnored \/ UnlockFrame \/ CallFails
           \/ OutOfTurn \/ UNCHANGED vars
  <2>1. UNCHANGED <<done, content, frame, last>>
    BY <1>3 DEF SelectReturns, DequeueIgnored, UnlockFrame, CallFails, OutOfTurn,
                driverVars, vars, clientVars
  <2> QED BY <1>1, <2>1
<1>4. CASE StopCapture
  <2>1. CASE mIO = "READ"
    <3>1. UNCHANGED <<done, content, frame, last>>
      BY <1>4, <2>1 DEF StopCapture, StopDriver, driverVars
    <3> QED BY <1>1, <3>1
  <2>2. CASE mIO # "READ"
    <3>1. done' = <<>> /\ frame' = 0 /\ last' = FrameNumbers - 1
      BY <1>4, <2>2 DEF StopCapture, StopDriver, StreamOff
    <3> QED BY <3>1, StartsInTurn
  <2> QED BY <2>1, <2>2
<1>5. CASE Destroy
  <2>1. CASE MayRequeue
    <3>1. done' = <<>> /\ frame' = 0 /\ last' = FrameNumbers - 1
      BY <1>5, <2>1 DEF Destroy, StreamOff
    <3> QED BY <3>1, StartsInTurn
  <2>2. CASE ~MayRequeue
    <3>1. UNCHANGED <<done, content, frame, last>>
      BY <1>5, <2>2 DEF Destroy, driverVars
    <3> QED BY <1>1, <3>1
  <2> QED BY <2>1, <2>2
<1> QED BY <1>2, <1>3, <1>4, <1>5, FillInTurn, DequeueInTurn DEF Next, Client

(* The comment above LockFrame, "wait for next frame and return it", holds *)
(* as long as no call fails: what LockFrame returns is the frame after the *)
(* one it returned before.                                                 *)
NextFrameUnlessCallFails ==
  [][faults = {} /\ pc # "using" /\ pc' = "using" =>
       Shown' = (last + 1) % FrameNumbers]_vars

(* No frame is skipped, repeated or taken out of turn by select, DQBUF,    *)
(* read and QBUF, whenever the client calls; the run VideoCaptureComment   *)
(* shows that the condition is needed.                                     *)
THEOREM NextFrameLeased == Spec => NextFrameUnlessCallFails
<1>1. Init => InTurn
  <2> SUFFICES ASSUME Init PROVE InTurn
    OBVIOUS
  <2>1. done = <<>> /\ frame = 0 /\ last = FrameNumbers - 1 /\ Len(done) = 0
    BY DEF Init
  <2>2. Following(FrameNumbers - 1) = 0
    BY FrameNumbersAssumption, BufCountAssumption DEF Following
  <2> HIDE DEF Following
  <2> QED BY <2>1, <2>2 DEF InTurn
<1>2. IInv /\ IInv' /\ InTurn /\ [Next]_vars
        => [faults = {} /\ pc # "using" /\ pc' = "using" =>
              Shown' = (last + 1) % FrameNumbers]_vars
  <2> SUFFICES ASSUME IInv, InTurn, Next, faults = {}, pc # "using", pc' = "using"
               PROVE  Shown' = (last + 1) % FrameNumbers
    BY DEF vars, clientVars
  <2>1. CASE Dequeue
    <3>1. last' = (last + 1) % FrameNumbers
      BY <2>1, DequeueInTurn DEF Following
    <3>2. last' = content[Head(done)] /\ content' = content /\ mIO' = mIO
          /\ (mIO = "READ" => copy' = content[Head(done)])
      BY <2>1 DEF Dequeue
    <3>3. mIO # "READ" => mLockedBuffer' = Head(done)
      BY <2>1, DequeueApart
    <3> QED BY <3>1, <3>2, <3>3 DEF Shown
  <2>2. ~DequeueIgnored
    BY DEF DequeueIgnored, IInv, FrameBehindSelect
  <2>3. CASE StartCapture \/ LockFrame \/ SelectReturns \/ UnlockFrame \/ StopCapture
    BY <2>3 DEF StartCapture, LockFrame, SelectReturns, UnlockFrame, StopCapture, Throw
  <2>4. CASE Destroy \/ CallFails \/ OutOfTurn \/ Fill
    BY <2>4 DEF Destroy, CallFails, OutOfTurn, Fill, Throw, clientVars
  <2> QED BY <2>1, <2>2, <2>3, <2>4 DEF Next, Client
<1> QED BY SpecIInv, <1>1, <1>2, NextInTurn, PTL DEF Spec, NextFrameUnlessCallFails
=============================================================================
