--------------------------- MODULE ViewerSdlProofs ---------------------------
(***************************************************************************)
(* The two threads of viewer_sdl, for every number of packets and user     *)
(* events and every capacity of SDL's queue: they never race for the       *)
(* queue of images, main never pops an empty one, the images that stay     *)
(* behind are those whose event SDL refused, every image is copied to the  *)
(* texture in turn, the screen never goes back to an older one, and an     *)
(* idle viewer is behind by the refused events alone.                      *)
(*                                                                         *)
(* None of these is inductive.  That nothing races follows from who has    *)
(* the mutex at which step; that the queue is not empty when it is popped  *)
(* follows from counting the events that wait in SDL's queue.              *)
(***************************************************************************)
EXTENDS ViewerSdl, FiniteSetTheorems, TLAPS

(* Between Lock and Unlock a thread has the mutex, until main destroys it. *)
MutexHeld ==
  /\ thread \in {"push", "unlock"} => mutex \in {"thread", "destroyed"}
  /\ main \in {"pop", "unlock"} => mutex = "main"
  /\ mutex = "destroyed" => main \in {"exited", "gone"}

(* An image whose event is lost stays in the queue, also after SDL_Quit. *)
Pending == IF thread \in {"unlock", "event"} THEN 1 ELSE 0
LostStayBehind == Len(frames) >= dropped + Pending

(* Every decoded image is with FrameThread, in the queue or popped. *)
ImagesAccounted ==
  decoded = image + Len(frames) + (IF thread \in {"lock", "push"} THEN 1 ELSE 0)

(* q holds the numbers that follow a. *)
Follows(q, a) == q = [i \in 1..Len(q) |-> a + i]
QueueInOrder == Follows(frames, image)

(* The texture is the popped image, or about to be; the screen shows it or *)
(* an older one.                                                           *)
TextureFollows ==
  /\ texture = IF main \in {"unlock", "update"} THEN image - 1 ELSE image
  /\ screen <= texture

IInv == /\ TypeOK
        /\ MutexHeld
        /\ FrameAccounting
        /\ LostStayBehind
        /\ ImagesAccounted
        /\ QueueInOrder
        /\ TextureFollows

-----------------------------------------------------------------------------
(* How many frame events there are when one event is posted or polled.     *)
LEMMA FrameEventsFinite ==
  ASSUME NEW q \in Seq(Event)
  PROVE  IsFiniteSet(FrameEvents(q)) /\ Cardinality(FrameEvents(q)) \in Nat
<1>1. IsFiniteSet(1..Len(q))
  BY FS_Interval
<1>2. FrameEvents(q) \in SUBSET (1..Len(q))
  BY DEF FrameEvents
<1>3. IsFiniteSet(FrameEvents(q))
  BY <1>1, <1>2, FS_Subset
<1> QED BY <1>3, FS_CardinalityType

LEMMA FrameEventsEmpty == Cardinality(FrameEvents(<<>>)) = 0
<1>1. FrameEvents(<<>>) = {}
  BY DEF FrameEvents
<1> QED BY <1>1, FS_EmptySet

LEMMA FrameEventsPost ==
  ASSUME NEW q \in Seq(Event), NEW e \in Event
  PROVE  Cardinality(FrameEvents(Append(q, e)))
           = Cardinality(FrameEvents(q)) + (IF e = "frame" THEN 1 ELSE 0)
<1>1. CASE e = "frame"
  <2>1. FrameEvents(Append(q, e)) = FrameEvents(q) \cup {Len(q) + 1}
    BY <1>1 DEF FrameEvents
  <2>2. Len(q) + 1 \notin FrameEvents(q)
    BY DEF FrameEvents
  <2> QED BY <1>1, <2>1, <2>2, FrameEventsFinite, FS_AddElement
<1>2. CASE e # "frame"
  <2>1. FrameEvents(Append(q, e)) = FrameEvents(q)
    BY <1>2 DEF FrameEvents
  <2> QED BY <1>2, <2>1, FrameEventsFinite
<1> QED BY <1>1, <1>2

LEMMA FrameEventsPoll ==
  ASSUME NEW q \in Seq(Event), q # <<>>
  PROVE  Cardinality(FrameEvents(Tail(q)))
           = Cardinality(FrameEvents(q)) - (IF Head(q) = "frame" THEN 1 ELSE 0)
<1> DEFINE rest  == FrameEvents(Tail(q))
           later == FrameEvents(q) \ {1}
           shift == [i \in rest |-> i + 1]
<1>1. /\ Len(q) \in Nat /\ Len(q) > 0
      /\ Tail(q) \in Seq(Event) /\ Len(Tail(q)) = Len(q) - 1
      /\ \A i \in 1..(Len(q) - 1) : Tail(q)[i] = q[i + 1]
  OBVIOUS
<1>2. \A i : i \in rest <=> i \in 1..(Len(q) - 1) /\ q[i + 1] = "frame"
  BY <1>1 DEF FrameEvents
<1>3. \A j : j \in later <=> j \in 2..Len(q) /\ q[j] = "frame"
  BY <1>1 DEF FrameEvents
<1>4. shift \in Bijection(rest, later)
  <2>1. \A i \in rest : i \in Int /\ i + 1 \in later
    BY <1>1, <1>2, <1>3
  <2>2. \A j \in later : j \in Int /\ j - 1 \in rest /\ j = (j - 1) + 1
    BY <1>1, <1>2, <1>3
  <2>3. shift \in [rest -> later]
    BY <2>1
  <2>4. \A i, j \in rest : shift[i] = shift[j] => i = j
    BY <2>1
  <2>5. \A j \in later : \E i \in rest : shift[i] = j
    BY <2>2
  <2> QED BY <2>3, <2>4, <2>5 DEF Bijection, Injection, Surjection, IsInjective
<1>5. IsFiniteSet(rest) /\ IsFiniteSet(FrameEvents(q))
      /\ Cardinality(FrameEvents(q)) \in Nat
  BY <1>1, FrameEventsFinite
<1>6. Cardinality(later) = Cardinality(rest)
  BY <1>4, <1>5, FS_Bijection DEF ExistsBijection
<1>7. 1 \in FrameEvents(q) <=> Head(q) = "frame"
  BY <1>1 DEF FrameEvents
<1>8. Cardinality(later) = IF 1 \in FrameEvents(q)
                             THEN Cardinality(FrameEvents(q)) - 1
                             ELSE Cardinality(FrameEvents(q))
  BY <1>5, FS_RemoveElement
<1> HIDE DEF rest, later, shift
<1>9. Cardinality(rest) = Cardinality(FrameEvents(q))
                            - (IF Head(q) = "frame" THEN 1 ELSE 0)
  BY <1>5, <1>6, <1>7, <1>8
<1> QED BY <1>9 DEF rest

-----------------------------------------------------------------------------
LEMMA SequenceAsFunction ==
  ASSUME NEW S, NEW q \in Seq(S)
  PROVE  q = [i \in 1..Len(q) |-> q[i]]
OBVIOUS

(* The queue of images stays a run of successive numbers. *)
LEMMA ImagePushed ==
  ASSUME NEW S, NEW q \in Seq(S), NEW a \in Nat,
         Follows(q, a),
         NEW x \in S, x = a + Len(q) + 1
  PROVE  /\ Append(q, x) \in Seq(S)
         /\ Len(Append(q, x)) = Len(q) + 1
         /\ Follows(Append(q, x), a)
<1>1. /\ Append(q, x) \in Seq(S) /\ Len(Append(q, x)) = Len(q) + 1
      /\ Len(q) \in Nat
      /\ DOMAIN Append(q, x) = 1..(Len(q) + 1)
      /\ \A i \in 1..Len(q) : Append(q, x)[i] = q[i]
      /\ Append(q, x)[Len(q) + 1] = x
  OBVIOUS
<1>2. \A i \in 1..(Len(q) + 1) : Append(q, x)[i] = a + i
  <2> SUFFICES ASSUME NEW i \in 1..(Len(q) + 1) PROVE Append(q, x)[i] = a + i
    OBVIOUS
  <2>1. CASE i = Len(q) + 1
    BY <1>1, <2>1
  <2>2. CASE i \in 1..Len(q)
    <3>1. q[i] = a + i
      BY <2>2 DEF Follows
    <3> QED BY <1>1, <2>2, <3>1
  <2> QED BY <1>1, <2>1, <2>2
<1>3. Append(q, x) = [i \in 1..(Len(q) + 1) |-> Append(q, x)[i]]
  BY <1>1, SequenceAsFunction
<1> QED BY <1>1, <1>2, <1>3 DEF Follows

LEMMA ImagePopped ==
  ASSUME NEW S, NEW q \in Seq(S), NEW a \in Nat, q # <<>>, Follows(q, a)
  PROVE  /\ Head(q) \in S /\ Head(q) = a + 1
         /\ Tail(q) \in Seq(S)
         /\ Len(Tail(q)) = Len(q) - 1
         /\ Follows(Tail(q), a + 1)
<1>1. /\ Len(q) \in Nat /\ Len(q) > 0
      /\ Tail(q) \in Seq(S) /\ Len(Tail(q)) = Len(q) - 1
      /\ DOMAIN Tail(q) = 1..(Len(q) - 1)
      /\ \A i \in 1..(Len(q) - 1) : Tail(q)[i] = q[i + 1]
      /\ Head(q) = q[1] /\ Head(q) \in S
  OBVIOUS
<1>2. \A i \in 1..(Len(q) - 1) : Tail(q)[i] = (a + 1) + i
  <2> SUFFICES ASSUME NEW i \in 1..(Len(q) - 1) PROVE Tail(q)[i] = (a + 1) + i
    OBVIOUS
  <2>1. i + 1 \in 1..Len(q) /\ a + (i + 1) = (a + 1) + i
    BY <1>1
  <2>2. q[i + 1] = a + (i + 1)
    BY <2>1 DEF Follows
  <2> QED BY <1>1, <2>1, <2>2
<1>3. Tail(q) = [i \in 1..(Len(q) - 1) |-> Tail(q)[i]]
  <2>1. Tail(q) = [i \in 1..Len(Tail(q)) |-> Tail(q)[i]]
    BY <1>1, SequenceAsFunction
  <2> QED BY <1>1, <2>1
<1>4. q[1] = a + 1
  BY <1>1 DEF Follows
<1>5. Follows(Tail(q), a + 1)
  BY <1>1, <1>2, <1>3 DEF Follows
<1> QED BY <1>1, <1>4, <1>5

-----------------------------------------------------------------------------
LEMMA InitIInv == Init => IInv
<1> SUFFICES ASSUME Init PROVE IInv
  OBVIOUS
<1>1. /\ <<>> \in Seq(1..MaxPackets) /\ <<>> \in Seq(Event) /\ Len(<<>>) = 0
      /\ <<>> = [i \in 1..0 |-> 0 + i]
  OBVIOUS
<1>2. TypeOK
  BY <1>1, BoundsAssumption DEF Init, TypeOK
<1>3. FrameAccounting
  BY <1>1, FrameEventsEmpty DEF Init, FrameAccounting
<1>4. QueueInOrder
  BY <1>1 DEF Init, QueueInOrder, Follows
<1>5. MutexHeld /\ LostStayBehind /\ ImagesAccounted /\ TextureFollows
  BY <1>1 DEF Init, MutexHeld, LostStayBehind, Pending, ImagesAccounted,
              TextureFollows
<1> QED BY <1>2, <1>3, <1>4, <1>5 DEF IInv

(* The mutex is taken by one thread at a time; main destroys it when it    *)
(* does not hold it.                                                       *)
LEMMA NextMutexHeld == TypeOK /\ MutexHeld /\ [Next]_vars => MutexHeld'
<1> SUFFICES ASSUME TypeOK, MutexHeld, [Next]_vars PROVE MutexHeld'
  OBVIOUS
<1> USE DEF MutexHeld, LockedBy, Unlocked, threadVars, mainVars
<1>1. CASE DecodeFrame \/ DecodeNothing \/ EndOfInput
  BY <1>1 DEF DecodeFrame, DecodeNothing, EndOfInput, ThreadAt
<1>2. CASE ThreadLock
  BY <1>2 DEF ThreadLock, ThreadAt, MayLock
<1>3. CASE ThreadPush \/ ThreadUnlock \/ ThreadEvent
  BY <1>3 DEF ThreadPush, ThreadUnlock, ThreadEvent, ThreadAt
<1>4. CASE Poll \/ PollEmpty \/ UpdateTexture \/ Render
  BY <1>4 DEF Poll, PollEmpty, UpdateTexture, Render, AfterRender
<1>5. CASE MainLock
  BY <1>5 DEF MainLock, MayLock
<1>6. CASE MainPop
  BY <1>6 DEF MainPop
<1>7. CASE MainUnlock
  BY <1>7 DEF MainUnlock
<1>8. CASE SdlQuit \/ DestroyQueue \/ ProcessEnds
  BY <1>8 DEF SdlQuit, DestroyQueue, ProcessEnds
<1>9. CASE \E event \in {"quit", "other"} : UserEvent(event)
  BY <1>9 DEF UserEvent
<1>10. CASE UNCHANGED vars
  BY <1>10 DEF vars
<1> QED BY <1>1, <1>2, <1>3, <1>4, <1>5, <1>6, <1>7, <1>8, <1>9, <1>10
        DEF Next, FrameThread, ThreadAfterDecode, Main

(* How the three queues of numbers and events change. *)
LEMMA PollTypes ==
  ASSUME TypeOK, events # <<>>
  PROVE  /\ Head(events) \in Event
         /\ Tail(events) \in Seq(Event)
         /\ Len(Tail(events)) <= MaxEvents
<1>1. events \in Seq(Event) /\ Len(events) \in Nat /\ Len(events) <= MaxEvents
  BY DEF TypeOK
<1>2. Len(Tail(events)) = Len(events) - 1
  BY <1>1
<1> QED BY <1>1, <1>2, BoundsAssumption

LEMMA PostTypes ==
  ASSUME TypeOK, HasRoom, NEW e \in Event
  PROVE  /\ Append(events, e) \in Seq(Event)
         /\ Len(Append(events, e)) <= MaxEvents
<1>1. events \in Seq(Event) /\ Len(events) \in Nat /\ Len(events) < MaxEvents
  BY DEF TypeOK, HasRoom
<1> QED BY <1>1, BoundsAssumption

(* What main pops is the image after the last one; the queue is not empty  *)
(* because the image's event has been counted.                             *)
LEMMA PoppedImage ==
  ASSUME IInv, MainPop
  PROVE  /\ frames # <<>>
         /\ image' = image + 1 /\ image' \in 1..MaxPackets
         /\ frames' \in Seq(1..MaxPackets)
         /\ Len(frames') = Len(frames) - 1
         /\ Follows(frames', image')
<1>1. /\ frames \in Seq(1..MaxPackets) /\ Len(frames) \in Nat
      /\ image \in Nat /\ dropped \in Nat /\ events \in Seq(Event)
  BY DEF IInv, TypeOK
<1>2. Len(frames) > 0
  BY <1>1, FrameEventsFinite DEF IInv, FrameAccounting, MainPop
<1>3. frames # <<>>
  BY <1>1, <1>2
<1>4. image' = Head(frames) /\ frames' = Tail(frames)
  BY <1>3 DEF MainPop, NextImage, Popped
<1>5. Follows(frames, image)
  BY DEF IInv, QueueInOrder
<1>6. /\ Head(frames) \in 1..MaxPackets /\ Head(frames) = image + 1
      /\ Tail(frames) \in Seq(1..MaxPackets)
      /\ Len(Tail(frames)) = Len(frames) - 1
      /\ Follows(Tail(frames), image + 1)
  BY <1>1, <1>3, <1>5, ImagePopped
<1> QED BY <1>3, <1>4, <1>6

LEMMA PushedImage ==
  ASSUME IInv, ThreadPush
  PROVE  /\ frames' \in Seq(1..MaxPackets)
         /\ Len(frames') = Len(frames) + 1
         /\ Follows(frames', image)
<1>1. /\ frames \in Seq(1..MaxPackets) /\ Len(frames) \in Nat /\ image \in Nat
      /\ decoded \in 0..packets /\ packets \in 0..MaxPackets
  BY DEF IInv, TypeOK
<1>2. decoded = image + Len(frames) + 1 /\ decoded \in 1..MaxPackets
  BY <1>1, BoundsAssumption DEF IInv, ImagesAccounted, ThreadPush, ThreadAt
<1>3. Follows(frames, image)
  BY DEF IInv, QueueInOrder
<1>4. frames' = Append(frames, decoded)
  BY DEF ThreadPush
<1> QED BY <1>1, <1>2, <1>3, <1>4, ImagePushed

-----------------------------------------------------------------------------
LEMMA NextTypeOK == IInv /\ [Next]_vars => TypeOK'
<1> SUFFICES ASSUME IInv, [Next]_vars PROVE TypeOK'
  OBVIOUS
<1>0. TypeOK
  BY DEF IInv
<1> USE <1>0, BoundsAssumption DEF threadVars, mainVars, ThreadAt
<1>1. CASE DecodeFrame \/ DecodeNothing \/ EndOfInput
  <2>0. /\ packets \in Nat /\ decoded \in Nat /\ dropped \in Nat
        /\ packets <= MaxPackets /\ decoded <= packets /\ dropped <= decoded
    BY DEF TypeOK
  <2>1. /\ \/ packets' = packets /\ decoded' = decoded
           \/ /\ packets < MaxPackets
              /\ packets' = packets + 1 /\ decoded' \in {decoded, decoded + 1}
        /\ dropped' = dropped
    BY <1>1 DEF DecodeFrame, DecodeNothing, EndOfInput
  <2>2. /\ packets' \in 0..MaxPackets /\ decoded' \in 0..packets'
        /\ dropped' \in 0..decoded'
    BY <2>0, <2>1, BoundsAssumption
  <2>3. /\ thread' \in {"lock", "read", "done"}
        /\ UNCHANGED <<mainVars, mutex, frames, events, userEvents>>
    BY <1>1 DEF DecodeFrame, DecodeNothing, EndOfInput
  <2> QED BY <2>2, <2>3 DEF TypeOK
<1>2. CASE ThreadLock \/ ThreadUnlock
  BY <1>2 DEF ThreadLock, ThreadUnlock, LockedBy, Unlocked, TypeOK
<1>3. CASE ThreadPush
  <2>1. frames' \in Seq(1..MaxPackets)
    BY <1>3, PushedImage
  <2> QED BY <1>3, <2>1 DEF ThreadPush, TypeOK
<1>4. CASE ThreadEvent
  <2>1. events' \in Seq(Event) /\ Len(events') <= MaxEvents
    BY <1>4, PostTypes DEF ThreadEvent, TypeOK, Event
  <2>2. dropped' \in 0..decoded
    <3>1. Len(frames) \in Nat /\ dropped \in Nat /\ decoded \in Nat /\ image \in Nat
      BY DEF TypeOK
    <3>2. Len(frames) >= dropped + 1 /\ decoded = image + Len(frames)
      BY <1>4, <3>1 DEF ThreadEvent, IInv, LostStayBehind, Pending, ImagesAccounted
    <3>3. dropped' \in {dropped, dropped + 1}
      BY <1>4 DEF ThreadEvent
    <3> QED BY <3>1, <3>2, <3>3
  <2> QED BY <1>4, <2>1, <2>2 DEF ThreadEvent, TypeOK
<1>5. CASE Poll
  <2>1. events' \in Seq(Event) /\ Len(events') <= MaxEvents
    BY <1>5, PollTypes DEF Poll
  <2> QED BY <1>5, <2>1 DEF Poll, TypeOK
<1>6. CASE PollEmpty \/ UpdateTexture \/ Render
  BY <1>6 DEF PollEmpty, UpdateTexture, Render, AfterRender, TypeOK
<1>7. CASE MainLock \/ MainUnlock
  BY <1>7 DEF MainLock, MainUnlock, LockedBy, Unlocked, TypeOK
<1>8. CASE MainPop
  <2>1. image' \in 0..MaxPackets /\ frames' \in Seq(1..MaxPackets)
    BY <1>8, PoppedImage
  <2> QED BY <1>8, <2>1 DEF MainPop, TypeOK
<1>9. CASE SdlQuit \/ DestroyQueue \/ ProcessEnds
  <2>1. events' \in Seq(Event) /\ Len(events') <= MaxEvents
    <3>1. CASE events' = <<>>
      BY <3>1
    <3>2. CASE events' = events
      BY <3>2 DEF TypeOK
    <3> QED BY <1>9, <3>1, <3>2 DEF SdlQuit, DestroyQueue, ProcessEnds
  <2>2. /\ main' \in {"destroy", "exited", "gone"}
        /\ mutex' \in {mutex, "destroyed"}
        /\ UNCHANGED <<threadVars, running, image, texture, screen, frames, userEvents>>
    BY <1>9 DEF SdlQuit, DestroyQueue, ProcessEnds
  <2> QED BY <2>1, <2>2 DEF TypeOK
<1>10. CASE \E event \in {"quit", "other"} : UserEvent(event)
  <2>1. PICK event \in {"quit", "other"} : UserEvent(event)
    BY <1>10
  <2>2. events' \in Seq(Event) /\ Len(events') <= MaxEvents
    BY <2>1, PostTypes DEF UserEvent, Event
  <2>3. userEvents' \in 0..MaxUserEvents
    BY <2>1 DEF UserEvent, TypeOK
  <2> QED BY <2>1, <2>2, <2>3 DEF UserEvent, TypeOK
<1>11. CASE UNCHANGED vars
  BY <1>11 DEF vars, TypeOK
<1> QED BY <1>1, <1>2, <1>3, <1>4, <1>5, <1>6, <1>7, <1>8, <1>9, <1>10, <1>11
        DEF Next, FrameThread, ThreadAfterDecode, Main

(* An event is counted when it is posted and when it is polled; the image  *)
(* it stands for, when it is pushed and when it is popped.                 *)
LEMMA NextAccounting ==
  IInv /\ [Next]_vars => FrameAccounting' /\ LostStayBehind'
<1> SUFFICES ASSUME IInv, [Next]_vars PROVE FrameAccounting' /\ LostStayBehind'
  OBVIOUS
<1>0. /\ TypeOK /\ FrameAccounting /\ LostStayBehind
      /\ Len(frames) \in Nat /\ dropped \in Nat /\ events \in Seq(Event)
      /\ Cardinality(FrameEvents(events)) \in Nat
  BY FrameEventsFinite DEF IInv, TypeOK
<1> USE <1>0 DEF threadVars, mainVars, ThreadAt, FrameAccounting,
        LostStayBehind, Pending
<1>1. CASE DecodeFrame \/ DecodeNothing \/ EndOfInput
  BY <1>1 DEF DecodeFrame, DecodeNothing, EndOfInput
<1>2. CASE ThreadLock \/ ThreadUnlock
  BY <1>2 DEF ThreadLock, ThreadUnlock
<1>3. CASE ThreadPush
  <2>1. Len(frames') = Len(frames) + 1
    BY <1>3, PushedImage
  <2> QED BY <1>3, <2>1 DEF ThreadPush
<1>4. CASE ThreadEvent
  <2>1. CASE HasRoom /\ main \notin {"destroy", "exited"}
    <3>1. /\ events' = Append(events, "frame") /\ dropped' = dropped
          /\ thread = "event" /\ thread' = "read"
          /\ main' = main /\ frames' = frames
      BY <1>4, <2>1 DEF ThreadEvent
    <3>2. Cardinality(FrameEvents(events')) = Cardinality(FrameEvents(events)) + 1
      BY <3>1, FrameEventsPost DEF Event
    <3> QED BY <3>1, <3>2
  <2>2. CASE ~(HasRoom /\ main \notin {"destroy", "exited"})
    BY <1>4, <2>2 DEF ThreadEvent
  <2> QED BY <2>1, <2>2
<1>5. CASE Poll
  <2>1. /\ events # <<>> /\ events' = Tail(events)
        /\ main = "poll"
        /\ main' = IF Head(events) = "frame" THEN "lock" ELSE "poll"
        /\ thread' = thread /\ frames' = frames /\ dropped' = dropped
    BY <1>5 DEF Poll, IsFrameEvent
  <2>2. Cardinality(FrameEvents(events'))
          = Cardinality(FrameEvents(events))
              - (IF Head(events) = "frame" THEN 1 ELSE 0)
    BY <2>1, FrameEventsPoll
  <2>3. CASE Head(events) = "frame"
    BY <2>1, <2>2, <2>3
  <2>4. CASE Head(events) # "frame"
    BY <2>1, <2>2, <2>4
  <2> QED BY <2>3, <2>4
<1>6. CASE PollEmpty \/ UpdateTexture \/ Render
  BY <1>6 DEF PollEmpty, UpdateTexture, Render, AfterRender
<1>7. CASE MainLock \/ MainUnlock
  BY <1>7 DEF MainLock, MainUnlock
<1>8. CASE MainPop
  <2>1. Len(frames') = Len(frames) - 1
    BY <1>8, PoppedImage
  <2>2. /\ main = "pop" /\ main' = "unlock" /\ thread' = thread
        /\ dropped' = dropped /\ events' = events
    BY <1>8 DEF MainPop
  <2>3. Len(frames) = Cardinality(FrameEvents(events)) + 1 + Pending + dropped
    BY <2>2
  <2> QED BY <2>1, <2>2, <2>3
<1>9. CASE SdlQuit \/ DestroyQueue \/ ProcessEnds
  BY <1>9 DEF SdlQuit, DestroyQueue, ProcessEnds
<1>10. CASE \E event \in {"quit", "other"} : UserEvent(event)
  <2>1. PICK event \in {"quit", "other"} : UserEvent(event)
    BY <1>10
  <2>2. Cardinality(FrameEvents(events')) = Cardinality(FrameEvents(events))
    BY <2>1, FrameEventsPost DEF UserEvent, Event
  <2> QED BY <2>1, <2>2 DEF UserEvent
<1>11. CASE UNCHANGED vars
  BY <1>11 DEF vars
<1> QED BY <1>1, <1>2, <1>3, <1>4, <1>5, <1>6, <1>7, <1>8, <1>9, <1>10, <1>11
        DEF Next, FrameThread, ThreadAfterDecode, Main

(* Images are numbered as they are decoded, pushed and popped in turn.     *)
LEMMA NextOrder ==
  IInv /\ [Next]_vars => ImagesAccounted' /\ QueueInOrder' /\ TextureFollows'
<1> SUFFICES ASSUME IInv, [Next]_vars
             PROVE  ImagesAccounted' /\ QueueInOrder' /\ TextureFollows'
  OBVIOUS
<1>0. /\ ImagesAccounted /\ QueueInOrder /\ TextureFollows
      /\ Len(frames) \in Nat /\ image \in Nat /\ decoded \in Nat
      /\ screen \in Nat /\ texture \in Nat
  BY DEF IInv, TypeOK
<1> USE <1>0 DEF threadVars, mainVars, ThreadAt, ImagesAccounted, QueueInOrder,
        TextureFollows
<1>1. CASE DecodeFrame \/ DecodeNothing \/ EndOfInput
  BY <1>1 DEF DecodeFrame, DecodeNothing, EndOfInput
<1>2. CASE ThreadLock \/ ThreadUnlock \/ ThreadEvent
  BY <1>2 DEF ThreadLock, ThreadUnlock, ThreadEvent
<1>3. CASE ThreadPush
  <2>1. Len(frames') = Len(frames) + 1 /\ Follows(frames', image)
    BY <1>3, PushedImage
  <2> QED BY <1>3, <2>1 DEF ThreadPush
<1>4. CASE Poll \/ PollEmpty \/ Render
  BY <1>4 DEF Poll, PollEmpty, Render, AfterRender
<1>5. CASE MainLock \/ MainUnlock \/ UpdateTexture
  BY <1>5 DEF MainLock, MainUnlock, UpdateTexture
<1>6. CASE MainPop
  <2>1. /\ image' = image + 1 /\ Len(frames') = Len(frames) - 1
        /\ Follows(frames', image')
    BY <1>6, PoppedImage
  <2> QED BY <1>6, <2>1 DEF MainPop
<1>7. CASE SdlQuit \/ DestroyQueue \/ ProcessEnds
  BY <1>7 DEF SdlQuit, DestroyQueue, ProcessEnds
<1>8. CASE \E event \in {"quit", "other"} : UserEvent(event)
  BY <1>8 DEF UserEvent
<1>9. CASE UNCHANGED vars
  BY <1>9 DEF vars
<1> QED BY <1>1, <1>2, <1>3, <1>4, <1>5, <1>6, <1>7, <1>8, <1>9
        DEF Next, FrameThread, ThreadAfterDecode, Main

LEMMA SpecIInv == Spec => []IInv
<1>1. IInv /\ [Next]_vars => IInv'
  <2> SUFFICES ASSUME IInv, [Next]_vars PROVE IInv'
    OBVIOUS
  <2>1. TypeOK' /\ FrameAccounting' /\ LostStayBehind'
    BY NextTypeOK, NextAccounting
  <2>2. MutexHeld'
    BY NextMutexHeld DEF IInv
  <2>3. ImagesAccounted' /\ QueueInOrder' /\ TextureFollows'
    BY NextOrder
  <2> QED BY <2>1, <2>2, <2>3 DEF IInv
<1> QED BY InitIInv, <1>1, PTL DEF Spec

-----------------------------------------------------------------------------
(* The state of the viewer is well formed; in particular no more events    *)
(* are lost than images decoded.                                           *)
THEOREM TypeCorrect == Spec => []TypeOK
<1>1. IInv => TypeOK
  BY DEF IInv
<1> QED BY SpecIInv, <1>1, PTL

(* FrameThread and main are never both between Lock and Unlock of the      *)
(* FrameQueue, not even while main destroys it.                            *)
THEOREM QueueNotRaced == Spec => []NoRace
<1>1. IInv => NoRace
  BY DEF IInv, MutexHeld, NoRace
<1> QED BY SpecIInv, <1>1, PTL

(* front() and pop() of the FrameQueue are called on an image.             *)
THEOREM PopsAnImage == Spec => []NoEmptyPop
<1>1. IInv => NoEmptyPop
  <2> SUFFICES ASSUME IInv, main = "pop" PROVE frames # <<>>
    BY DEF NoEmptyPop
  <2>1. /\ Len(frames) \in Nat /\ dropped \in Nat
        /\ Cardinality(FrameEvents(events)) \in Nat
    BY FrameEventsFinite DEF IInv, TypeOK
  <2>2. Len(frames) > 0
    BY <2>1 DEF IInv, FrameAccounting
  <2> QED BY <2>2
<1> QED BY SpecIInv, <1>1, PTL

(* The images that wait are those with an event under way, and as many     *)
(* more as SDL_PushEvent refused.                                          *)
THEOREM FramesAccounted == Spec => []FrameAccounting
<1>1. IInv => FrameAccounting
  BY DEF IInv
<1> QED BY SpecIInv, <1>1, PTL

(* What a step does to the texture and to the screen. *)
LEMMA NextShown ==
  IInv /\ [Next]_vars => \/ texture' = texture /\ screen' \in {screen, texture}
                         \/ texture' = texture + 1 /\ screen' = screen
<1> SUFFICES ASSUME IInv, [Next]_vars
             PROVE  \/ texture' = texture /\ screen' \in {screen, texture}
                    \/ texture' = texture + 1 /\ screen' = screen
  OBVIOUS
<1> USE DEF threadVars, mainVars
<1>1. CASE FrameThread
  BY <1>1 DEF FrameThread, ThreadAfterDecode, DecodeFrame, DecodeNothing,
     EndOfInput, ThreadLock, ThreadPush, ThreadUnlock, ThreadEvent
<1>2. CASE UpdateTexture
  <2>1. texture = image - 1 /\ image \in Nat /\ texture \in Nat
    BY <1>2 DEF IInv, TypeOK, TextureFollows, UpdateTexture
  <2> QED BY <1>2, <2>1 DEF UpdateTexture
<1>3. CASE Render
  BY <1>3 DEF Render
<1>4. CASE Poll \/ PollEmpty \/ MainLock \/ MainPop \/ MainUnlock
  BY <1>4 DEF Poll, PollEmpty, MainLock, MainPop, MainUnlock
<1>5. CASE SdlQuit \/ DestroyQueue \/ ProcessEnds
  BY <1>5 DEF SdlQuit, DestroyQueue, ProcessEnds
<1>6. CASE \E event \in {"quit", "other"} : UserEvent(event)
  BY <1>6 DEF UserEvent
<1>7. CASE UNCHANGED vars
  BY <1>7 DEF vars
<1> QED BY <1>1, <1>2, <1>3, <1>4, <1>5, <1>6, <1>7 DEF Next, Main

(* Images are copied to the texture in the order they were decoded, each   *)
(* once, and the screen, which may skip some, never goes back.             *)
THEOREM InOrder == Spec => ShownInOrder
<1>1. IInv => /\ frames = [i \in 1..Len(frames) |-> image + i]
              /\ texture \in {image - 1, image}
  BY DEF IInv, TypeOK, QueueInOrder, Follows, TextureFollows
<1>2. IInv /\ [Next]_vars =>
        [screen' >= screen /\ texture' \in {texture, texture + 1}]_vars
  <2> SUFFICES ASSUME IInv, [Next]_vars
               PROVE  screen' >= screen /\ texture' \in {texture, texture + 1}
    OBVIOUS
  <2>1. screen \in Nat /\ texture \in Nat /\ screen <= texture
    BY DEF IInv, TypeOK, TextureFollows
  <2> QED BY <2>1, NextShown
<1> QED BY SpecIInv, <1>1, <1>2, PTL DEF Spec, ShownInOrder

-----------------------------------------------------------------------------
(* Nothing is under way: FrameThread waits for input or has ended, and no  *)
(* event waits for main.                                                   *)
Quiet == thread \in {"read", "done"} /\ events = <<>>

(* What an idle viewer presents is the last image decoded, less one image  *)
(* for every event SDL_PushEvent refused: what it once fell behind it      *)
(* never makes up, and nothing else makes it fall behind.                  *)
THEOREM DisplayLag ==
  Spec => [][Render /\ Quiet => decoded - screen' = dropped]_vars
<1>1. IInv => (Render /\ Quiet => decoded - screen' = dropped)
  <2> SUFFICES ASSUME IInv, Render, Quiet PROVE decoded - screen' = dropped
    OBVIOUS
  <2>1. /\ Len(frames) \in Nat /\ dropped \in Nat /\ decoded \in Nat
        /\ image \in Nat /\ Cardinality(FrameEvents(events)) = 0
    BY FrameEventsEmpty DEF IInv, TypeOK, Quiet
  <2>2. main = "render" /\ screen' = texture
    BY DEF Render
  <2>3. Len(frames) = dropped
    BY <2>1, <2>2 DEF IInv, FrameAccounting, Quiet
  <2>4. decoded = image + Len(frames) /\ texture = image
    BY <2>1, <2>2 DEF IInv, ImagesAccounted, TextureFollows, Quiet
  <2> QED BY <2>1, <2>2, <2>3, <2>4
<1> QED BY SpecIInv, <1>1, PTL
=============================================================================
