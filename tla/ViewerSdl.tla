------------------------------ MODULE ViewerSdl ------------------------------
(***************************************************************************)
(* viewer_sdl: the thread that decodes and the main loop that displays.    *)
(*                                                                         *)
(* FrameThread splits standard input (module Destreamer), decodes each     *)
(* packet, puts the image in FrameQueue under its mutex, and then posts an *)
(* SDL event.  main drains SDL's event queue; for each frame event it pops *)
(* one image, without asking whether there is one.  SDL_PushEvent fails    *)
(* when the event queue is full, which FrameThread does not look at: the   *)
(* image then stays in the queue without an event.  On a quit event main   *)
(* finishes draining, destroys the queue and returns while FrameThread may *)
(* still run; what FrameThread does with the destroyed mutex is undefined, *)
(* and modelled as a lock that excludes nobody.                            *)
(*                                                                         *)
(* main copies each image it pops into the one texture, and presents the   *)
(* texture on the screen only when no event waits: an image may be         *)
(* overwritten before it is presented.                                     *)
(*                                                                         *)
(* Images are numbered in the order they are decoded.  dropped and screen  *)
(* are history variables: how many events SDL refused, and what was last   *)
(* presented.                                                              *)
(***************************************************************************)
EXTENDS Integers, Sequences, FiniteSets

CONSTANTS MaxPackets,      \* bound: how many packets arrive before the end
          MaxUserEvents,   \* bound: how many events the user causes
          MaxEvents        \* the capacity of SDL's event queue

ASSUME BoundsAssumption ==
  MaxPackets \in Nat /\ MaxUserEvents \in Nat /\ MaxEvents \in Nat \ {0}

VARIABLES thread,      \* where FrameThread is
          main,        \* where main is
          mutex,       \* who holds FrameQueue's mutex
          frames,      \* FrameQueue's images
          events,      \* SDL's event queue
          running,     \* main's flag
          image,       \* the image main has popped
          texture,     \* the image in the texture, 0 at first
          packets,     \* how many packets have arrived
          decoded,     \* how many images have been decoded
          userEvents,  \* how many events the user has caused
          dropped,     \* history: how many events SDL refused
          screen       \* history: the image last presented, 0 at first

threadVars == <<thread, packets, decoded, dropped>>
mainVars == <<main, running, image, texture, screen>>
vars == <<threadVars, mainVars, mutex, frames, events, userEvents>>

Event == {"frame", "quit", "other"}

(* Is there room in SDL's queue?  The mutant is off by one. *)
HasRoom_OneMore == Len(events) <= MaxEvents
HasRoom == Len(events) < MaxEvents

(* May the mutex be taken?  The mutant does not wait. *)
MayLock_NoWait == TRUE
MayLock == mutex \in {"free", "destroyed"}

LockedBy(owner) == IF mutex = "destroyed" THEN mutex ELSE owner
Unlocked == IF mutex = "destroyed" THEN mutex ELSE "free"

-----------------------------------------------------------------------------
(* FrameThread runs until it ends or the process does. *)
ThreadAt(place) == thread = place /\ main # "gone"

(* A packet is complete; the decoder makes an image of it, or needs more. *)
DecodeFrame ==
  /\ ThreadAt("read")
  /\ packets < MaxPackets
  /\ packets' = packets + 1
  /\ decoded' = decoded + 1
  /\ thread' = "lock"
  /\ UNCHANGED <<dropped, mainVars, mutex, frames, events, userEvents>>

DecodeNothing ==
  /\ ThreadAt("read")
  /\ packets < MaxPackets
  /\ packets' = packets + 1
  /\ UNCHANGED <<thread, decoded, dropped, mainVars, mutex, frames, events,
                 userEvents>>

EndOfInput ==
  /\ ThreadAt("read")
  /\ thread' = "done"
  /\ UNCHANGED <<packets, decoded, dropped, mainVars, mutex, frames, events,
                 userEvents>>

ThreadLock ==
  /\ ThreadAt("lock")
  /\ MayLock
  /\ mutex' = LockedBy("thread")
  /\ thread' = "push"
  /\ UNCHANGED <<packets, decoded, dropped, mainVars, frames, events, userEvents>>

ThreadPush ==
  /\ ThreadAt("push")
  /\ frames' = Append(frames, decoded)
  /\ thread' = "unlock"
  /\ UNCHANGED <<packets, decoded, dropped, mainVars, mutex, events, userEvents>>

ThreadUnlock ==
  /\ ThreadAt("unlock")
  /\ mutex' = Unlocked
  /\ thread' = "event"
  /\ UNCHANGED <<packets, decoded, dropped, mainVars, frames, events, userEvents>>

(* SDL_PushEvent, whose result is ignored; after SDL_Quit it fails. *)
ThreadEvent ==
  /\ ThreadAt("event")
  /\ thread' = "read"
  /\ IF HasRoom /\ main \notin {"destroy", "exited"}
       THEN events' = Append(events, "frame") /\ UNCHANGED dropped
       ELSE dropped' = dropped + 1 /\ UNCHANGED events
  /\ UNCHANGED <<packets, decoded, mainVars, mutex, frames, userEvents>>

ThreadAfterDecode == ThreadLock \/ ThreadPush \/ ThreadUnlock \/ ThreadEvent
FrameThread == DecodeFrame \/ DecodeNothing \/ EndOfInput \/ ThreadAfterDecode

-----------------------------------------------------------------------------
(* The user closes the window, or resizes it, presses a key... *)
UserEvent(event) ==
  /\ main \notin {"destroy", "exited", "gone"}
  /\ userEvents < MaxUserEvents
  /\ HasRoom
  /\ userEvents' = userEvents + 1
  /\ events' = Append(events, event)
  /\ UNCHANGED <<threadVars, mainVars, mutex, frames>>

(* event.type == fq.eventNumber, and a mutant that takes every event. *)
IsFrameEvent_Any(event) == TRUE
IsFrameEvent(event) == event = "frame"

(* One event of the inner loop; a frame event is handled below. *)
Poll ==
  /\ main = "poll"
  /\ events # <<>>
  /\ events' = Tail(events)
  /\ running' = (running /\ Head(events) # "quit")
  /\ main' = IF IsFrameEvent(Head(events)) THEN "lock" ELSE "poll"
  /\ UNCHANGED <<threadVars, image, texture, screen, mutex, frames, userEvents>>

PollEmpty ==
  /\ main = "poll"
  /\ events = <<>>
  /\ main' = "render"
  /\ UNCHANGED <<threadVars, running, image, texture, screen, mutex, frames,
                 events, userEvents>>

MainLock ==
  /\ main = "lock"
  /\ MayLock
  /\ mutex' = LockedBy("main")
  /\ main' = "pop"
  /\ UNCHANGED <<threadVars, running, image, texture, screen, frames, events,
                 userEvents>>

(* The image taken and what stays of the queue; the mutants take the       *)
(* newest one, and forget to pop it.                                       *)
NextImage_Newest(q) == q[Len(q)]
NextImage(q) == Head(q)
Popped_Forgotten(q) == q
Popped(q) == Tail(q)

(* front() and pop(), undefined on an empty queue. *)
MainPop ==
  /\ main = "pop"
  /\ IF frames = <<>>
       THEN UNCHANGED <<frames, image>>
       ELSE image' = NextImage(frames) /\ frames' = Popped(frames)
  /\ main' = "unlock"
  /\ UNCHANGED <<threadVars, running, texture, screen, mutex, events, userEvents>>

MainUnlock ==
  /\ main = "unlock"
  /\ mutex' = Unlocked
  /\ main' = "update"
  /\ UNCHANGED <<threadVars, running, image, texture, screen, frames, events,
                 userEvents>>

(* The image is copied to the texture, not yet to the screen. *)
UpdateTexture ==
  /\ main = "update"
  /\ texture' = image
  /\ main' = "poll"
  /\ UNCHANGED <<threadVars, running, image, screen, mutex, frames, events,
                 userEvents>>

(* Is the outer loop left?  The mutant never leaves it. *)
AfterRender_Never == "poll"
AfterRender == IF running THEN "poll" ELSE "quit"

(* SDL_RenderPresent. *)
Render ==
  /\ main = "render"
  /\ main' = AfterRender
  /\ screen' = texture
  /\ UNCHANGED <<threadVars, running, image, texture, mutex, frames, events,
                 userEvents>>

(* Window and renderer are destroyed; SDL_Quit discards the events. *)
SdlQuit ==
  /\ main = "quit"
  /\ events' = <<>>
  /\ main' = "destroy"
  /\ UNCHANGED <<threadVars, running, image, texture, screen, mutex, frames,
                 userEvents>>

(* main returns: FrameQueue is destroyed, FrameThread is not waited for. *)
DestroyQueue ==
  /\ main = "destroy"
  /\ mutex' = "destroyed"
  /\ main' = "exited"
  /\ UNCHANGED <<threadVars, running, image, texture, screen, frames, events,
                 userEvents>>

ProcessEnds ==
  /\ main = "exited"
  /\ main' = "gone"
  /\ UNCHANGED <<threadVars, running, image, texture, screen, mutex, frames,
                 events, userEvents>>

Main == \/ Poll \/ PollEmpty \/ MainLock \/ MainPop \/ MainUnlock
        \/ UpdateTexture \/ Render \/ SdlQuit \/ DestroyQueue \/ ProcessEnds

-----------------------------------------------------------------------------
Init ==
  /\ thread = "read"
  /\ main = "poll"
  /\ mutex = "free"
  /\ frames = <<>>
  /\ events = <<>>
  /\ running = TRUE
  /\ image = 0
  /\ texture = 0
  /\ packets = 0
  /\ decoded = 0
  /\ userEvents = 0
  /\ dropped = 0
  /\ screen = 0

Next == FrameThread \/ Main \/ \E event \in {"quit", "other"} : UserEvent(event)

(* Both threads are scheduled; input and user owe nothing. *)
Fairness == WF_vars(Main) /\ WF_vars(ThreadAfterDecode)

Spec == Init /\ [][Next]_vars /\ Fairness

-----------------------------------------------------------------------------
(* The queues hold what was put there, SDL's no more than it can, and no   *)
(* more images exist than packets have arrived.                            *)
TypeOK ==
  /\ thread \in {"read", "lock", "push", "unlock", "event", "done"}
  /\ main \in {"poll", "lock", "pop", "unlock", "update", "render", "quit",
               "destroy", "exited", "gone"}
  /\ mutex \in {"free", "thread", "main", "destroyed"}
  /\ frames \in Seq(1..MaxPackets)
  /\ events \in Seq(Event) /\ Len(events) <= MaxEvents
  /\ running \in BOOLEAN
  /\ image \in 0..MaxPackets
  /\ texture \in 0..MaxPackets
  /\ packets \in 0..MaxPackets
  /\ decoded \in 0..packets
  /\ userEvents \in 0..MaxUserEvents
  /\ dropped \in 0..decoded
  /\ screen \in 0..MaxPackets

(* The queue of images is never touched by both threads at once (Lock and  *)
(* Unlock of FrameQueue around push, front and pop).                       *)
NoRace == ~(thread \in {"push", "unlock"} /\ main \in {"pop", "unlock"})

(* main never calls front() on an empty queue, although it does not test   *)
(* for it: FrameThread pushes the image before it posts the event.         *)
NoEmptyPop == main = "pop" => frames # <<>>

(* Where in SDL's queue the events of FrameThread are. *)
FrameEvents(q) == {i \in DOMAIN q : q[i] = "frame"}

(* While SDL runs, the images in the queue are those whose event is        *)
(* waiting, being handled or about to be posted, and one more for each     *)
(* event that SDL refused: an image whose event is lost is never caught up *)
(* with, the display lags by one image more from then on.                  *)
FrameAccounting ==
  main \notin {"destroy", "exited", "gone"} =>
    Len(frames) = Cardinality(FrameEvents(events))
                  + (IF main \in {"lock", "pop"} THEN 1 ELSE 0)
                  + (IF thread \in {"unlock", "event"} THEN 1 ELSE 0)
                  + dropped

(* Images are copied to the texture in the order they were decoded, none   *)
(* twice and none skipped: whatever is next in the queue follows what was  *)
(* popped.  Of these the screen shows some: it never goes back to an older *)
(* image, but when several events are drained in one turn of main's loop   *)
(* only the last of their images is presented.                             *)
ShownInOrder ==
  /\ [](/\ frames = [i \in 1..Len(frames) |-> image + i]
        /\ texture \in {image - 1, image})
  /\ [][screen' >= screen /\ texture' \in {texture, texture + 1}]_vars

(* Every decoded image, or else a later one, is presented on the screen,   *)
(* unless the viewer is quitting or SDL has refused an event.              *)
EveryFrameShown ==
  \A k \in 1..MaxPackets :
    decoded >= k ~> screen >= k \/ ~running \/ dropped > 0

(* Once the input has ended, quitting ends the process. *)
QuitEnds == (~running /\ thread = "done") ~> main = "gone"
=============================================================================
