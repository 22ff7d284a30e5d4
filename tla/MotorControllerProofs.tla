------------------------ MODULE MotorControllerProofs ------------------------
(***************************************************************************)
(* The motor never runs away while the controller runs, for every timeout, *)
(* every set of levels and every socket size.                              *)
(*                                                                         *)
(* NoRunaway is not inductive: that the throttle is closed in time follows *)
(* from where main is.  At the top of the loop a throttle that is open has *)
(* just been set; while CheckSockets waits, the last packet is no older    *)
(* than the wait, which the timeout bounds; behind estop it is closed.     *)
(* Nor is CommandsWhole: the two levels of a command are set one after the *)
(* other, and only the mask keeps signals out between them.                *)
(***************************************************************************)
EXTENDS MotorController, TLAPS

(* The signals are masked throughout the body of the loop, so the handler  *)
(* starts at its top only.                                                 *)
MaskedInBody ==
  /\ pc \in {"wait", "steer", "throttle", "halt", "center", "enable"} => masked
  /\ interrupted \in {"nowhere", "top"}

(* How old the last good packet can be, by where main is. *)
ThrottleIsFresh ==
  /\ pc \in {"steer", "throttle"} => since = 0
  /\ pc \in {"top", "enable"} /\ throttle # 0 => since = 0
  /\ pc = "wait" /\ throttle # 0 => since <= waited
  /\ pc \in {"halt", "catch"} /\ throttle # 0 => since <= Timeout

(* estop closes the throttle first. *)
EstopDone ==
  pc \in {"center", "catch_center", "exit", "exited"} => throttle = 0

(* The steering is set before the throttle, both from the same packet.     *)
LevelsOfOne ==
  /\ pc = "throttle" => steering = p.steering
  /\ pc = "enable" /\ throttle # 0
       => <<steering, throttle>> = <<p.steering, p.throttle>>
  /\ CommandsWhole

IInv == TypeOK /\ MaskedInBody /\ ThrottleIsFresh /\ EstopDone /\ LevelsOfOne

LEMMA InitIInv == Init => IInv
<1> SUFFICES ASSUME Init PROVE IInv
  OBVIOUS
<1>1. TypeOK
  <2>1. <<>> \in Seq(Packet) /\ Len(<<>>) = 0
    OBVIOUS
  <2>2. [good |-> FALSE, steering |-> 0, throttle |-> 0] \in Packet
    BY LevelsAssumption DEF Packet
  <2>3. socket \in Seq(Packet) /\ Len(socket) <= MaxSocket /\ p \in Packet
    BY <2>1, <2>2, MaxSocketAssumption DEF Init
  <2>4. /\ steering \in 0..100 /\ throttle \in 0..100
        /\ waited \in 0..Timeout /\ since \in 0..(Timeout + 1)
    BY TimeoutAssumption DEF Init, DefaultValue
  <2> QED BY <2>3, <2>4 DEF Init, TypeOK
<1>2. MaskedInBody /\ ThrottleIsFresh /\ EstopDone /\ LevelsOfOne
  BY DEF Init, MaskedInBody, ThrottleIsFresh, EstopDone, LevelsOfOne,
     CommandsWhole, DefaultValue
<1> QED BY <1>1, <1>2 DEF IInv

(* A packet leaves the socket, another one enters it. *)
LEMMA SocketTypes ==
  ASSUME TypeOK
  PROVE  /\ socket # <<>> => /\ Head(socket) \in Packet
                             /\ Tail(socket) \in Seq(Packet)
                             /\ Len(Tail(socket)) <= MaxSocket
         /\ \A packet \in Packet : Len(socket) < MaxSocket =>
              /\ Append(socket, packet) \in Seq(Packet)
              /\ Len(Append(socket, packet)) <= MaxSocket
<1>1. socket \in Seq(Packet) /\ Len(socket) <= MaxSocket /\ Len(socket) \in Nat
  BY DEF TypeOK
<1> QED BY <1>1, MaxSocketAssumption

LEMMA NextIInv == IInv /\ [Next]_vars => IInv'
<1> SUFFICES ASSUME IInv, [Next]_vars PROVE IInv'
  OBVIOUS
<1> USE DEF IInv
<1>1. CASE LoopTop
  <2>1. TypeOK'
    BY <1>1, TimeoutAssumption DEF LoopTop, TypeOK, Masking, signals, history
  <2> QED BY <1>1, <2>1 DEF LoopTop, Masking, signals, history, TypeOK,
          MaskedInBody, ThrottleIsFresh, EstopDone, LevelsOfOne, CommandsWhole
<1>2. CASE Receive
  <2>1. TypeOK'
    BY <1>2, SocketTypes, TimeoutAssumption DEF Receive, TypeOK, signals, history
  <2>2. pc' = "halt" /\ throttle # 0 => since' <= Timeout
    BY <1>2, TimeoutAssumption DEF Receive, ThrottleIsFresh, TypeOK
  <2> QED BY <1>2, <2>1, <2>2 DEF Receive, signals, history,
          MaskedInBody, ThrottleIsFresh, EstopDone, LevelsOfOne, CommandsWhole
<1>3. CASE NoUpdate
  BY <1>3, TimeoutAssumption DEF NoUpdate, AfterTimeout, signals, history,
     TypeOK, MaskedInBody, ThrottleIsFresh, EstopDone, LevelsOfOne, CommandsWhole
<1>4. CASE CheckError
  BY <1>4, TimeoutAssumption DEF CheckError, signals, history,
     TypeOK, MaskedInBody, ThrottleIsFresh, EstopDone, LevelsOfOne, CommandsWhole
<1>5. CASE Steer
  BY <1>5 DEF Steer, LevelOk, signals, history, Gone,
     TypeOK, MaskedInBody, ThrottleIsFresh, EstopDone, LevelsOfOne, CommandsWhole
<1>6. CASE Throttle
  BY <1>6 DEF Throttle, LevelOk, signals, history, Gone,
     TypeOK, MaskedInBody, ThrottleIsFresh, EstopDone, LevelsOfOne, CommandsWhole
<1>7. CASE KillMotor
  BY <1>7 DEF KillMotor, signals, history,
     TypeOK, MaskedInBody, ThrottleIsFresh, EstopDone, LevelsOfOne, CommandsWhole
<1>8. CASE CenterSteering
  BY <1>8 DEF CenterSteering, signals, history,
     TypeOK, MaskedInBody, ThrottleIsFresh, EstopDone, LevelsOfOne, CommandsWhole
<1>9. CASE EnableSignals
  BY <1>9 DEF EnableSignals, signals, history,
     TypeOK, MaskedInBody, ThrottleIsFresh, EstopDone, LevelsOfOne, CommandsWhole
<1>10. CASE Exit
  BY <1>10 DEF Exit, DefaultValue, signals, history, Gone,
     TypeOK, MaskedInBody, ThrottleIsFresh, EstopDone, LevelsOfOne, CommandsWhole
<1>11. CASE DeliverSigint
  <2>1. pc = "top"
    BY <1>11 DEF DeliverSigint, Alive, InHandler, Gone, TypeOK, MaskedInBody
  <2>2. /\ pc' = "catch" /\ interrupted' = "top" /\ sigint' = FALSE
        /\ UNCHANGED <<masked, sigterm, steering, throttle, socket, p, waited,
                       since>>
    BY <1>11, <2>1 DEF DeliverSigint
  <2>3. TypeOK'
    BY <2>2 DEF TypeOK
  <2>4. MaskedInBody' /\ EstopDone' /\ LevelsOfOne'
    BY <2>1, <2>2 DEF MaskedInBody, EstopDone, LevelsOfOne, CommandsWhole
  <2>5. ThrottleIsFresh'
    BY <2>1, <2>2, TimeoutAssumption DEF ThrottleIsFresh
  <2> QED BY <2>3, <2>4, <2>5
<1>12. CASE DeliverSigterm
  <2>1. /\ pc \in {"top", "catch", "catch_center", "exit"} /\ pc' = "killed"
        /\ sigterm' = FALSE
        /\ UNCHANGED <<masked, sigint, steering, throttle, socket, p, waited,
                       since, interrupted>>
    BY <1>12 DEF DeliverSigterm, Alive, Gone, TypeOK, MaskedInBody, history
  <2>2. TypeOK' /\ MaskedInBody' /\ ThrottleIsFresh' /\ EstopDone'
    BY <2>1 DEF TypeOK, MaskedInBody, ThrottleIsFresh, EstopDone, Gone
  <2>3. LevelsOfOne'
    BY <2>1 DEF LevelsOfOne, CommandsWhole, EstopDone
  <2> QED BY <2>2, <2>3
<1>13. CASE Signal
  <2>1. /\ sigint' \in BOOLEAN /\ sigterm' \in BOOLEAN
        /\ UNCHANGED <<pc, masked, steering, throttle, socket, p, waited,
                       since, interrupted>>
    BY <1>13 DEF Signal, history, TypeOK
  <2>2. TypeOK'
    BY <2>1 DEF TypeOK
  <2> QED BY <2>1, <2>2 DEF MaskedInBody, ThrottleIsFresh, EstopDone, LevelsOfOne, CommandsWhole
<1>14. ASSUME NEW packet \in Packet, Arrive(packet) PROVE IInv'
  <2>1. TypeOK'
    BY <1>14, SocketTypes DEF Arrive, TypeOK, signals, history
  <2> QED BY <1>14, <2>1 DEF Arrive, signals, history,
          MaskedInBody, ThrottleIsFresh, EstopDone, LevelsOfOne, CommandsWhole
<1>15. CASE Tick
  <2>1. TypeOK'
    BY <1>15, TimeoutAssumption DEF Tick, TypeOK, signals
  <2>2. ThrottleIsFresh'
    BY <1>15, TimeoutAssumption DEF Tick, TypeOK, signals, Alive, Gone,
       ThrottleIsFresh
  <2> QED BY <1>15, <2>1, <2>2 DEF Tick, signals, MaskedInBody, EstopDone,
          LevelsOfOne, CommandsWhole, Alive, Gone
<1>16. CASE UNCHANGED vars
  BY <1>16 DEF vars, signals, history,
     TypeOK, MaskedInBody, ThrottleIsFresh, EstopDone, LevelsOfOne, CommandsWhole
<1> QED BY <1>1, <1>2, <1>3, <1>4, <1>5, <1>6, <1>7, <1>8, <1>9, <1>10, <1>11,
        <1>12, <1>13, <1>14, <1>15, <1>16 DEF Next, Main

-----------------------------------------------------------------------------
LEMMA Inductive == Spec => []IInv
BY InitIInv, NextIInv, PTL DEF Spec

(* The controller's state is well typed: no level outside 0..100 is set.   *)
THEOREM TypeCorrect == Spec => []TypeOK
<1>1. IInv => TypeOK
  BY DEF IInv
<1> QED BY <1>1, Inductive, PTL

(* The dead man's handle: main's loop, the handler and the destructors     *)
(* never leave the throttle open without a recent packet.                  *)
THEOREM MotorNeverRunsAway == Spec => []NoRunaway
<1>1. IInv => NoRunaway
  BY TimeoutAssumption DEF IInv, TypeOK, ThrottleIsFresh, EstopDone, NoRunaway,
     Gone
<1> QED BY <1>1, Inductive, PTL

(* The two levels in force are those of one packet whenever main waits and *)
(* when a signal ends it, unless the throttle is closed.                   *)
THEOREM CommandsAreWhole == Spec => []CommandsWhole
<1>1. IInv => CommandsWhole
  BY DEF IInv, LevelsOfOne
<1> QED BY <1>1, Inductive, PTL

(* catch_sigint runs between the turns of main's loop only. *)
THEOREM HandlerNeverNested == Spec => []HandlerBetweenTurns
<1>1. IInv => HandlerBetweenTurns
  BY DEF IInv, MaskedInBody, HandlerBetweenTurns
<1> QED BY <1>1, Inductive, PTL
=============================================================================
