--------------------------- MODULE MotorController ---------------------------
(***************************************************************************)
(* The robot's motor controller (Robot/mc.cpp, PWM.cpp, signal_control).   *)
(*                                                                         *)
(* One loop, with all signals masked in its body: wait at most             *)
(* CONTROL_TIMEOUT_MS for a packet of the remote, apply its steering and   *)
(* then its throttle, or, if there is none or it is no good, stop the      *)
(* motor.  SIGINT stops the motor and exits; any other signal ends the     *)
(* process as it stands; so does a level outside 0..100, by an assertion.  *)
(*                                                                         *)
(* A level is the one last given to PWM_driver::set_level, which today     *)
(* only prints the commands that would set it.  Time advances in ticks,    *)
(* only while the process waits or is gone: everything else takes none.    *)
(* The network is whatever it likes: packets may arrive at any time, in    *)
(* any order, any number of times or never.                                *)
(*                                                                         *)
(* History variables: since is the time since the last packet that was     *)
(* applied, interrupted where the SIGINT handler interrupted main.         *)
(***************************************************************************)
EXTENDS Integers, Sequences

CONSTANTS Timeout,    \* CONTROL_TIMEOUT_MS in ticks
          Levels,     \* the levels a packet may carry (int8_t)
          MaxSocket   \* how many packets the socket holds

ASSUME TimeoutAssumption == Timeout \in Nat \ {0}
ASSUME LevelsAssumption == 0 \in Levels /\ Levels \subseteq -128..127
ASSUME MaxSocketAssumption == MaxSocket \in Nat \ {0}

Packet == [good : BOOLEAN, steering : Levels, throttle : Levels]

VARIABLES pc, masked,   \* main, and whether it has masked the signals
          sigint,       \* SIGINT is pending
          sigterm,      \* a signal without a handler is pending
          steering, throttle,
          socket,       \* the packets that have arrived
          p,            \* the packet received last
          waited,       \* how long CheckSockets has waited
          since, interrupted

signals == <<sigint, sigterm>>
history == <<since, interrupted>>
vars == <<pc, masked, signals, steering, throttle, socket, p, waited, history>>

Gone == {"exited", "killed", "aborted"}
Alive == pc \notin Gone

-----------------------------------------------------------------------------
(* PWM_driver::set_level asserts its argument; the level is only set if    *)
(* the assertion holds.  The mutant is a build with NDEBUG.                *)
LevelOk_Ndebug(level) == TRUE
LevelOk(level) == level \in 0..100

(* default_value of both drivers.  The constructor does not store its      *)
(* argument, but the drivers have static storage, so it is zero; the       *)
(* mutant takes an object whose memory is not cleared.                     *)
DefaultValue_Unset == 50
DefaultValue == 0

(* DISABLE_SIGNALS at the top of the loop, and the start of CheckSockets.  *)
(* A signal that is pending and not masked is delivered before the process *)
(* runs on.  The mutant leaves the signals enabled.                        *)
Masking_Forgotten == FALSE
Masking == TRUE

LoopTop ==
  /\ pc = "top"
  /\ ~sigint /\ ~sigterm
  /\ masked' = Masking
  /\ waited' = 0
  /\ pc' = "wait"
  /\ UNCHANGED <<signals, steering, throttle, socket, p, history>>

(* CheckSockets and UDP_Recv return 1: one packet is taken. *)
Receive ==
  /\ pc = "wait"
  /\ socket # <<>>
  /\ socket' = Tail(socket)
  /\ p' = Head(socket)
  /\ IF Head(socket).good
       THEN pc' = "steer" /\ since' = 0
       ELSE pc' = "halt" /\ UNCHANGED since
  /\ UNCHANGED <<masked, signals, steering, throttle, waited, interrupted>>

(* CheckSockets gives up, after the timeout or with an error.  The mutant  *)
(* waits again instead of halting.                                         *)
AfterTimeout_WaitAgain == "top"
AfterTimeout == "halt"

NoUpdate ==
  /\ pc = "wait"
  /\ socket = <<>>
  /\ waited = Timeout
  /\ pc' = AfterTimeout
  /\ UNCHANGED <<masked, signals, steering, throttle, socket, p, waited, history>>

CheckError ==
  /\ pc = "wait"
  /\ pc' = "halt"
  /\ UNCHANGED <<masked, signals, steering, throttle, socket, p, waited, history>>

(* steering.set_level, then throttle.set_level. *)
Steer ==
  /\ pc = "steer"
  /\ IF LevelOk(p.steering)
       THEN steering' = p.steering /\ pc' = "throttle"
       ELSE pc' = "aborted" /\ UNCHANGED steering
  /\ UNCHANGED <<masked, signals, throttle, socket, p, waited, history>>

Throttle ==
  /\ pc = "throttle"
  /\ IF LevelOk(p.throttle)
       THEN throttle' = p.throttle /\ pc' = "enable"
       ELSE pc' = "aborted" /\ UNCHANGED throttle
  /\ UNCHANGED <<masked, signals, steering, socket, p, waited, history>>

(* estop: "kill motor" first, then "center steering". *)
KillMotor ==
  /\ pc \in {"halt", "catch"}
  /\ throttle' = 0
  /\ pc' = IF pc = "halt" THEN "center" ELSE "catch_center"
  /\ UNCHANGED <<masked, signals, steering, socket, p, waited, history>>

CenterSteering ==
  /\ pc \in {"center", "catch_center"}
  /\ steering' = 0
  /\ pc' = IF pc = "center" THEN "enable" ELSE "exit"
  /\ UNCHANGED <<masked, signals, throttle, socket, p, waited, history>>

(* ENABLE_SIGNALS: pending signals are delivered before the next turn. *)
EnableSignals ==
  /\ pc = "enable"
  /\ masked' = FALSE
  /\ pc' = "top"
  /\ UNCHANGED <<signals, steering, throttle, socket, p, waited, history>>

(* exit(1) in the handler destroys the drivers, the last constructed       *)
(* first; each destructor sets the default level.                          *)
Exit ==
  /\ pc = "exit"
  /\ steering' = DefaultValue
  /\ throttle' = DefaultValue
  /\ pc' = "exited"
  /\ UNCHANGED <<masked, signals, socket, p, waited, history>>

Main == \/ LoopTop \/ Receive \/ NoUpdate \/ CheckError \/ Steer \/ Throttle
        \/ KillMotor \/ CenterSteering \/ EnableSignals \/ Exit

-----------------------------------------------------------------------------
InHandler == pc \in {"catch", "catch_center", "exit"}

(* catch_sigint is called; SIGINT itself is blocked while it runs. *)
DeliverSigint ==
  /\ Alive /\ sigint /\ ~masked /\ ~InHandler
  /\ sigint' = FALSE
  /\ interrupted' = pc
  /\ pc' = "catch"
  /\ UNCHANGED <<masked, sigterm, steering, throttle, socket, p, waited, since>>

(* Any other signal ends the process. *)
DeliverSigterm ==
  /\ Alive /\ sigterm /\ ~masked
  /\ sigterm' = FALSE
  /\ pc' = "killed"
  /\ UNCHANGED <<masked, sigint, steering, throttle, socket, p, waited, history>>

Signal ==
  /\ Alive
  /\ \/ sigint' = TRUE /\ UNCHANGED sigterm
     \/ sigterm' = TRUE /\ UNCHANGED sigint
  /\ UNCHANGED <<pc, masked, steering, throttle, socket, p, waited, history>>

(* A packet reaches the socket. *)
Arrive(packet) ==
  /\ Alive
  /\ Len(socket) < MaxSocket
  /\ socket' = Append(socket, packet)
  /\ UNCHANGED <<pc, masked, signals, steering, throttle, p, waited, history>>

(* Time passes while CheckSockets waits for a packet, and for the robot    *)
(* when the process is gone.  The history variable stops counting at       *)
(* Timeout + 1.                                                            *)
Tick ==
  /\ \/ pc = "wait" /\ socket = <<>> /\ waited < Timeout /\ waited' = waited + 1
     \/ ~Alive /\ since <= Timeout /\ UNCHANGED waited
  /\ since' = IF since <= Timeout THEN since + 1 ELSE since
  /\ UNCHANGED <<pc, masked, signals, steering, throttle, socket, p, interrupted>>

-----------------------------------------------------------------------------
Init ==
  /\ pc = "top"
  /\ masked = FALSE
  /\ sigint = FALSE
  /\ sigterm = FALSE
  /\ steering = DefaultValue
  /\ throttle = DefaultValue
  /\ socket = <<>>
  /\ p = [good |-> FALSE, steering |-> 0, throttle |-> 0]
  /\ waited = 0
  /\ since = Timeout + 1
  /\ interrupted = "nowhere"

Next == \/ Main \/ DeliverSigint \/ DeliverSigterm \/ Signal
        \/ \E packet \in Packet : Arrive(packet)
        \/ Tick

(* The process is scheduled, the clock runs, and signals are delivered. *)
Fairness == WF_vars(Main) /\ WF_vars(Tick) /\ WF_vars(DeliverSigint)

Spec == Init /\ [][Next]_vars /\ Fairness

-----------------------------------------------------------------------------
(* No level outside 0..100 is ever set (the assertions of set_level), and  *)
(* CheckSockets never waits longer than its timeout.                       *)
TypeOK ==
  /\ pc \in Gone \cup {"top", "wait", "steer", "throttle", "halt", "center",
                       "enable", "catch", "catch_center", "exit"}
  /\ masked \in BOOLEAN
  /\ sigint \in BOOLEAN
  /\ sigterm \in BOOLEAN
  /\ steering \in 0..100
  /\ throttle \in 0..100
  /\ socket \in Seq(Packet) /\ Len(socket) <= MaxSocket
  /\ p \in Packet
  /\ waited \in 0..Timeout
  /\ since \in 0..(Timeout + 1)
  /\ interrupted \in {"nowhere", "top", "wait", "steer", "throttle", "halt",
                      "center", "enable"}

(* The throttle is open although the last good packet is older than        *)
(* CONTROL_TIMEOUT_MS only if a failed assertion or a signal without a     *)
(* handler has ended the process: never while it runs, whatever arrives,   *)
(* nor after SIGINT.                                                       *)
NoRunaway ==
  throttle # 0 /\ since > Timeout => pc \in {"killed", "aborted"}

(* The motor never runs under the steering of another command: where main  *)
(* waits, where the handler starts and where a signal without a handler    *)
(* has ended the process, an open throttle and the steering are both those *)
(* of the packet received last.  Only a failed assertion can leave the     *)
(* steering of one packet with the throttle of another.                    *)
CommandsWhole ==
  pc \in {"top", "wait", "catch", "killed"} /\ throttle # 0
    => <<steering, throttle>> = <<p.steering, p.throttle>>

(* catch_sigint never runs in the middle of a turn: not between the two    *)
(* levels of a command, nor inside set_level, whose printf and malloc the  *)
(* handler would enter a second time.                                      *)
HandlerBetweenTurns == interrupted \in {"nowhere", "top"}

(* Ctrl-C is not lost behind the mask: the process ends, because           *)
(* CheckSockets waits no longer than the timeout in any turn.              *)
InterruptServed == sigint ~> ~Alive

(* Violated: set_level asserts "level <= 100" and "level >= 0".  What main *)
(* passes on is in that range.                                             *)
AssertedLevels ==
  /\ pc = "steer" => LevelOk(p.steering)
  /\ pc = "throttle" => LevelOk(p.throttle)
=============================================================================
