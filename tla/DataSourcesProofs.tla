-------------------------- MODULE DataSourcesProofs --------------------------
(***************************************************************************)
(* Each target of packet_server passes on the packets broadcast since it   *)
(* was registered, in order, all of them as long as its own calls succeed, *)
(* and touches no descriptor but its own; for every size of the table of   *)
(* descriptors, of the TCP connection and of a file that is there already. *)
(*                                                                         *)
(* The invariant has three parts.  ControlInv: where main and the loop of  *)
(* broadcast are; each target is registered once.  TableInv: which         *)
(* descriptor is whose, and that only one program has each kind.  SinkInv: *)
(* what has left through each target, compared with what it was given.     *)
(* What the targets are given changes only where a write returns           *)
(* (GivenKept, GivenGrows), so each step has one sink to be looked at.     *)
(***************************************************************************)
EXTENDS DataSources, SequenceTheorems, TLAPS

(* The step main is at, and the targets that are registered. *)
Current == Script[program][step]
Registered == ToSet(targets)

ControlInv ==
  /\ program \in DOMAIN Script
  /\ pc \in {"running", "accepting"} \cup DOMAIN AfterPrinting \cup Ended
  /\ step \in 1..(Len(Script[program]) + 1)
  /\ targets \in Seq(Targets) /\ IsInjective(targets)
  /\ at \in 0..Len(targets)
  /\ count \in Nat /\ since \in [Targets -> Nat]
  /\ \A k \in 1..Len(targets) :
       \E j \in 1..(step - 1) : Script[program][j] = targets[k]
  /\ at # 0 => step <= Len(Script[program]) /\ Current = Broadcast
  /\ pc = "accepting" =>
       at = 0 /\ step <= Len(Script[program]) /\ Current = "tcp_server"
  /\ \A k \in 1..Len(targets) :
       since[targets[k]] <= count /\ (at # 0 => since[targets[k]] < count)

-----------------------------------------------------------------------------
(* What the scripts have in common: each target is made once, and only one *)
(* program makes a file, one a UDP socket and one a TCP server.            *)
LEMMA ScriptFacts ==
  ASSUME NEW p \in DOMAIN Script
  PROVE  /\ Len(Script[p]) \in Nat
         /\ \A j \in 1..Len(Script[p]) : Script[p][j] \in Targets \cup {Broadcast}
         /\ \A j, k \in 1..Len(Script[p]) :
              Script[p][j] = Script[p][k] /\ Script[p][j] # Broadcast => j = k
         /\ \A j \in 1..Len(Script[p]) :
              /\ Script[p][j] = "file" => p = "test_data_source"
              /\ Script[p][j] = "udp" => p = "test_data_source_udp"
              /\ Script[p][j] = "tcp_server" => p = "test_data_source_tcp_server"
<1> USE DEF Targets, Broadcast
<1>1. p \in {"test_data_source", "test_data_source_tcp_server",
             "test_data_source_udp", "viewer_stdin"}
  BY DEF Script
<1>2. CASE p = "test_data_source"
  <2>1. Script[p] = <<"broadcast", "stdio", "broadcast", "broadcast", "file",
                      "broadcast", "stdio_info", "broadcast", "broadcast">>
    BY <1>2 DEF Script
  <2> QED BY <1>2, <2>1
<1>3. CASE p = "test_data_source_tcp_server"
  <2>1. Script[p] = <<"stdio_info", "tcp_server", "broadcast", "broadcast", "broadcast">>
    BY <1>3 DEF Script
  <2> QED BY <1>3, <2>1
<1>4. CASE p = "test_data_source_udp"
  <2>1. Script[p] = <<"stdio_info", "udp", "broadcast", "broadcast", "broadcast">>
    BY <1>4 DEF Script
  <2> QED BY <1>4, <2>1
<1>5. CASE p = "viewer_stdin"
  <2>1. Script[p] = <<"ocv_avcodec", "stdio_info", "broadcast", "broadcast", "broadcast">>
    BY <1>5 DEF Script
  <2> QED BY <1>5, <2>1
<1> QED BY <1>1, <1>2, <1>3, <1>4, <1>5

(* The step main is at is one of its script's. *)
LEMMA CurrentStep ==
  ASSUME ControlInv, NEW target, Makes(target)
  PROVE  /\ step \in 1..Len(Script[program]) /\ step \in Nat /\ at = 0
         /\ Current = target /\ target \in Targets \cup {Broadcast}
         /\ target # Broadcast => target \notin Registered
<1>1. /\ step <= Len(Script[program]) /\ Current = target /\ at = 0
      /\ program \in DOMAIN Script /\ step \in 1..(Len(Script[program]) + 1)
  BY DEF Makes, Current, ControlInv
<1>2. /\ Len(Script[program]) \in Nat
      /\ \A j \in 1..Len(Script[program]) : Script[program][j] \in Targets \cup {Broadcast}
      /\ \A j, k \in 1..Len(Script[program]) :
           Script[program][j] = Script[program][k] /\ Script[program][j] # Broadcast => j = k
  BY <1>1, ScriptFacts
<1>3. step \in 1..Len(Script[program]) /\ step \in Nat
  BY <1>1, <1>2
<1>4. ASSUME target # Broadcast, target \in Registered PROVE FALSE
  <2>1. PICK k \in 1..Len(targets) : targets[k] = target
    BY <1>4, LenProperties DEF ControlInv, Registered, ToSet
  <2>2. PICK j \in 1..(step - 1) : Script[program][j] = target
    BY <2>1 DEF ControlInv
  <2>3. j \in 1..Len(Script[program]) /\ j # step
    BY <1>2, <1>3
  <2> QED BY <1>1, <1>2, <1>3, <1>4, <2>2, <2>3 DEF Current
<1> QED BY <1>1, <1>2, <1>3, <1>4 DEF Current

(* The five things a step does to main and to the loop of broadcast. *)
Rests == UNCHANGED <<mainVars, since>>
Turns == /\ UNCHANGED <<program, step, targets, at, count, since>>
         /\ \/ pc' \in {"running"} \cup DOMAIN AfterPrinting \cup Ended
            \/ pc' = "accepting" /\ Makes("tcp_server")
Registers(target) ==
  /\ Makes(target) \/ (pc = "accepting" /\ target = "tcp_server")
  /\ target # Broadcast
  /\ Register(target)
  /\ pc' = "running"
  /\ UNCHANGED <<program, at, count>>
Starts == /\ Makes(Broadcast)
          /\ count' = count + 1
          /\ IF targets = <<>> THEN step' = step + 1 /\ UNCHANGED at
                               ELSE at' = 1 /\ UNCHANGED step
          /\ UNCHANGED <<program, pc, targets, since>>
Returns == /\ pc = "running" /\ at # 0
           /\ Advance
           /\ pc' \in {"running", "writing"}

LEMMA RestsControl == ControlInv /\ Rests => ControlInv'
BY DEF ControlInv, Rests, mainVars, Current

LEMMA TurnsControl ==
  ASSUME ControlInv, Turns
  PROVE  ControlInv'
<1>1. /\ UNCHANGED <<program, step, targets, at, count, since>>
      /\ pc' \in {"running", "accepting"} \cup DOMAIN AfterPrinting \cup Ended
      /\ Current' = Current
  BY DEF Turns, Current
<1>2. pc' = "accepting" =>
        at = 0 /\ step <= Len(Script[program]) /\ Current = "tcp_server"
  BY DEF Turns, Makes, Ended, AfterPrinting, Current
<1> QED BY <1>1, <1>2 DEF ControlInv

LEMMA RegistersControl ==
  ASSUME ControlInv, NEW target, Registers(target)
  PROVE  /\ ControlInv'
         /\ target \in Targets /\ target \notin Registered
         /\ at = 0 /\ Len(targets) \in Nat /\ Len(targets') = Len(targets) + 1
         /\ \A k \in 1..Len(targets) : targets'[k] = targets[k]
         /\ targets'[Len(targets) + 1] = target
         /\ Registered' = Registered \cup {target}
<1> DEFINE n == Len(targets)
<1>1. /\ step \in 1..Len(Script[program]) /\ step \in Nat /\ at = 0
      /\ Current = target /\ target \in Targets /\ target \notin Registered
  <2>1. CASE Makes(target)
    BY <2>1, CurrentStep DEF Registers
  <2>2. CASE pc = "accepting" /\ target = "tcp_server"
    <3>1. pc = "running" \/ pc = "accepting"
      BY <2>2
    <3>2. at = 0 /\ step <= Len(Script[program]) /\ Current = "tcp_server"
      BY <2>2 DEF ControlInv
    <3>3. /\ program \in DOMAIN Script /\ step \in 1..(Len(Script[program]) + 1)
          /\ Len(Script[program]) \in Nat
      BY ScriptFacts DEF ControlInv
    <3>4. step \in 1..Len(Script[program]) /\ step \in Nat
      BY <3>2, <3>3
    <3>5. ASSUME "tcp_server" \in Registered PROVE FALSE
      <4>1. PICK k \in 1..Len(targets) : targets[k] = "tcp_server"
        BY <3>5, LenProperties DEF ControlInv, Registered, ToSet
      <4>2. PICK j \in 1..(step - 1) : Script[program][j] = "tcp_server"
        BY <4>1 DEF ControlInv
      <4>3. j \in 1..Len(Script[program]) /\ j # step
        BY <3>3, <3>4
      <4>4. "tcp_server" # Broadcast
        BY DEF Broadcast
      <4> QED BY <3>2, <3>3, <3>4, <4>2, <4>3, <4>4, ScriptFacts DEF Current
    <3> QED BY <2>2, <3>2, <3>4, <3>5 DEF Targets
  <2> QED BY <2>1, <2>2 DEF Registers
<1>2. /\ targets' = Append(targets, target) /\ step' = step + 1
      /\ since' = [since EXCEPT ![target] = count] /\ pc' = "running"
      /\ UNCHANGED <<program, at, count>>
  BY DEF Registers, Register
<1>3. targets \in Seq(Targets) /\ count \in Nat /\ since \in [Targets -> Nat]
      /\ IsInjective(targets) /\ program \in DOMAIN Script
  BY DEF ControlInv
<1>4. /\ targets' \in Seq(Targets) /\ n \in Nat /\ Len(targets') = n + 1
      /\ DOMAIN targets = 1..n /\ DOMAIN targets' = 1..(n + 1)
      /\ \A k \in 1..n : targets'[k] = targets[k]
      /\ targets'[n + 1] = target
  BY <1>1, <1>2, <1>3, AppendProperties, LenProperties
<1>5. Registered = {targets[k] : k \in 1..n} /\ Registered' = {targets'[k] : k \in 1..(n + 1)}
  BY <1>4 DEF Registered, ToSet
<1> HIDE DEF n
<1>6. \A k : k \in 1..(n + 1) <=> k \in 1..n \/ k = n + 1
  BY <1>4
<1>7. Registered' = Registered \cup {target}
  BY <1>4, <1>5, <1>6
<1>8. IsInjective(targets')
  <2> SUFFICES ASSUME NEW a \in 1..(n + 1), NEW b \in 1..(n + 1), targets'[a] = targets'[b]
               PROVE  a = b
    BY <1>4 DEF IsInjective
  <2>1. CASE a \in 1..n /\ b \in 1..n
    BY <1>3, <1>4, <2>1 DEF IsInjective
  <2>2. CASE a \in 1..n /\ b = n + 1
    BY <1>1, <1>4, <1>5, <2>2
  <2>3. CASE a = n + 1 /\ b \in 1..n
    BY <1>1, <1>4, <1>5, <2>3
  <2> QED BY <1>6, <2>1, <2>2, <2>3
<1>9. ASSUME NEW k \in 1..(n + 1)
      PROVE  \E j \in 1..step : Script[program][j] = targets'[k]
  <2>1. CASE k \in 1..n
    <3>1. PICK j \in 1..(step - 1) : Script[program][j] = targets[k]
      BY <2>1 DEF ControlInv, n
    <3>2. j \in 1..step
      BY <1>1
    <3> QED BY <1>4, <2>1, <3>1, <3>2
  <2>2. CASE k = n + 1
    BY <1>1, <1>4, <2>2 DEF Current
  <2> QED BY <1>6, <2>1, <2>2
<1>10. ASSUME NEW k \in 1..(n + 1) PROVE since'[targets'[k]] <= count
  <2>1. CASE k \in 1..n
    <3>1. targets[k] # target /\ targets[k] \in Targets /\ since[targets[k]] <= count
      BY <1>1, <1>3, <1>4, <1>5, <2>1, ElementOfSeq DEF ControlInv, n
    <3> QED BY <1>2, <1>3, <1>4, <2>1, <3>1
  <2>2. CASE k = n + 1
    BY <1>1, <1>2, <1>3, <1>4, <2>2
  <2> QED BY <1>6, <2>1, <2>2
<1>11. step' \in 1..(Len(Script[program]) + 1) /\ step' - 1 = step /\ at' = 0
  BY <1>1, <1>2
<1>12. since' \in [Targets -> Nat]
  BY <1>1, <1>2, <1>3
<1>13. ControlInv'
  <2>1. at' \in 0..Len(targets')
    BY <1>4, <1>11
  <2>2. \A k \in 1..Len(targets') : \E j \in 1..(step' - 1) : Script[program'][j] = targets'[k]
    BY <1>2, <1>4, <1>9, <1>11
  <2>3. \A k \in 1..Len(targets') :
           since'[targets'[k]] <= count' /\ (at' # 0 => since'[targets'[k]] < count')
    BY <1>2, <1>4, <1>10, <1>11
  <2> QED BY <1>2, <1>3, <1>4, <1>8, <1>11, <1>12, <2>1, <2>2, <2>3 DEF ControlInv
<1> QED BY <1>1, <1>4, <1>7, <1>13 DEF n

LEMMA StartsControl ==
  ASSUME ControlInv, Starts
  PROVE  ControlInv'
<1>1. /\ step \in 1..Len(Script[program]) /\ step \in Nat /\ at = 0 /\ pc = "running"
      /\ Current = Broadcast
  BY CurrentStep DEF Starts, Makes
<1>2. /\ count' = count + 1 /\ UNCHANGED <<program, pc, targets, since>>
      /\ targets = <<>> => step' = step + 1 /\ at' = 0
      /\ targets # <<>> => step' = step /\ at' = 1
  BY <1>1 DEF Starts
<1>3. /\ count \in Nat /\ targets \in Seq(Targets) /\ Len(targets) \in Nat
      /\ since \in [Targets -> Nat]
      /\ \A k \in 1..Len(targets) : targets[k] \in Targets
  BY ElementOfSeq, LenProperties DEF ControlInv
<1>4. count' \in Nat /\ at' \in 0..Len(targets)
      /\ step' \in 1..(Len(Script[program]) + 1) /\ step <= step' /\ step' \in Nat
  BY <1>1, <1>2, <1>3
<1>5. \A k \in 1..Len(targets) : \E j \in 1..(step' - 1) : Script[program][j] = targets[k]
  <2> SUFFICES ASSUME NEW k \in 1..Len(targets)
               PROVE  \E j \in 1..(step' - 1) : Script[program][j] = targets[k]
    OBVIOUS
  <2>1. PICK j \in 1..(step - 1) : Script[program][j] = targets[k]
    BY DEF ControlInv
  <2>2. step \in Nat /\ step' \in Nat /\ step <= step'
    BY <1>1, <1>4
  <2>3. j \in 1..(step' - 1)
    <3>1. \A m, n \in Nat : m <= n => \A i \in 1..(m - 1) : i \in 1..(n - 1)
      OBVIOUS
    <3> QED BY <2>2, <3>1
  <2> QED BY <2>1, <2>3
<1>6. at' # 0 => step' <= Len(Script[program]) /\ Current' = Broadcast
  BY <1>1, <1>2 DEF Current
<1>7. \A k \in 1..Len(targets) : since[targets[k]] <= count' /\ since[targets[k]] < count'
  <2> SUFFICES ASSUME NEW k \in 1..Len(targets)
               PROVE  since[targets[k]] <= count' /\ since[targets[k]] < count'
    OBVIOUS
  <2>1. since[targets[k]] \in Nat /\ since[targets[k]] <= count
    BY <1>3 DEF ControlInv
  <2> QED BY <1>2, <1>3, <2>1
<1> QED BY <1>1, <1>2, <1>4, <1>5, <1>6, <1>7 DEF ControlInv

LEMMA ReturnsControl ==
  ASSUME ControlInv, Returns
  PROVE  ControlInv'
<1>1. /\ pc = "running" /\ at \in 1..Len(targets) /\ Len(targets) \in Nat
      /\ UNCHANGED <<program, targets, count, since>>
      /\ step <= Len(Script[program]) /\ Current = Broadcast
      /\ step \in 1..(Len(Script[program]) + 1) /\ Len(Script[program]) \in Nat
      /\ program \in DOMAIN Script
  BY ScriptFacts, LenProperties DEF ControlInv, Returns, Advance
<1>2. IF at >= Len(targets) THEN at' = 0 /\ step' = step + 1
                            ELSE at' = at + 1 /\ step' = step
  BY DEF Returns, Advance, LastTarget, NextTarget
<1>3. /\ at' \in 0..Len(targets) /\ step \in Nat /\ step' \in Nat /\ step <= step'
      /\ step' \in 1..(Len(Script[program]) + 1)
  BY <1>1, <1>2
<1>4. at' # 0 => step' = step
  BY <1>2
<1>5. \A k \in 1..Len(targets) : \E j \in 1..(step' - 1) : Script[program][j] = targets[k]
  <2> SUFFICES ASSUME NEW k \in 1..Len(targets)
               PROVE  \E j \in 1..(step' - 1) : Script[program][j] = targets[k]
    OBVIOUS
  <2>1. PICK j \in 1..(step - 1) : Script[program][j] = targets[k]
    BY DEF ControlInv
  <2>2. step \in Nat /\ step' \in Nat /\ step <= step'
    BY <1>3
  <2>3. j \in 1..(step' - 1)
    <3>1. \A m, n \in Nat : m <= n => \A i \in 1..(m - 1) : i \in 1..(n - 1)
      OBVIOUS
    <3> QED BY <2>2, <3>1
  <2> QED BY <2>1, <2>3
<1>6. at' # 0 => step' <= Len(Script[program]) /\ Current' = Broadcast
  BY <1>1, <1>4 DEF Current
<1>7. /\ pc' \in {"running"} \cup DOMAIN AfterPrinting /\ pc' # "accepting"
      /\ UNCHANGED <<program, targets, count, since>>
  BY <1>1 DEF Returns, AfterPrinting
<1>8. \A k \in 1..Len(targets) : since[targets[k]] <= count /\ since[targets[k]] < count
  <2>1. at # 0
    BY <1>1
  <2> QED BY <2>1 DEF ControlInv
<1>9. targets \in Seq(Targets) /\ IsInjective(targets) /\ count \in Nat
      /\ since \in [Targets -> Nat] /\ program \in DOMAIN Script
  BY DEF ControlInv
<1> QED BY <1>3, <1>5, <1>6, <1>7, <1>8, <1>9 DEF ControlInv

-----------------------------------------------------------------------------
(* The numbers from a + 1 to b, in order. *)
Run(a, b) == [i \in 1..(b - a) |-> a + i]

LEMMA RunFacts ==
  ASSUME NEW a \in Nat, NEW b \in Nat, a <= b
  PROVE  /\ Run(a, b) \in Seq(Nat) /\ Len(Run(a, b)) = b - a
         /\ ToSet(Run(a, b)) = (a + 1)..b
         /\ a = b => Run(a, b) = <<>>
         /\ Append(Run(a, b), b + 1) = Run(a, b + 1)
<1> DEFINE r == Run(a, b)
           t == Run(a, b + 1)
<1>1. /\ r \in Seq(Nat) /\ Len(r) = b - a /\ b - a \in Nat
      /\ \A i \in 1..(b - a) : r[i] = a + i
  BY DEF Run
<1>2. /\ t \in Seq(Nat) /\ Len(t) = (b - a) + 1
      /\ \A i \in 1..((b - a) + 1) : t[i] = a + i
  BY DEF Run
<1> HIDE DEF r, t
<1>3. ToSet(r) = (a + 1)..b
  <2>1. ToSet(r) = {r[i] : i \in 1..(b - a)}
    BY <1>1, LenProperties DEF ToSet
  <2>2. \A i \in 1..(b - a) : r[i] \in (a + 1)..b
    BY <1>1
  <2>3. ASSUME NEW x \in (a + 1)..b PROVE x \in {r[i] : i \in 1..(b - a)}
    <3>1. x - a \in 1..(b - a) /\ a + (x - a) = x
      OBVIOUS
    <3>2. r[x - a] = x
      BY <1>1, <3>1
    <3> QED BY <3>1, <3>2
  <2> QED BY <2>1, <2>2, <2>3
<1>4. a = b => r = <<>>
  BY <1>1, EmptySeq
<1>5. Append(r, b + 1) = t
  <2>1. /\ Append(r, b + 1) \in Seq(Nat) /\ Len(Append(r, b + 1)) = (b - a) + 1
        /\ \A i \in 1..(b - a) : Append(r, b + 1)[i] = r[i]
        /\ Append(r, b + 1)[(b - a) + 1] = b + 1
    BY <1>1, AppendProperties
  <2>2. ASSUME NEW i \in 1..((b - a) + 1) PROVE Append(r, b + 1)[i] = t[i]
    <3>1. CASE i \in 1..(b - a)
      BY <1>1, <1>2, <2>1, <3>1
    <3>2. CASE i = (b - a) + 1
      <4>1. a + i = b + 1
        BY <3>2
      <4> QED BY <1>2, <2>1, <3>2, <4>1
    <3> QED BY <1>1, <3>1, <3>2
  <2> QED BY <1>2, <2>1, <2>2, SeqEqual
<1> QED BY <1>1, <1>3, <1>4, <1>5 DEF r, t

(* The last packet a target has been given. *)
Waits(target) == at # 0 /\ \E k \in at..Len(targets) : targets[k] = target
Due(target) == IF Waits(target) THEN count - 1 ELSE count

LEMMA GivenIs ==
  ASSUME ControlInv, NEW target
  PROVE  /\ target \notin Registered => Given(target) = <<>>
         /\ target \in Registered =>
              /\ Given(target) = Run(since[target], Due(target))
              /\ since[target] \in Nat /\ Due(target) \in Nat /\ since[target] <= Due(target)
              /\ Due(target) <= count /\ (Waits(target) => Due(target) + 1 = count)
         /\ Given(target) \in Seq(Nat)
         /\ \A x \in ToSet(Given(target)) : x \in 1..count /\ (Waits(target) => x < count)
<1>1. Given(target) = IF target \in Registered THEN Run(since[target], Due(target)) ELSE <<>>
  BY DEF Given, Registered, Run, Due, Waits
<1>2. ASSUME target \in Registered
      PROVE  /\ since[target] \in Nat /\ Due(target) \in Nat /\ since[target] <= Due(target)
             /\ Due(target) <= count /\ (Waits(target) => Due(target) + 1 = count)
  <2>1. PICK k \in 1..Len(targets) : targets[k] = target
    BY <1>2, LenProperties DEF ControlInv, Registered, ToSet
  <2>2. since[target] \in Nat /\ count \in Nat
        /\ since[target] <= count /\ (at # 0 => since[target] < count)
    BY <2>1, ElementOfSeq DEF ControlInv
  <2>3. CASE Waits(target)
    <3>1. at # 0 /\ Due(target) = count - 1
      BY <2>3 DEF Waits, Due
    <3> QED BY <2>2, <2>3, <3>1
  <2>4. CASE ~Waits(target)
    <3>1. Due(target) = count
      BY <2>4 DEF Due
    <3> QED BY <2>2, <2>4, <3>1
  <2> QED BY <2>3, <2>4
<1>3. CASE target \in Registered
  <2>1. /\ Given(target) = Run(since[target], Due(target))
        /\ Given(target) \in Seq(Nat)
        /\ ToSet(Given(target)) = (since[target] + 1)..Due(target)
    BY <1>1, <1>2, <1>3, RunFacts
  <2>2. count \in Nat
    BY DEF ControlInv
  <2>3. \A x \in ToSet(Given(target)) : x \in 1..count /\ (Waits(target) => x < count)
    BY <1>2, <1>3, <2>1, <2>2
  <2> QED BY <1>2, <1>3, <2>1, <2>3
<1>4. CASE target \notin Registered
  <2>1. Given(target) = <<>>
    BY <1>1, <1>4
  <2>2. <<>> \in Seq(Nat) /\ ToSet(<<>>) = {}
    BY DEF ToSet
  <2> QED BY <1>4, <2>1, <2>2
<1> QED BY <1>3, <1>4

(* Nothing but the return of a write gives anybody anything. *)
LEMMA GivenKept ==
  ASSUME ControlInv, NEW target,
         Rests \/ Turns \/ (\E made : Registers(made)) \/ Starts
  PROVE  Given(target)' = Given(target)
<1>1. Given(target)' = IF target \in Registered'
                         THEN Run(since'[target], Due(target)') ELSE <<>>
  BY DEF Given, Registered, Run, Due, Waits
<1>2. CASE Rests \/ Turns
  <2>1. UNCHANGED <<targets, at, count, since>>
    BY <1>2 DEF Rests, Turns, mainVars
  <2> QED BY <2>1 DEF Given
<1>3. ASSUME NEW made, Registers(made) PROVE Given(target)' = Given(target)
  <2>1. /\ made \notin Registered /\ at = 0 /\ Registered' = Registered \cup {made}
        /\ made \in Targets
    BY <1>3, RegistersControl
  <2>2. /\ since' = [since EXCEPT ![made] = count] /\ count' = count /\ at' = at
        /\ since \in [Targets -> Nat] /\ count \in Nat
    BY <1>3 DEF Registers, Register, ControlInv
  <2>3. Due(target)' = count /\ Due(target) = count
    BY <2>1, <2>2 DEF Due, Waits
  <2>4. CASE target = made
    <3>1. since'[target] = count /\ Given(target) = <<>>
      BY <2>1, <2>2, <2>4, GivenIs
    <3>2. Run(count, count) = <<>>
      BY <2>2, RunFacts
    <3> QED BY <1>1, <2>3, <3>1, <3>2
  <2>5. CASE target # made /\ target \in Registered
    <3>1. target \in Targets
      BY <2>5, LenProperties, ElementOfSeq DEF ControlInv, Registered, ToSet
    <3>2. since'[target] = since[target]
      BY <2>2, <2>5, <3>1
    <3>3. Given(target) = Run(since[target], Due(target))
      BY <2>5, GivenIs
    <3> QED BY <1>1, <2>1, <2>3, <2>5, <3>2, <3>3
  <2>6. CASE target # made /\ target \notin Registered
    BY <1>1, <2>1, <2>6, GivenIs
  <2> QED BY <2>4, <2>5, <2>6
<1>4. CASE Starts
  <2>1. /\ at = 0 /\ count' = count + 1 /\ targets' = targets /\ since' = since
        /\ targets # <<>> => at' = 1
    BY <1>4 DEF Starts, Makes
  <2>2. Registered' = Registered /\ count \in Nat
    BY <2>1 DEF Registered, ControlInv
  <2>3. CASE target \in Registered
    <3>1. PICK k \in 1..Len(targets) : targets[k] = target
      BY <2>3, LenProperties DEF ControlInv, Registered, ToSet
    <3>2. targets # <<>>
      BY <3>1
    <3>3. Due(target)' = count
      BY <2>1, <2>2, <3>1, <3>2 DEF Due, Waits
    <3>4. Given(target) = Run(since[target], count)
      BY <2>1, <2>3, GivenIs DEF Due, Waits
    <3> QED BY <1>1, <2>1, <2>2, <2>3, <3>3, <3>4
  <2>4. CASE target \notin Registered
    BY <1>1, <2>2, <2>4, GivenIs
  <2> QED BY <2>3, <2>4
<1> QED BY <1>2, <1>3, <1>4

(* The return of a write: its target has been given one more packet. *)
LEMMA GivenGrows ==
  ASSUME ControlInv, NEW target, WritesTo(target), Returns
  PROVE  /\ Waits(target)
         /\ Given(target)' = Append(Given(target), count)
         /\ \A other : other # target => Given(other)' = Given(other)
<1>1. /\ pc = "running" /\ at # 0 /\ targets[at] = target
      /\ IF at >= Len(targets) THEN at' = 0 ELSE at' = at + 1
      /\ UNCHANGED <<targets, count, since>>
  BY DEF WritesTo, Returns, Advance, LastTarget, NextTarget
<1>2. /\ at \in 1..Len(targets) /\ Len(targets) \in Nat /\ count \in Nat
      /\ DOMAIN targets = 1..Len(targets)
      /\ \A a, b \in 1..Len(targets) : targets[a] = targets[b] => a = b
  <2>1. Len(targets) \in Nat /\ count \in Nat /\ DOMAIN targets = 1..Len(targets)
    BY LenProperties DEF ControlInv
  <2>2. at \in 0..Len(targets) /\ IsInjective(targets)
    BY DEF ControlInv
  <2>3. at \in 1..Len(targets)
    BY <1>1, <2>1, <2>2
  <2> QED BY <2>1, <2>2, <2>3 DEF IsInjective
<1>3. Registered' = Registered /\ target \in Registered /\ Waits(target)
  BY <1>1, <1>2 DEF Registered, ToSet, Waits
<1>4. \A t : Given(t)' = IF t \in Registered THEN Run(since[t], Due(t)') ELSE <<>>
  BY <1>1, <1>3 DEF Given, Registered, Run, Due, Waits
<1>5. ~Waits(target)' /\ Due(target)' = count
  <2>1. ~Waits(target)'
    <3>1. SUFFICES ASSUME at' # 0, NEW k \in at'..Len(targets), targets[k] = target
                   PROVE  FALSE
      BY <1>1 DEF Waits
    <3>2. at' = at + 1
      BY <1>1, <3>1
    <3>3. k \in 1..Len(targets) /\ k # at
      BY <1>2, <3>2
    <3> QED BY <1>1, <1>2, <3>1, <3>3
  <2> QED BY <1>1, <2>1 DEF Due
<1>6. Given(target)' = Append(Given(target), count)
  <2>1. /\ Given(target) = Run(since[target], Due(target))
        /\ since[target] \in Nat /\ Due(target) \in Nat /\ since[target] <= Due(target)
        /\ Due(target) + 1 = count
    BY <1>3, GivenIs
  <2>2. Append(Run(since[target], Due(target)), Due(target) + 1)
          = Run(since[target], Due(target) + 1)
    BY <2>1, RunFacts
  <2> QED BY <1>3, <1>4, <1>5, <2>1, <2>2
<1>7. ASSUME NEW other, other # target PROVE Given(other)' = Given(other)
  <2>1. Waits(other)' <=> Waits(other)
    <3>1. \A k \in at..Len(targets) : targets[k] = other => k \in (at + 1)..Len(targets)
      BY <1>1, <1>2, <1>7
    <3>2. \A k \in (at + 1)..Len(targets) : k \in at..Len(targets)
      BY <1>2
    <3>3. CASE at >= Len(targets)
      <4>1. at' = 0 /\ ~Waits(other)'
        BY <1>1, <3>3 DEF Waits
      <4>2. ~Waits(other)
        BY <1>2, <3>1, <3>3 DEF Waits
      <4> QED BY <4>1, <4>2
    <3>4. CASE ~(at >= Len(targets))
      <4>1. at' = at + 1 /\ at' # 0
        BY <1>1, <1>2, <3>4
      <4> QED BY <1>1, <3>1, <3>2, <4>1 DEF Waits
    <3> QED BY <3>3, <3>4
  <2>2. Due(other)' = Due(other)
    BY <1>1, <2>1 DEF Due
  <2> QED BY <1>3, <1>4, <2>2, GivenIs
<1> QED BY <1>3, <1>6, <1>7

-----------------------------------------------------------------------------
(* What each step does to main. *)
LEMMA StepKinds ==
  ASSUME [Next]_vars
  PROVE  \/ Rests \/ Turns \/ (\E made : Registers(made)) \/ Starts
         \/ \E target : WritesTo(target) /\ Returns
<1> USE DEF Rests, Turns, Registers, Starts, mainVars, Ended, AfterPrinting
<1>1. CASE MakePlain
  BY <1>1 DEF MakePlain, Makes, Broadcast
<1>2. CASE MakeFile \/ MakeUdp \/ ListenFails
  BY <1>2 DEF MakeFile, MakeUdp, ListenFails, Makes, Broadcast
<1>3. CASE Accept
  BY <1>3 DEF Accept, Broadcast
<1>4. CASE UnknownHost \/ Listen \/ BrokenPipe \/ NoContext \/ MainReturns
  BY <1>4 DEF UnknownHost, Listen, BrokenPipe, NoContext, MainReturns, Exit
<1>5. CASE StartBroadcast
  BY <1>5 DEF StartBroadcast
<1>6. CASE WriteStdio \/ WriteInfo \/ WriteFile \/ WriteUdp \/ WriteTcp \/ WriteOcv
  BY <1>6 DEF WriteStdio, WriteInfo, WriteFile, WriteUdp, WriteTcp, WriteOcv,
              WritesTo, Puts, Return, Returns
<1>7. CASE ClientReads \/ ClientLeaves \/ UNCHANGED vars
  BY <1>7 DEF ClientReads, ClientLeaves, vars
<1>8. CASE WriteReturns \/ ReaderLeft
  BY <1>8 DEF WriteReturns, ReaderLeft
<1> QED BY <1>1, <1>2, <1>3, <1>4, <1>5, <1>6, <1>7, <1>8 DEF Next, Main

LEMMA NextControl == ControlInv /\ [Next]_vars => ControlInv'
<1> SUFFICES ASSUME ControlInv, [Next]_vars PROVE ControlInv'
  OBVIOUS
<1>1. CASE \E target : WritesTo(target) /\ Returns
  BY <1>1, ReturnsControl
<1> QED BY <1>1, StepKinds, RestsControl, TurnsControl, RegistersControl, StartsControl

-----------------------------------------------------------------------------
(* The table shows each descriptor that a target has, and no other; a      *)
(* target that is not made yet has none.                                   *)
Holds ==
  \A fd \in 0..MaxFd :
    /\ table[fd] = "standard" <=> fd <= 2
    /\ table[fd] = "file" <=> fd = file_fd
    /\ table[fd] = "udp" <=> fd = udp_sd
    /\ table[fd] = "listener" <=> fd = tcp_sockfd
    /\ table[fd] = "connection" <=> fd = tcp_fd /\ client # "none"

AtEnd == {"returning"} \cup Ended

TableInv ==
  /\ table \in [0..MaxFd -> {"free", "standard", "file", "udp", "listener",
                             "connection"}]
  /\ file_fd \in -1..MaxFd /\ udp_sd \in -1..MaxFd
  /\ tcp_fd \in -1..MaxFd /\ tcp_sockfd \in -1..MaxFd
  /\ client \in {"none", "there", "gone"}
  /\ client # "none" => tcp_fd # -1
  /\ pc \notin AtEnd => Holds
  /\ "file" \notin Registered => file_fd = -1
  /\ "udp" \notin Registered => udp_sd = -1
  /\ "tcp_server" \notin Registered =>
       tcp_fd = -1 /\ client = "none" /\ (pc # "accepting" => tcp_sockfd = -1)
  /\ file_fd # -1 => program = "test_data_source"
  /\ udp_sd # -1 => program = "test_data_source_udp"
  /\ tcp_sockfd # -1 \/ client # "none" => program = "test_data_source_tcp_server"
  /\ OwnDescriptorsOnly

(* Steps that leave the descriptors alone. *)
LEMMA TableKept ==
  ASSUME TableInv, Registered \subseteq Registered',
         pc' \notin AtEnd => pc \notin AtEnd, pc = "accepting" => pc' = pc,
         pc' \in {"returning", "returned"} => pc \in {"returning", "returned"},
         UNCHANGED <<program, table, file_fd, udp_sd, tcp_fd, tcp_sockfd, client, misused>>
  PROVE  TableInv'
<1>1. UNCHANGED <<program, table, file_fd, udp_sd, tcp_fd, tcp_sockfd, client, misused>>
  OBVIOUS
<1>2. pc' \notin AtEnd => Holds'
  BY <1>1 DEF TableInv, AtEnd, Ended, Holds
<1>3. OwnDescriptorsOnly'
  BY <1>1 DEF TableInv, AtEnd, Ended, OwnDescriptorsOnly
<1>4. "tcp_server" \notin Registered' =>
        tcp_fd' = -1 /\ client' = "none" /\ (pc' # "accepting" => tcp_sockfd' = -1)
  BY <1>1 DEF TableInv, AtEnd, Ended
<1> QED BY <1>1, <1>2, <1>3, <1>4 DEF TableInv, AtEnd, Ended

(* The lowest free descriptor. *)
LEMMA LowestFree ==
  ASSUME NEW m \in 0..MaxFd, table[m] = "free",
         \A fd \in 0..MaxFd : table[fd] = "free" => m <= fd
  PROVE  FreeFd = m
<1> DEFINE S == {fd \in 0..MaxFd : table[fd] = "free"}
<1>1. m \in S /\ \A y \in S : m <= y
  OBVIOUS
<1>2. \A y \in S : y \in Int
  BY BoundsAssumption
<1>3. Min(S) = CHOOSE x \in S : \A y \in S : x <= y
  BY DEF Min
<1> HIDE DEF S
<1>4. Min(S) \in S /\ \A y \in S : Min(S) <= y
  BY <1>1, <1>3
<1>5. Min(S) = m
  <2>1. Min(S) <= m /\ m <= Min(S) /\ Min(S) \in Int /\ m \in Int
    BY <1>1, <1>2, <1>4
  <2> QED BY <2>1
<1> QED BY <1>5 DEF FreeFd, S

(* A new descriptor, when the process has none yet or only a listener. *)
LEMMA NewDescriptor ==
  ASSUME TableInv, pc \notin AtEnd, file_fd = -1, udp_sd = -1, client = "none",
         NEW kind
  PROVE  /\ FreeFd \in 3..MaxFd /\ table[FreeFd] = "free"
         /\ Opened(kind)[FreeFd] = kind
         /\ \A fd \in 0..MaxFd : fd # FreeFd => Opened(kind)[fd] = table[fd]
         /\ DOMAIN Opened(kind) = 0..MaxFd
<1>1. MaxFd \in Nat /\ MaxFd > 4 /\ 3 \in 0..MaxFd /\ 4 \in 0..MaxFd
  BY BoundsAssumption
<1>2. /\ DOMAIN table = 0..MaxFd
      /\ \A fd \in 0..MaxFd :
           table[fd] \in {"free", "standard", "file", "udp", "listener", "connection"}
  BY DEF TableInv, AtEnd, Ended
<1>3. \A fd \in 0..MaxFd : table[fd] = "free" <=> fd > 2 /\ fd # tcp_sockfd
  <2>1. \A fd \in 0..MaxFd : fd # -1
    BY <1>1
  <2>2. Holds
    BY DEF TableInv, AtEnd, Ended
  <2> QED BY <1>1, <1>2, <2>1, <2>2 DEF Holds
<1>4. FreeFd \in 3..MaxFd /\ table[FreeFd] = "free"
  <2>1. CASE tcp_sockfd = 3
    <3>1. table[4] = "free" /\ \A fd \in 0..MaxFd : table[fd] = "free" => 4 <= fd
      BY <1>1, <1>3, <2>1
    <3> QED BY <1>1, <3>1, LowestFree
  <2>2. CASE tcp_sockfd # 3
    <3>1. table[3] = "free" /\ \A fd \in 0..MaxFd : table[fd] = "free" => 3 <= fd
      BY <1>1, <1>3, <2>2
    <3> QED BY <1>1, <3>1, LowestFree
  <2> QED BY <2>1, <2>2
<1>5. FreeFd \in 0..MaxFd
  BY <1>1, <1>4
<1> QED BY <1>2, <1>4, <1>5 DEF Opened

(* Which program main is that of, by what it makes. *)
LEMMA OnlyProgram ==
  ASSUME ControlInv
  PROVE  /\ Makes("file") => program = "test_data_source"
         /\ Makes("udp") => program = "test_data_source_udp"
         /\ Makes("tcp_server") \/ pc = "accepting" => program = "test_data_source_tcp_server"
<1>1. program \in DOMAIN Script
  BY DEF ControlInv
<1>2. ASSUME NEW target \in {"file", "udp", "tcp_server"}, Makes(target)
      PROVE  step \in 1..Len(Script[program]) /\ Script[program][step] = target
  BY <1>2, CurrentStep DEF Current
<1>3. pc = "accepting" =>
        step \in 1..Len(Script[program]) /\ Script[program][step] = "tcp_server"
  <2>1. Len(Script[program]) \in Nat
    BY <1>1, ScriptFacts
  <2>2. step \in 1..(Len(Script[program]) + 1)
    BY DEF ControlInv
  <2>3. pc = "accepting" => step <= Len(Script[program]) /\ Current = "tcp_server"
    BY DEF ControlInv
  <2> QED BY <2>1, <2>2, <2>3 DEF Current
<1> QED BY <1>1, <1>2, <1>3, ScriptFacts

(* Opening the file, the UDP socket, the listener and the connection. *)
LEMMA TableMakesFile == ControlInv /\ TableInv /\ MakeFile => TableInv'
<1> SUFFICES ASSUME ControlInv, TableInv, MakeFile PROVE TableInv'
  OBVIOUS
<1>1. /\ Makes("file") /\ Register("file") /\ pc' = pc /\ pc = "running"
      /\ UNCHANGED <<program, at, count, udp_sd, tcp_fd, tcp_sockfd, client, misused>>
  BY DEF MakeFile, Makes, sinkVars
<1>2. Registers("file")
  BY <1>1 DEF Registers, Broadcast
<1>3. "file" \notin Registered /\ Registered' = Registered \cup {"file"}
  BY <1>2, RegistersControl
<1>4. program = "test_data_source"
  BY <1>1, OnlyProgram
<1>5. file_fd = -1 /\ udp_sd = -1 /\ tcp_sockfd = -1 /\ client = "none"
  BY <1>3, <1>4 DEF TableInv, AtEnd, Ended
<1>6. OwnDescriptorsOnly'
  BY <1>1 DEF TableInv, AtEnd, Ended, OwnDescriptorsOnly
<1>7. CASE file_fd' = -1 /\ table' = table
  <2>1. Holds'
    BY <1>1, <1>5, <1>7 DEF TableInv, AtEnd, Ended, Holds
  <2> QED BY <1>1, <1>3, <1>4, <1>5, <1>6, <1>7, <2>1 DEF TableInv, AtEnd, Ended
<1>8. CASE file_fd' = FreeFd /\ table' = Opened("file")
  <2>1. /\ file_fd' \in 3..MaxFd /\ table[file_fd'] = "free" /\ table'[file_fd'] = "file"
        /\ \A fd \in 0..MaxFd : fd # file_fd' => table'[fd] = table[fd]
    BY <1>1, <1>5, <1>8, NewDescriptor DEF AtEnd, Ended
  <2>2. /\ file_fd' \in -1..MaxFd /\ file_fd' \in 0..MaxFd /\ file_fd' > 2
        /\ \A fd \in 0..MaxFd : fd # -1
    BY <2>1, BoundsAssumption
  <2>3. table' \in [0..MaxFd -> {"free", "standard", "file", "udp", "listener",
                                 "connection"}]
    BY <1>8 DEF TableInv, AtEnd, Ended, Opened
  <2>4. Holds'
    <3>1. Holds
      BY <1>1 DEF TableInv, AtEnd, Ended
    <3>2. ~(file_fd' <= 2)
      BY <2>1, BoundsAssumption
    <3> QED BY <1>1, <1>5, <2>1, <2>2, <3>1, <3>2 DEF Holds
  <2> QED BY <1>1, <1>3, <1>4, <1>5, <1>6, <2>2, <2>3, <2>4 DEF TableInv, AtEnd, Ended
<1> QED BY <1>7, <1>8 DEF MakeFile

LEMMA TableMakesUdp == ControlInv /\ TableInv /\ MakeUdp => TableInv'
<1> SUFFICES ASSUME ControlInv, TableInv, MakeUdp PROVE TableInv'
  OBVIOUS
<1>1. /\ Makes("udp") /\ Register("udp") /\ pc' = pc /\ pc = "running"
      /\ UNCHANGED <<program, at, count, file_fd, tcp_fd, tcp_sockfd, client, misused>>
  BY DEF MakeUdp, Makes, sinkVars
<1>2. Registers("udp")
  BY <1>1 DEF Registers, Broadcast
<1>3. "udp" \notin Registered /\ Registered' = Registered \cup {"udp"}
  BY <1>2, RegistersControl
<1>4. program = "test_data_source_udp"
  BY <1>1, OnlyProgram
<1>5. file_fd = -1 /\ udp_sd = -1 /\ tcp_sockfd = -1 /\ client = "none"
  BY <1>3, <1>4 DEF TableInv, AtEnd, Ended
<1>6. OwnDescriptorsOnly'
  BY <1>1 DEF TableInv, AtEnd, Ended, OwnDescriptorsOnly
<1>7. CASE udp_sd' = -1 /\ table' = table
  <2>1. Holds'
    BY <1>1, <1>5, <1>7 DEF TableInv, AtEnd, Ended, Holds
  <2> QED BY <1>1, <1>3, <1>4, <1>5, <1>6, <1>7, <2>1 DEF TableInv, AtEnd, Ended
<1>8. CASE udp_sd' = FreeFd /\ table' = Opened("udp")
  <2>1. /\ udp_sd' \in 3..MaxFd /\ table[udp_sd'] = "free" /\ table'[udp_sd'] = "udp"
        /\ \A fd \in 0..MaxFd : fd # udp_sd' => table'[fd] = table[fd]
    BY <1>1, <1>5, <1>8, NewDescriptor DEF AtEnd, Ended
  <2>2. /\ udp_sd' \in -1..MaxFd /\ udp_sd' \in 0..MaxFd
        /\ \A fd \in 0..MaxFd : fd # -1
    BY <2>1, BoundsAssumption
  <2>3. table' \in [0..MaxFd -> {"free", "standard", "file", "udp", "listener",
                                 "connection"}]
    BY <1>8 DEF TableInv, AtEnd, Ended, Opened
  <2>4. Holds'
    <3>1. Holds
      BY <1>1 DEF TableInv, AtEnd, Ended
    <3>2. ~(udp_sd' <= 2)
      BY <2>1, BoundsAssumption
    <3> QED BY <1>1, <1>5, <2>1, <2>2, <3>1, <3>2 DEF Holds
  <2> QED BY <1>1, <1>3, <1>4, <1>5, <1>6, <2>2, <2>3, <2>4 DEF TableInv, AtEnd, Ended
<1> QED BY <1>7, <1>8 DEF MakeUdp

(* The listener, whether accept comes next or there is nothing to accept on. *)
LEMMA TableListens ==
  ASSUME TableInv, program = "test_data_source_tcp_server", pc \notin AtEnd,
         tcp_sockfd = -1,
         client = "none", UNCHANGED <<file_fd, udp_sd, client>>,
         \/ tcp_sockfd' = -1 /\ UNCHANGED table
         \/ tcp_sockfd' = FreeFd /\ table' = Opened("listener")
  PROVE  /\ Holds' /\ tcp_sockfd' \in -1..MaxFd
         /\ table' \in [0..MaxFd -> {"free", "standard", "file", "udp", "listener",
                                     "connection"}]
<1>1. file_fd = -1 /\ udp_sd = -1 /\ Holds
  BY DEF TableInv, AtEnd, Ended
<1>2. CASE tcp_sockfd' = -1 /\ table' = table
  <2>1. Holds'
    BY <1>1, <1>2 DEF Holds
  <2> QED BY <1>2, <2>1 DEF TableInv, AtEnd, Ended
<1>3. CASE tcp_sockfd' = FreeFd /\ table' = Opened("listener")
  <2>1. /\ tcp_sockfd' \in 3..MaxFd /\ table[tcp_sockfd'] = "free"
        /\ table'[tcp_sockfd'] = "listener"
        /\ \A fd \in 0..MaxFd : fd # tcp_sockfd' => table'[fd] = table[fd]
    BY <1>1, <1>3, NewDescriptor
  <2>2. /\ tcp_sockfd' \in -1..MaxFd /\ tcp_sockfd' \in 0..MaxFd
        /\ \A fd \in 0..MaxFd : fd # -1
    BY <2>1, BoundsAssumption
  <2>3. ~(tcp_sockfd' <= 2)
    BY <2>1, BoundsAssumption
  <2>4. Holds'
    BY <1>1, <2>1, <2>2, <2>3 DEF Holds
  <2>5. table' \in [0..MaxFd -> {"free", "standard", "file", "udp", "listener",
                                 "connection"}]
    BY <1>3 DEF TableInv, AtEnd, Ended, Opened
  <2> QED BY <2>2, <2>4, <2>5
<1> QED BY <1>2, <1>3

LEMMA TableListen == ControlInv /\ TableInv /\ Listen => TableInv'
<1> SUFFICES ASSUME ControlInv, TableInv, Listen PROVE TableInv'
  OBVIOUS
<1>1. /\ Makes("tcp_server") /\ pc = "running" /\ pc' = "accepting"
      /\ tcp_sockfd' = FreeFd /\ table' = Opened("listener")
      /\ UNCHANGED <<program, targets, file_fd, udp_sd, tcp_fd, client, misused>>
  BY DEF Listen, Makes, sinkVars
<1>2. "tcp_server" \notin Registered /\ Registered' = Registered
  BY <1>1, CurrentStep DEF Registered, Broadcast
<1>3. program = "test_data_source_tcp_server"
  BY <1>1, OnlyProgram
<1>4. tcp_fd = -1 /\ client = "none" /\ tcp_sockfd = -1
  BY <1>1, <1>2 DEF TableInv, AtEnd, Ended
<1>5. /\ Holds' /\ tcp_sockfd' \in -1..MaxFd
      /\ table' \in [0..MaxFd -> {"free", "standard", "file", "udp", "listener",
                                  "connection"}]
  BY <1>1, <1>3, <1>4, TableListens DEF AtEnd, Ended
<1>6. OwnDescriptorsOnly'
  BY <1>1, <1>4 DEF TableInv, AtEnd, Ended, OwnDescriptorsOnly
<1> QED BY <1>1, <1>2, <1>3, <1>4, <1>5, <1>6 DEF TableInv, AtEnd, Ended

LEMMA TableListenFails == ControlInv /\ TableInv /\ ListenFails => TableInv'
<1> SUFFICES ASSUME ControlInv, TableInv, ListenFails PROVE TableInv'
  OBVIOUS
<1>1. /\ Makes("tcp_server") /\ Register("tcp_server") /\ pc = "running" /\ pc' = pc
      /\ tcp_fd' \in -1..MaxFd
      /\ \/ tcp_sockfd' = -1 /\ UNCHANGED table
         \/ tcp_sockfd' = FreeFd /\ table' = Opened("listener")
      /\ UNCHANGED <<program, at, count, file_fd, udp_sd, client, misused>>
  BY DEF ListenFails, Makes, sinkVars
<1>2. Registers("tcp_server")
  BY <1>1 DEF Registers, Broadcast
<1>3. "tcp_server" \notin Registered /\ Registered' = Registered \cup {"tcp_server"}
  BY <1>2, RegistersControl
<1>4. program = "test_data_source_tcp_server"
  BY <1>1, OnlyProgram
<1>5. tcp_fd = -1 /\ client = "none" /\ tcp_sockfd = -1
  BY <1>1, <1>3 DEF TableInv, AtEnd, Ended
<1>6. /\ Holds' /\ tcp_sockfd' \in -1..MaxFd
      /\ table' \in [0..MaxFd -> {"free", "standard", "file", "udp", "listener",
                                  "connection"}]
  BY <1>1, <1>4, <1>5, TableListens DEF AtEnd, Ended
<1>7. OwnDescriptorsOnly'
  BY <1>1, <1>5 DEF TableInv, AtEnd, Ended, OwnDescriptorsOnly
<1> QED BY <1>1, <1>3, <1>4, <1>5, <1>6, <1>7 DEF TableInv, AtEnd, Ended

LEMMA TableAccepts == ControlInv /\ TableInv /\ Accept => TableInv'
<1> SUFFICES ASSUME ControlInv, TableInv, Accept PROVE TableInv'
  OBVIOUS
<1>1. /\ pc = "accepting" /\ pc' = "running" /\ Register("tcp_server")
      /\ \/ tcp_fd' = FreeFd /\ table' = Opened("connection") /\ client' = "there"
         \/ tcp_fd' = -1 /\ UNCHANGED <<table, client>>
      /\ UNCHANGED <<program, at, count, file_fd, udp_sd, tcp_sockfd, misused>>
  BY DEF Accept
<1>2. Registers("tcp_server")
  BY <1>1 DEF Registers, Broadcast
<1>3. "tcp_server" \notin Registered /\ Registered' = Registered \cup {"tcp_server"}
  BY <1>2, RegistersControl
<1>4. program = "test_data_source_tcp_server"
  BY <1>1, OnlyProgram
<1>5. tcp_fd = -1 /\ client = "none" /\ file_fd = -1 /\ udp_sd = -1 /\ Holds
  BY <1>1, <1>3, <1>4 DEF TableInv, AtEnd, Ended
<1>6. OwnDescriptorsOnly'
  BY <1>1, <1>5 DEF TableInv, AtEnd, Ended, OwnDescriptorsOnly
<1>7. CASE tcp_fd' = -1 /\ table' = table /\ client' = client
  <2>1. Holds'
    BY <1>1, <1>5, <1>7 DEF Holds
  <2> QED BY <1>1, <1>3, <1>4, <1>5, <1>6, <1>7, <2>1 DEF TableInv, AtEnd, Ended
<1>8. CASE tcp_fd' = FreeFd /\ table' = Opened("connection") /\ client' = "there"
  <2>1. /\ tcp_fd' \in 3..MaxFd /\ table[tcp_fd'] = "free" /\ table'[tcp_fd'] = "connection"
        /\ \A fd \in 0..MaxFd : fd # tcp_fd' => table'[fd] = table[fd]
    BY <1>1, <1>5, <1>8, NewDescriptor DEF AtEnd, Ended
  <2>2. tcp_fd' \in -1..MaxFd /\ tcp_fd' # -1 /\ tcp_fd' \in 0..MaxFd /\ ~(tcp_fd' <= 2)
    BY <2>1, BoundsAssumption
  <2>3. table' \in [0..MaxFd -> {"free", "standard", "file", "udp", "listener",
                                 "connection"}]
    BY <1>8 DEF TableInv, AtEnd, Ended, Opened
  <2>4. Holds'
    BY <1>1, <1>5, <1>8, <2>1, <2>2 DEF Holds
  <2> QED BY <1>1, <1>3, <1>4, <1>5, <1>6, <1>8, <2>2, <2>3, <2>4 DEF TableInv, AtEnd, Ended
<1> QED BY <1>1, <1>7, <1>8

(* No call of a write is on a descriptor of another kind. *)
LEMMA NoStray ==
  ASSUME TableInv, pc \notin AtEnd
  PROVE  /\ \A target : Stray(target, file_fd, "file") = {}
         /\ \A target : Stray(target, udp_sd, "udp") = {}
         /\ \A target : Stray(target, tcp_sockfd, "listener") = {}
         /\ tcp_fd = -1 \/ client # "none" =>
              \A target : Stray(target, tcp_fd, "connection") = {}
<1>1. Holds /\ -1 \notin 0..MaxFd
  BY BoundsAssumption DEF TableInv, AtEnd, Ended
<1> QED BY <1>1 DEF Holds, Stray

LEMMA TableWritesFile == TableInv /\ WriteFile => TableInv'
<1> SUFFICES ASSUME TableInv, WriteFile PROVE TableInv'
  OBVIOUS
<1>1. /\ pc = "running" /\ misused' = misused \cup Stray("file", file_fd, "file")
      /\ UNCHANGED <<program, pc, targets, table, file_fd, udp_sd, tcp_fd, tcp_sockfd,
                     client>>
  BY DEF WriteFile, WritesTo, Return, Advance, memberVars
<1>2. misused' = misused
  BY <1>1, NoStray DEF AtEnd, Ended
<1>3. Registered \subseteq Registered'
  BY <1>1 DEF Registered
<1> QED BY <1>1, <1>2, <1>3, TableKept

LEMMA TableWritesUdp == TableInv /\ WriteUdp => TableInv'
<1> SUFFICES ASSUME TableInv, WriteUdp PROVE TableInv'
  OBVIOUS
<1>1. /\ pc = "running" /\ misused' = misused \cup Stray("udp", udp_sd, "udp")
      /\ pc' \in {"running", "writing"}
      /\ UNCHANGED <<program, targets, file_fd, tcp_fd, tcp_sockfd, client>>
      /\ \/ UNCHANGED <<udp_sd, table>>
         \/ udp_sd' = -1 /\ table' = Without({udp_sd})
  BY DEF WriteUdp, WritesTo, Advance, Puts, AfterSendFails
<1>2. misused' = misused
  BY <1>1, NoStray DEF AtEnd, Ended
<1>3. Registered' = Registered
  BY <1>1 DEF Registered
<1>4. CASE UNCHANGED <<udp_sd, table>>
  BY <1>1, <1>2, <1>3, <1>4, TableKept DEF AtEnd, Ended
<1>5. CASE udp_sd' = -1 /\ table' = Without({udp_sd})
  <2>1. Holds /\ -1 \notin 0..MaxFd
    BY <1>1, BoundsAssumption DEF TableInv, AtEnd, Ended
  <2>2. \A fd \in 0..MaxFd : table'[fd] = IF fd = udp_sd THEN "free" ELSE table[fd]
    BY <1>5 DEF Without
  <2>3. Holds'
    BY <1>1, <1>5, <2>1, <2>2 DEF Holds
  <2>4. table' \in [0..MaxFd -> {"free", "standard", "file", "udp", "listener",
                                 "connection"}]
    BY <1>5 DEF TableInv, AtEnd, Ended, Without
  <2>5. OwnDescriptorsOnly'
    BY <1>1, <1>2 DEF TableInv, AtEnd, Ended, OwnDescriptorsOnly
  <2> QED BY <1>1, <1>3, <1>5, <2>3, <2>4, <2>5 DEF TableInv, AtEnd, Ended
<1> QED BY <1>1, <1>4, <1>5

LEMMA TableWritesTcp == TableInv /\ WriteTcp => TableInv'
<1> SUFFICES ASSUME TableInv, WriteTcp PROVE TableInv'
  OBVIOUS
<1>1. /\ pc = "running" /\ misused' = misused \cup Stray("tcp_server", tcp_fd, "connection")
      /\ UNCHANGED <<program, pc, targets, table, file_fd, udp_sd, tcp_fd, tcp_sockfd,
                     client>>
  BY DEF WriteTcp, WritesTo, Return, Advance, memberVars
<1>2. OwnDescriptorsOnly'
  <2>1. tcp_fd = -1 \/ client # "none" => misused' = misused
    BY <1>1, NoStray DEF AtEnd, Ended
  <2> QED BY <1>1, <2>1 DEF TableInv, AtEnd, Ended, OwnDescriptorsOnly
<1>3. Registered' = Registered /\ (Holds => Holds')
  BY <1>1 DEF Registered, Holds
<1> QED BY <1>1, <1>2, <1>3 DEF TableInv, AtEnd, Ended

LEMMA TableLeaves == TableInv /\ ClientLeaves => TableInv'
<1> SUFFICES ASSUME TableInv, ClientLeaves PROVE TableInv'
  OBVIOUS
<1>1. /\ client = "there" /\ client' = "gone"
      /\ UNCHANGED <<program, pc, targets, table, file_fd, udp_sd, tcp_fd, tcp_sockfd,
                     misused>>
  BY DEF ClientLeaves, mainVars, memberVars
<1>2. OwnDescriptorsOnly'
  BY <1>1 DEF TableInv, AtEnd, Ended, OwnDescriptorsOnly
<1>3. Registered' = Registered /\ (Holds => Holds')
  BY <1>1 DEF Registered, Holds
<1> QED BY <1>1, <1>2, <1>3 DEF TableInv, AtEnd, Ended

(* The destructors leave the table as it was when main began. *)
LEMMA TableReturns == TableInv /\ MainReturns => TableInv'
<1> SUFFICES ASSUME TableInv, MainReturns PROVE TableInv'
  OBVIOUS
<1>1. /\ pc = "running" /\ pc' = "returning"
      /\ table' = Without({file_fd, udp_sd, tcp_fd, tcp_sockfd})
      /\ misused' = misused \cup Stray("file", file_fd, "file")
                            \cup Stray("udp", udp_sd, "udp")
                            \cup Stray("tcp_server", tcp_fd, "connection")
                            \cup Stray("tcp_server", tcp_sockfd, "listener")
      /\ UNCHANGED <<program, targets, file_fd, udp_sd, tcp_fd, tcp_sockfd, client>>
  BY DEF MainReturns, sinkVars
<1>2. Registered' = Registered /\ Holds
  BY <1>1 DEF Registered, TableInv, AtEnd, Ended
<1>3. ASSUME tcp_fd = -1 \/ client # "none"
      PROVE  misused' = {} /\ table' = [fd \in 0..MaxFd |-> IF fd <= 2 THEN "standard" ELSE "free"]
  <2>1. misused' = {}
    BY <1>1, <1>3, NoStray DEF TableInv, AtEnd, Ended, OwnDescriptorsOnly
  <2>2. ASSUME NEW fd \in 0..MaxFd
        PROVE  table'[fd] = IF fd <= 2 THEN "standard" ELSE "free"
    <3>1. table'[fd] = IF fd \in {file_fd, udp_sd, tcp_fd, tcp_sockfd} THEN "free" ELSE table[fd]
      BY <1>1 DEF Without
    <3>2. table[fd] \in {"free", "standard", "file", "udp", "listener", "connection"}
      BY DEF TableInv, AtEnd, Ended
    <3>3. fd # -1
      BY BoundsAssumption
    <3>4. fd = tcp_fd => client # "none"
      BY <1>3, <3>3
    <3>5. /\ table[fd] = "standard" <=> fd <= 2
          /\ table[fd] = "file" <=> fd = file_fd
          /\ table[fd] = "udp" <=> fd = udp_sd
          /\ table[fd] = "listener" <=> fd = tcp_sockfd
          /\ table[fd] = "connection" <=> fd = tcp_fd
      BY <1>2, <3>4 DEF Holds
    <3>6. CASE fd <= 2
      <4>1. table[fd] = "standard" /\ fd \notin {file_fd, udp_sd, tcp_fd, tcp_sockfd}
        BY <3>5, <3>6
      <4> QED BY <3>1, <3>6, <4>1
    <3>7. CASE ~(fd <= 2)
      BY <3>1, <3>2, <3>5, <3>7
    <3> QED BY <3>6, <3>7
  <2>3. table' = [fd \in 0..MaxFd |-> table'[fd]]
    BY <1>1 DEF Without
  <2> QED BY <2>1, <2>2, <2>3
<1>4. OwnDescriptorsOnly'
  BY <1>1, <1>3 DEF OwnDescriptorsOnly
<1>5. table' \in [0..MaxFd -> {"free", "standard", "file", "udp", "listener",
                               "connection"}]
  BY <1>1 DEF TableInv, AtEnd, Ended, Without
<1> QED BY <1>1, <1>2, <1>4, <1>5 DEF TableInv, AtEnd, Ended

LEMMA NextTable ==
  ASSUME ControlInv, TableInv, [Next]_vars
  PROVE  TableInv'
<1> USE DEF mainVars, memberVars, sinkVars, printVars
<1>1. CASE MakePlain
  <2>1. PICK target : Makes(target) /\ Register(target)
                      /\ target \in {"stdio", "stdio_info", "ocv_avcodec"}
                      /\ UNCHANGED <<program, pc, at, count, memberVars, sinkVars, misused>>
    BY <1>1 DEF MakePlain
  <2>2. Registers(target)
    BY <2>1 DEF Registers, Makes, Broadcast
  <2>3. Registered \subseteq Registered'
    BY <2>2, RegistersControl
  <2> QED BY <2>1, <2>3, TableKept
<1>2. CASE UnknownHost \/ BrokenPipe \/ NoContext
  <2>1. /\ pc = "running" /\ pc' \in {"exiting", "killed"}
        /\ UNCHANGED <<program, targets, memberVars, client, misused>>
    BY <1>2 DEF UnknownHost, BrokenPipe, NoContext, Exit, Makes, WritesTo
  <2>2. Registered \subseteq Registered'
    BY <2>1 DEF Registered
  <2> QED BY <2>1, <2>2, TableKept DEF AtEnd, Ended
<1>3. CASE WriteReturns \/ ReaderLeft
  <2>1. /\ pc \in {"writing", "exiting", "returning"}
        /\ pc' = (CASE pc = "writing" -> "running" [] pc = "exiting" -> "exited"
                    [] pc = "returning" -> "returned") \/ pc' = "killed"
        /\ UNCHANGED <<program, targets, memberVars, client, misused>>
    BY <1>3 DEF WriteReturns, ReaderLeft, AfterPrinting
  <2>2. Registered \subseteq Registered'
    BY <2>1 DEF Registered
  <2> QED BY <2>1, <2>2, TableKept DEF AtEnd, Ended
<1>4. CASE StartBroadcast \/ WriteStdio \/ WriteInfo \/ WriteOcv
  <2>1. /\ pc = "running" /\ pc' \in {"running", "writing"}
        /\ UNCHANGED <<program, targets, table, file_fd, udp_sd, tcp_fd, tcp_sockfd,
                       client, misused>>
    BY <1>4 DEF StartBroadcast, Makes, WriteStdio, WriteInfo, WriteOcv, WritesTo,
                Return, Advance, Puts
  <2>2. Registered \subseteq Registered'
    BY <2>1 DEF Registered
  <2> QED BY <2>1, <2>2, TableKept DEF AtEnd, Ended
<1>5. CASE ClientReads \/ UNCHANGED vars
  <2>1. UNCHANGED <<program, pc, targets, table, file_fd, udp_sd, tcp_fd, tcp_sockfd,
                    client, misused>>
    BY <1>5 DEF ClientReads, vars
  <2>2. Registered \subseteq Registered'
    BY <2>1 DEF Registered
  <2> QED BY <2>1, <2>2, TableKept
<1> QED BY <1>1, <1>2, <1>3, <1>4, <1>5, TableMakesFile, TableMakesUdp, TableListen,
           TableListenFails, TableAccepts, TableWritesFile, TableWritesUdp,
           TableWritesTcp, TableLeaves, TableReturns DEF Next, Main

-----------------------------------------------------------------------------
(* Prefixes. *)
LEMMA PrefixIs ==
  ASSUME NEW S, NEW s \in Seq(S), NEW t \in Seq(S)
  PROVE  IsPrefix(s, t) <=> Len(s) <= Len(t) /\ \A i \in 1..Len(s) : s[i] = t[i]
<1>1. Len(s) \in Nat /\ Len(t) \in Nat /\ SubSeq(s, 1, Len(s)) = s
  BY LenProperties, SubSeqFull
<1>2. ASSUME Len(s) <= Len(t)
      PROVE  (s = SubSeq(t, 1, Len(s))) <=> \A i \in 1..Len(s) : s[i] = t[i]
  <2>1. \A i \in 1..Len(s) : t[i] \in S
    BY <1>1, <1>2, ElementOfSeq
  <2>2. /\ SubSeq(t, 1, Len(s)) \in Seq(S)
        /\ \A i \in 1..(Len(s) - 1 + 1) : SubSeq(t, 1, Len(s))[i] = t[1 + i - 1]
        /\ Len(SubSeq(t, 1, Len(s))) = IF 1 <= Len(s) THEN Len(s) - 1 + 1 ELSE 0
    BY <1>1, <2>1, SubSeqProperties
  <2>3. /\ Len(SubSeq(t, 1, Len(s))) = Len(s)
        /\ \A i \in 1..Len(s) : SubSeq(t, 1, Len(s))[i] = t[i]
    BY <1>1, <2>2
  <2> QED BY <2>2, <2>3, SeqEqual
<1> QED BY <1>1, <1>2 DEF IsPrefix

LEMMA PrefixFacts ==
  ASSUME NEW S, NEW s \in Seq(S), NEW t \in Seq(S)
  PROVE  /\ IsPrefix(s, s) /\ IsPrefix(<<>>, s)
         /\ IsPrefix(s, <<>>) => s = <<>>
         /\ IsPrefix(s, t) => \A x \in S : IsPrefix(s, Append(t, x))
         /\ IsPrefix(s \o t, s) => t = <<>>
         /\ \A u \in Seq(S) : IsPrefix(s \o t, u) => IsPrefix(s, u)
<1>1. Len(s) \in Nat /\ Len(t) \in Nat /\ <<>> \in Seq(S) /\ Len(<<>>) = 0
  BY LenProperties, EmptySeq
<1>2. IsPrefix(s, s) /\ IsPrefix(<<>>, s)
  <2>1. IsPrefix(s, s)
    BY <1>1 DEF IsPrefix
  <2>2. Len(<<>>) <= Len(s) /\ \A i \in 1..Len(<<>>) : <<>>[i] = s[i]
    BY <1>1
  <2>3. IsPrefix(<<>>, s)
    <3>1. SubSeq(<<>>, 1, 0) = <<>> /\ SubSeq(s, 1, 0) = <<>>
      BY SubSeqEmpty
    <3> QED BY <1>1, <2>2, <3>1 DEF IsPrefix
  <2> QED BY <2>1, <2>3
<1>3. IsPrefix(s, <<>>) => s = <<>>
  <2>1. IsPrefix(s, <<>>) => Len(s) <= Len(<<>>)
    BY DEF IsPrefix
  <2>2. IsPrefix(s, <<>>) => Len(s) = 0
    BY <1>1, <2>1
  <2> QED BY <2>2, EmptySeq
<1>4. ASSUME IsPrefix(s, t), NEW x \in S PROVE IsPrefix(s, Append(t, x))
  <2>1. /\ Append(t, x) \in Seq(S) /\ Len(Append(t, x)) = Len(t) + 1
        /\ \A i \in 1..Len(t) : Append(t, x)[i] = t[i]
    BY AppendProperties
  <2>2. Len(s) <= Len(t) /\ \A i \in 1..Len(s) : s[i] = t[i]
    BY <1>4, PrefixIs
  <2>3. Len(s) <= Len(Append(t, x)) /\ \A i \in 1..Len(s) : i \in 1..Len(t)
    BY <1>1, <2>1, <2>2
  <2>4. \A i \in 1..Len(s) : s[i] = Append(t, x)[i]
    BY <2>1, <2>2, <2>3
  <2> QED BY <2>1, <2>3, <2>4, PrefixIs
<1>5. /\ s \o t \in Seq(S) /\ Len(s \o t) = Len(s) + Len(t)
      /\ \A i \in 1..Len(s) : i \in 1..Len(s \o t) /\ (s \o t)[i] = s[i]
  BY <1>1, ConcatProperties
<1>6. ASSUME IsPrefix(s \o t, s) PROVE t = <<>>
  <2>1. Len(s \o t) <= Len(s)
    BY <1>5, <1>6, PrefixIs
  <2>2. Len(t) = 0
    BY <1>1, <1>5, <2>1
  <2> QED BY <2>2, EmptySeq
<1>7. ASSUME NEW u \in Seq(S), IsPrefix(s \o t, u) PROVE IsPrefix(s, u)
  <2>1. Len(s \o t) <= Len(u) /\ \A i \in 1..Len(s \o t) : (s \o t)[i] = u[i]
    <3> DEFINE st == s \o t
    <3>1. st \in Seq(S) /\ IsPrefix(st, u)
      BY <1>5, <1>7
    <3> HIDE DEF st
    <3>2. Len(st) <= Len(u) /\ \A i \in 1..Len(st) : st[i] = u[i]
      BY <3>1, PrefixIs
    <3> QED BY <3>2 DEF st
  <2>2. Len(u) \in Nat
    BY LenProperties
  <2>3. Len(s) <= Len(u)
    BY <1>1, <1>5, <2>1, <2>2
  <2>4. \A i \in 1..Len(s) : s[i] = u[i]
    BY <1>5, <2>1
  <2> QED BY <2>3, <2>4, PrefixIs
<1> QED BY <1>2, <1>3, <1>4, <1>6, <1>7

LEMMA MembersOfAppend ==
  ASSUME NEW S, NEW s \in Seq(S), NEW x \in S
  PROVE  ToSet(Append(s, x)) = ToSet(s) \cup {x}
<1> DEFINE n == Len(s)
           t == Append(s, x)
<1>1. /\ n \in Nat /\ DOMAIN s = 1..n /\ DOMAIN t = 1..(n + 1)
      /\ \A i \in 1..n : t[i] = s[i]
      /\ t[n + 1] = x
  BY LenProperties, AppendProperties
<1>2. ToSet(s) = {s[i] : i \in 1..n} /\ ToSet(t) = {t[i] : i \in 1..(n + 1)}
  BY <1>1 DEF ToSet
<1> HIDE DEF n, t
<1>3. \A i : i \in 1..(n + 1) <=> i \in 1..n \/ i = n + 1
  BY <1>1
<1>4. ToSet(t) = ToSet(s) \cup {x}
  BY <1>1, <1>2, <1>3
<1> QED BY <1>4 DEF t

(* What is printed for a target is in order, and complete if asked for. *)
Printed(lines, target, numbers, complete) ==
  /\ Prints(lines, target, numbers)
  /\ complete => PrintsAll(lines, target, numbers)

(* One line more at the end of what is printed. *)
LEMMA PrintsAppended ==
  ASSUME NEW S, NEW lines \in Seq(S), NEW line \in S, NEW target, NEW numbers,
         NEW complete \in BOOLEAN, Printed(lines, target, numbers, complete)
  PROVE  /\ line[1] # target => Printed(Append(lines, line), target, numbers, complete)
         /\ line[1] = target /\ (\A x \in numbers : x < line[2]) =>
              Printed(Append(lines, line), target, numbers \cup {line[2]}, complete)
<1> DEFINE n == Len(lines)
           more == Append(lines, line)
           Before == Own(lines, target)
           After == Own(more, target)
<1>1. /\ n \in Nat /\ DOMAIN lines = 1..n /\ DOMAIN more = 1..(n + 1)
      /\ \A i \in 1..n : more[i] = lines[i]
      /\ more[n + 1] = line
  BY LenProperties, AppendProperties
<1>2. /\ \A i \in Before : lines[i][2] \in numbers
      /\ \A i, j \in Before : i < j => lines[i][2] < lines[j][2]
      /\ complete => \A x \in numbers : \E i \in Before : lines[i][2] = x
  BY DEF Printed, Prints, PrintsAll
<1>3. SUFFICES
        /\ line[1] # target =>
             /\ \A i \in After : more[i][2] \in numbers
             /\ \A i, j \in After : i < j => more[i][2] < more[j][2]
             /\ complete => \A x \in numbers : \E i \in After : more[i][2] = x
        /\ line[1] = target /\ (\A x \in numbers : x < line[2]) =>
             /\ \A i \in After : more[i][2] \in numbers \cup {line[2]}
             /\ \A i, j \in After : i < j => more[i][2] < more[j][2]
             /\ complete => \A x \in numbers \cup {line[2]} : \E i \in After : more[i][2] = x
  BY DEF Printed, Prints, PrintsAll
<1>4. /\ Before = {i \in 1..n : lines[i][1] = target}
      /\ After = {i \in 1..(n + 1) : more[i][1] = target}
  BY <1>1 DEF Own
<1> HIDE DEF n, more, Before, After
<1>5. /\ \A i \in 1..n : i < n + 1 /\ i \in 1..(n + 1) /\ i # n + 1
      /\ \A i \in 1..(n + 1) : i \in 1..n \/ i = n + 1
      /\ n + 1 \in 1..(n + 1) /\ ~(n + 1 < n + 1)
      /\ \A i \in 1..n : ~(n + 1 < i)
  BY <1>1
<1>6. \A i \in Before : i \in After /\ i \in 1..n /\ more[i] = lines[i]
  BY <1>1, <1>4, <1>5
<1>7. CASE line[1] # target
  <2>1. After = Before
    BY <1>1, <1>4, <1>5, <1>7
  <2> QED BY <1>2, <1>6, <1>7, <2>1
<1>8. CASE line[1] = target /\ (\A x \in numbers : x < line[2])
  <2>1. After = Before \cup {n + 1}
    BY <1>1, <1>4, <1>5, <1>8
  <2>2. \A i \in After : more[i][2] \in numbers \cup {line[2]}
    BY <1>1, <1>2, <1>6, <2>1
  <2>3. complete => \A x \in numbers \cup {line[2]} : \E i \in After : more[i][2] = x
    BY <1>1, <1>2, <1>6, <2>1
  <2>4. ASSUME NEW i \in After, NEW j \in After, i < j
        PROVE  more[i][2] < more[j][2]
    <3>1. CASE i \in Before /\ j \in Before
      BY <1>2, <1>6, <2>4, <3>1
    <3>2. CASE i \in Before /\ j = n + 1
      BY <1>1, <1>2, <1>6, <1>8, <3>2
    <3>3. CASE i = n + 1
      BY <1>5, <1>6, <2>1, <2>4, <3>3
    <3> QED BY <2>1, <3>1, <3>2, <3>3
  <2> QED BY <1>8, <2>2, <2>3, <2>4
<1> QED BY <1>7, <1>8

(* One line more in the middle, of another target. *)
LEMMA PrintsInserted ==
  ASSUME NEW S, NEW a \in Seq(S), NEW b \in Seq(S), NEW line \in S, NEW target,
         NEW numbers, NEW complete \in BOOLEAN, line[1] # target,
         Printed(a \o b, target, numbers, complete)
  PROVE  Printed(Append(a, line) \o b, target, numbers, complete)
<1> DEFINE old == a \o b
           new == Append(a, line) \o b
           p == Len(a)
           q == Len(b)
           Moved(i) == IF i <= p THEN i ELSE i + 1
           Before == Own(old, target)
           After == Own(new, target)
<1>1. /\ p \in Nat /\ q \in Nat
      /\ Append(a, line) \in Seq(S) /\ Len(Append(a, line)) = p + 1
      /\ \A i \in 1..p : Append(a, line)[i] = a[i]
      /\ Append(a, line)[p + 1] = line
  BY LenProperties, AppendProperties
<1>2. /\ old \in Seq(S) /\ Len(old) = p + q
      /\ \A i \in 1..(p + q) : old[i] = IF i <= p THEN a[i] ELSE b[i - p]
  BY ConcatProperties
<1>3. /\ new \in Seq(S) /\ Len(new) = (p + 1) + q
      /\ \A i \in 1..((p + 1) + q) :
           new[i] = IF i <= p + 1 THEN Append(a, line)[i] ELSE b[i - (p + 1)]
  BY <1>1, ConcatProperties
<1>4. DOMAIN old = 1..(p + q) /\ DOMAIN new = 1..(p + q + 1)
  BY <1>1, <1>2, <1>3, LenProperties
<1> HIDE DEF old, new, p, q
<1>5. /\ \A i \in Before : old[i][2] \in numbers
      /\ \A i, j \in Before : i < j => old[i][2] < old[j][2]
      /\ complete => \A x \in numbers : \E i \in Before : old[i][2] = x
  BY DEF Printed, Prints, PrintsAll, old
<1>6. SUFFICES /\ \A i \in After : new[i][2] \in numbers
               /\ \A i, j \in After : i < j => new[i][2] < new[j][2]
               /\ complete => \A x \in numbers : \E i \in After : new[i][2] = x
  BY DEF Printed, Prints, PrintsAll, new
<1>7. new[p + 1] = line
  <2>1. p + 1 \in 1..((p + 1) + q) /\ p + 1 <= p + 1
    BY <1>1
  <2> QED BY <1>1, <1>3, <2>1
<1>8. ASSUME NEW i \in 1..(p + q)
      PROVE  Moved(i) \in 1..(p + q + 1) /\ new[Moved(i)] = old[i]
  <2>1. CASE i <= p
    <3>1. i \in 1..p /\ i \in 1..((p + 1) + q) /\ i <= p + 1 /\ i \in 1..(p + q + 1)
      BY <1>1, <2>1
    <3>2. new[i] = a[i] /\ old[i] = a[i]
      BY <1>1, <1>2, <1>3, <2>1, <3>1
    <3> QED BY <2>1, <3>1, <3>2
  <2>2. CASE ~(i <= p)
    <3>1. /\ i + 1 \in 1..((p + 1) + q) /\ ~(i + 1 <= p + 1) /\ i + 1 \in 1..(p + q + 1)
          /\ (i + 1) - (p + 1) = i - p
      BY <1>1, <2>2
    <3>2. new[i + 1] = b[i - p] /\ old[i] = b[i - p]
      BY <1>2, <1>3, <2>2, <3>1
    <3> QED BY <2>2, <3>1, <3>2
  <2> QED BY <2>1, <2>2
<1>9. \A j \in 1..(p + q + 1) : j = p + 1 \/ \E i \in 1..(p + q) : j = Moved(i)
  <2> SUFFICES ASSUME NEW j \in 1..(p + q + 1), j # p + 1
               PROVE  \E i \in 1..(p + q) : j = Moved(i)
    OBVIOUS
  <2>1. CASE j <= p
    <3>1. j \in 1..(p + q) /\ j = Moved(j)
      BY <1>1, <2>1
    <3> QED BY <3>1
  <2>2. CASE ~(j <= p)
    <3>1. j - 1 \in 1..(p + q) /\ ~(j - 1 <= p) /\ (j - 1) + 1 = j
      BY <1>1, <2>2
    <3> QED BY <3>1
  <2> QED BY <2>1, <2>2
<1>10. \A i, j \in 1..(p + q) : Moved(i) < Moved(j) => i < j
  BY <1>1
<1>11. /\ Before = {i \in 1..(p + q) : old[i][1] = target}
       /\ After = {i \in 1..(p + q + 1) : new[i][1] = target}
  BY <1>4 DEF Own
<1> HIDE DEF Moved, Before, After
<1>12. \A j \in After : \E i \in Before : j = Moved(i) /\ new[j] = old[i]
  BY <1>7, <1>8, <1>9, <1>11
<1>13. \A i \in Before : Moved(i) \in After /\ new[Moved(i)] = old[i]
  BY <1>8, <1>11
<1>14. \A i \in After : new[i][2] \in numbers
  BY <1>5, <1>12
<1>15. complete => \A x \in numbers : \E i \in After : new[i][2] = x
  BY <1>5, <1>13
<1>16. ASSUME NEW i \in After, NEW j \in After, i < j
       PROVE  new[i][2] < new[j][2]
  <2>1. PICK k \in Before : i = Moved(k) /\ new[i] = old[k]
    BY <1>12
  <2>2. PICK l \in Before : j = Moved(l) /\ new[j] = old[l]
    BY <1>12
  <2>3. k < l
    BY <1>10, <1>11, <1>16, <2>1, <2>2
  <2> QED BY <1>5, <2>1, <2>2, <2>3
<1> QED BY <1>14, <1>15, <1>16

(* What is lost at the end takes the completeness with it, not the order. *)
LEMMA PrintsCut ==
  ASSUME NEW lines, NEW short, NEW n \in Nat, NEW k \in 0..n,
         DOMAIN lines = 1..n, DOMAIN short = 1..k,
         \A i \in 1..k : short[i] = lines[i],
         NEW target, NEW numbers, NEW complete \in BOOLEAN,
         Printed(lines, target, numbers, complete)
  PROVE  Printed(short, target, numbers, FALSE)
<1>1. \A i \in Own(short, target) : i \in Own(lines, target) /\ short[i] = lines[i]
  <2>1. \A i \in 1..k : i \in 1..n
    OBVIOUS
  <2> QED BY <2>1 DEF Own
<1>2. /\ \A i \in Own(lines, target) : lines[i][2] \in numbers
      /\ \A i, j \in Own(lines, target) : i < j => lines[i][2] < lines[j][2]
  BY DEF Printed, Prints
<1>3. /\ \A i \in Own(short, target) : short[i][2] \in numbers
      /\ \A i, j \in Own(short, target) : i < j => short[i][2] < short[j][2]
  BY <1>1, <1>2
<1> QED BY <1>3 DEF Printed, Prints

(* The first lines of the buffer leave, behind those that have left; the   *)
(* others stay or are lost.                                                *)
Splits(S, a, b, n, left, kept) ==
  /\ left \in Seq(S) /\ kept \in Seq(S) /\ left \o kept = a \o b
  /\ Len(left) = Len(a) + n /\ Len(a \o b) = Len(a) + Len(b)
  /\ \A i \in 1..(Len(a) + n) : left[i] = (a \o b)[i]
  /\ n = Len(b) => left = a \o b

LEMMA LinesLeave ==
  ASSUME NEW S, NEW a \in Seq(S), NEW b \in Seq(S), NEW n \in 0..Len(b)
  PROVE  Splits(S, a, b, n, a \o SubSeq(b, 1, n), SubSeq(b, n + 1, Len(b)))
<1> DEFINE first == SubSeq(b, 1, n)
           kept == SubSeq(b, n + 1, Len(b))
           left == a \o first
           all == a \o b
<1>1. Len(b) \in Nat /\ Len(a) \in Nat /\ n \in Nat /\ n <= Len(b)
  BY LenProperties
<1>2. \A i \in 1..Len(b) : b[i] \in S
  BY ElementOfSeq
<1>3. /\ first \in Seq(S) /\ Len(first) = n
      /\ \A i \in 1..n : first[i] = b[i]
  <2>1. \A i \in 1..n : b[i] \in S
    BY <1>1, <1>2
  <2>2. /\ SubSeq(b, 1, n) \in Seq(S)
        /\ \A i \in 1..(n - 1 + 1) : SubSeq(b, 1, n)[i] = b[1 + i - 1]
        /\ Len(SubSeq(b, 1, n)) = IF 1 <= n THEN n - 1 + 1 ELSE 0
    BY <1>1, <2>1, SubSeqProperties
  <2> QED BY <1>1, <2>2
<1>4. /\ kept \in Seq(S) /\ Len(kept) = Len(b) - n
      /\ \A i \in 1..(Len(b) - n) : kept[i] = b[n + i]
  <2> DEFINE m == n + 1
             l == Len(b)
  <2>1. \A i \in m..l : b[i] \in S
    BY <1>1, <1>2
  <2>2. m \in 1..(l + 1) /\ l \in m - 1 .. Len(b) /\ m \in Int /\ l \in Int
    BY <1>1
  <2>3. /\ SubSeq(b, m, l) \in Seq(S)
        /\ \A i \in 1..(l - m + 1) : SubSeq(b, m, l)[i] = b[m + i - 1]
        /\ Len(SubSeq(b, m, l)) = IF m <= l THEN l - m + 1 ELSE 0
    BY <2>1, <2>2, SubSeqProperties
  <2>4. l - m + 1 = Len(b) - n /\ \A i \in Int : m + i - 1 = n + i
    BY <1>1
  <2>5. Len(kept) = Len(b) - n
    BY <1>1, <2>3
  <2>6. ASSUME NEW i \in 1..(Len(b) - n) PROVE kept[i] = b[n + i]
    BY <2>3, <2>4
  <2> QED BY <2>3, <2>5, <2>6
<1> HIDE DEF first, kept
<1>5. /\ left \in Seq(S) /\ Len(left) = Len(a) + n
      /\ \A i \in 1..(Len(a) + n) : left[i] = IF i <= Len(a) THEN a[i] ELSE first[i - Len(a)]
  BY <1>3, ConcatProperties
<1>6. /\ all \in Seq(S) /\ Len(all) = Len(a) + Len(b)
      /\ \A i \in 1..(Len(a) + Len(b)) : all[i] = IF i <= Len(a) THEN a[i] ELSE b[i - Len(a)]
  BY ConcatProperties
<1> HIDE DEF left, all
<1>7. ASSUME NEW i \in 1..(Len(a) + n) PROVE left[i] = all[i]
  <2>1. i \in 1..(Len(a) + Len(b))
    BY <1>1
  <2>2. CASE i <= Len(a)
    BY <1>5, <1>6, <2>1, <2>2
  <2>3. CASE ~(i <= Len(a))
    <3>1. i - Len(a) \in 1..n
      BY <1>1, <2>3
    <3> QED BY <1>3, <1>5, <1>6, <2>1, <2>3, <3>1
  <2> QED BY <2>2, <2>3
<1>8. left \o kept = all
  <2> DEFINE both == left \o kept
  <2>1. /\ both \in Seq(S) /\ Len(both) = (Len(a) + n) + (Len(b) - n)
        /\ \A i \in 1..((Len(a) + n) + (Len(b) - n)) :
             both[i] = IF i <= Len(a) + n THEN left[i] ELSE kept[i - (Len(a) + n)]
    <3>1. left \in Seq(S) /\ kept \in Seq(S) /\ Len(left) = Len(a) + n /\ Len(kept) = Len(b) - n
      BY <1>4, <1>5
    <3>2. /\ both \in Seq(S) /\ Len(both) = Len(left) + Len(kept)
          /\ \A i \in 1..(Len(left) + Len(kept)) :
               both[i] = IF i <= Len(left) THEN left[i] ELSE kept[i - Len(left)]
      BY <3>1, ConcatProperties
    <3> QED BY <3>1, <3>2
  <2>2. (Len(a) + n) + (Len(b) - n) = Len(a) + Len(b)
    BY <1>1
  <2> HIDE DEF both
  <2>3. ASSUME NEW i \in 1..(Len(a) + Len(b)) PROVE both[i] = all[i]
    <3>1. CASE i <= Len(a) + n
      <4>1. i \in 1..(Len(a) + n)
        BY <1>1, <3>1
      <4> QED BY <1>7, <2>1, <2>2, <3>1, <4>1
    <3>2. CASE ~(i <= Len(a) + n)
      <4>1. /\ i - (Len(a) + n) \in 1..(Len(b) - n) /\ ~(i <= Len(a))
            /\ n + (i - (Len(a) + n)) = i - Len(a)
        BY <1>1, <3>2
      <4>2. both[i] = kept[i - (Len(a) + n)]
        BY <2>1, <2>2, <3>2
      <4>3. kept[i - (Len(a) + n)] = b[i - Len(a)]
        BY <1>4, <4>1
      <4> QED BY <1>6, <4>1, <4>2, <4>3
    <3> QED BY <3>1, <3>2
  <2>4. both = all
    BY <1>6, <2>1, <2>2, <2>3, SeqEqual
  <2> QED BY <2>4 DEF both
<1>9. n = Len(b) => left = all
  BY <1>5, <1>6, <1>7, SeqEqual
<1> QED BY <1>4, <1>5, <1>6, <1>7, <1>8, <1>9 DEF left, all, first, kept, Splits

LEMMA ConcatOfAppend ==
  ASSUME NEW S, NEW a \in Seq(S), NEW b \in Seq(S), NEW x \in S
  PROVE  a \o Append(b, x) = Append(a \o b, x)
<1>1. /\ a \o b \in Seq(S) /\ <<x>> \in Seq(S)
      /\ Append(b, x) = b \o <<x>>
  BY ConcatProperties, AppendIsConcat
<1>2. Append(a \o b, x) = (a \o b) \o <<x>>
  BY <1>1, AppendIsConcat
<1> QED BY <1>1, <1>2, ConcatAssociative

LEMMA HeadMoved ==
  ASSUME NEW S, NEW a \in Seq(S), NEW b \in Seq(S), b # <<>>
  PROVE  /\ Append(a, Head(b)) \o Tail(b) = a \o b
         /\ Append(a, Head(b)) \in Seq(S)
<1>1. Head(b) \in S /\ Tail(b) \in Seq(S)
  BY HeadTailProperties
<1>2. b = <<Head(b)>> \o Tail(b)
  OBVIOUS
<1>3. /\ Append(a, Head(b)) = a \o <<Head(b)>> /\ <<Head(b)>> \in Seq(S)
      /\ Append(a, Head(b)) \in Seq(S)
  BY <1>1, AppendIsConcat, AppendProperties
<1>4. (a \o <<Head(b)>>) \o Tail(b) = a \o (<<Head(b)>> \o Tail(b))
  BY <1>1, <1>3, ConcatAssociative
<1> QED BY <1>2, <1>3, <1>4

-----------------------------------------------------------------------------
(* Who is given a packet: nobody but the target whose write returns. *)
LEMMA GivenSame ==
  ASSUME ControlInv, [Next]_vars, NEW target, ~(WritesTo(target) /\ Returns)
  PROVE  Given(target)' = Given(target)
<1>1. CASE \E writer : WritesTo(writer) /\ Returns
  BY <1>1, GivenGrows
<1> QED BY <1>1, StepKinds, GivenKept

LEMMA Writer ==
  ASSUME ControlInv, [Next]_vars, NEW target, WritesTo(target), Returns
  PROVE  /\ target = "stdio" => WriteStdio
         /\ target = "stdio_info" => WriteInfo
         /\ target = "file" => WriteFile
         /\ target = "udp" => WriteUdp
         /\ target = "tcp_server" => WriteTcp
<1>1. at # 0 /\ targets[at] = target /\ pc = "running" /\ at' # at
  <2>1. at \in Nat
    BY LenProperties DEF ControlInv
  <2>2. at # 0 /\ targets[at] = target /\ pc = "running"
    BY DEF WritesTo
  <2> QED BY <2>1, <2>2 DEF Returns, Advance, NextTarget
<1>2. CASE MakePlain \/ MakeFile \/ MakeUdp \/ UnknownHost \/ Listen \/ ListenFails
           \/ StartBroadcast
  BY <1>1, <1>2 DEF MakePlain, MakeFile, MakeUdp, UnknownHost, Listen, ListenFails,
                    StartBroadcast, Makes
<1>3. CASE BrokenPipe \/ NoContext \/ MainReturns \/ Accept
  BY <1>1, <1>3 DEF BrokenPipe, NoContext, MainReturns, Accept
<1>4. CASE WriteReturns \/ ReaderLeft \/ ClientReads \/ ClientLeaves \/ UNCHANGED vars
  BY <1>1, <1>4 DEF WriteReturns, ReaderLeft, ClientReads, ClientLeaves, vars, mainVars
<1>5. CASE WriteStdio \/ WriteInfo \/ WriteFile \/ WriteUdp \/ WriteTcp \/ WriteOcv
  BY <1>1, <1>5 DEF WriteStdio, WriteInfo, WriteFile, WriteUdp, WriteTcp, WriteOcv, WritesTo
<1> QED BY <1>2, <1>3, <1>4, <1>5 DEF Next, Main

-----------------------------------------------------------------------------
(* The sinks, each compared with what its target was given. *)
UdpInv ==
  /\ datagrams \in Seq(Nat)
  /\ IsPrefix(datagrams, Given("udp"))
  /\ udp_sd # -1 => datagrams = Given("udp")

TcpInv ==
  /\ received \in Seq(Nat) /\ unread \in Seq(Nat) /\ Len(unread) <= MaxUnread
  /\ client = "none" => received = <<>> /\ unread = <<>>
  /\ IsPrefix(received \o unread, Given("tcp_server"))
  /\ client = "there" => received \o unread = Given("tcp_server")

FileInv ==
  /\ file \in Seq(Int) /\ pos \in 0..Len(file)
  /\ FiledInOrder

StdoutInv ==
  /\ buffered \in Seq(Targets \X Nat) /\ stdout \in Seq(Targets \X Nat)
  /\ lossy \in BOOLEAN
  /\ num_packets \in Nat /\ num_packets = Len(Given("stdio_info"))
  /\ PrintedInOrder

LEMMA NextUdp ==
  ASSUME ControlInv, TableInv, UdpInv, [Next]_vars
  PROVE  UdpInv'
<1> DEFINE G == Given("udp")
<1>1. G \in Seq(Nat) /\ count \in Nat
  BY GivenIs DEF ControlInv
<1>2. CASE WritesTo("udp") /\ Returns
  <2>1. WriteUdp /\ G' = Append(G, count)
    BY <1>2, Writer, GivenGrows
  <2>2. /\ udp_sd' = udp_sd \/ udp_sd' = -1
        /\ \/ IsOpen(udp_sd) /\ datagrams' = Append(datagrams, count)
           \/ udp_sd' = -1 /\ datagrams' = datagrams
    BY <2>1 DEF WriteUdp, AfterSendFails
  <2> HIDE DEF G
  <2>3. CASE IsOpen(udp_sd) /\ datagrams' = Append(datagrams, count)
    <3>1. udp_sd # -1
      BY <2>3, BoundsAssumption DEF IsOpen
    <3>2. datagrams' = G'
      BY <2>1, <2>3, <3>1 DEF UdpInv, G
    <3>3. G' \in Seq(Nat)
      BY <1>1, <2>1, AppendProperties
    <3>4. IsPrefix(datagrams', G')
      BY <3>2, <3>3, PrefixFacts
    <3> QED BY <3>2, <3>3, <3>4 DEF UdpInv, G
  <2>4. CASE udp_sd' = -1 /\ datagrams' = datagrams
    <3>1. datagrams \in Seq(Nat) /\ IsPrefix(datagrams, G)
      BY DEF UdpInv, G
    <3>2. IsPrefix(datagrams, Append(G, count))
      BY <1>1, <3>1, PrefixFacts
    <3> QED BY <2>1, <2>4, <3>1, <3>2 DEF UdpInv, G
  <2> QED BY <2>2, <2>3, <2>4
<1>3. CASE ~(WritesTo("udp") /\ Returns)
  <2>1. G' = G
    BY <1>3, GivenSame
  <2>2. CASE MakeUdp
    <3>1. Makes("udp") /\ datagrams' = datagrams
      BY <2>2 DEF MakeUdp, sinkVars
    <3>2. "udp" \notin Registered
      BY <3>1, CurrentStep DEF Broadcast
    <3>3. G = <<>>
      BY <3>2, GivenIs
    <3>4. datagrams = <<>>
      BY <3>3, PrefixFacts DEF UdpInv
    <3> QED BY <2>1, <3>1, <3>3, <3>4 DEF UdpInv
  <2>3. CASE ~MakeUdp
    <3>1. datagrams' = datagrams /\ udp_sd' = udp_sd
      <4> USE DEF mainVars, memberVars, sinkVars, printVars
      <4>1. ~WriteUdp
        BY <1>3 DEF WriteUdp, WritesTo, Returns, Return, Puts
      <4>2. CASE MakePlain \/ MakeFile \/ UnknownHost \/ Listen \/ ListenFails \/ StartBroadcast
        BY <4>2 DEF MakePlain, MakeFile, UnknownHost, Listen, ListenFails, StartBroadcast
      <4>3. CASE BrokenPipe \/ NoContext \/ MainReturns \/ Accept
        BY <4>3 DEF BrokenPipe, NoContext, MainReturns, Accept
      <4>4. CASE WriteReturns \/ ReaderLeft \/ ClientReads \/ ClientLeaves \/ UNCHANGED vars
        BY <4>4 DEF WriteReturns, ReaderLeft, ClientReads, ClientLeaves, vars
      <4>5. CASE WriteStdio \/ WriteInfo \/ WriteFile \/ WriteTcp \/ WriteOcv
        BY <4>5 DEF WriteStdio, WriteInfo, WriteFile, WriteTcp, WriteOcv
      <4> QED BY <2>3, <4>1, <4>2, <4>3, <4>4, <4>5 DEF Next, Main
    <3> QED BY <2>1, <3>1 DEF UdpInv
  <2> QED BY <2>2, <2>3
<1> QED BY <1>2, <1>3

LEMMA NextTcp ==
  ASSUME ControlInv, TableInv, TcpInv, [Next]_vars
  PROVE  TcpInv'
<1> DEFINE G == Given("tcp_server")
<1>1. /\ G \in Seq(Nat) /\ count \in Nat /\ MaxUnread \in Nat
      /\ received \in Seq(Nat) /\ unread \in Seq(Nat) /\ received \o unread \in Seq(Nat)
      /\ Len(unread) <= MaxUnread /\ Len(unread) \in Nat
  BY GivenIs, BoundsAssumption, ConcatProperties, LenProperties DEF ControlInv, TcpInv
<1>2. CASE WritesTo("tcp_server") /\ Returns
  <2>1. WriteTcp /\ G' = Append(G, count)
    BY <1>2, Writer, GivenGrows
  <2>2. received' = received /\ client' = client /\ pc = "running"
    BY <2>1 DEF WriteTcp, memberVars, WritesTo
  <2> HIDE DEF G
  <2>3. CASE client = "there"
    <3>1. IsOpen(tcp_fd) /\ table[tcp_fd] = "connection"
      <4>1. tcp_fd # -1 /\ tcp_fd \in -1..MaxFd /\ Holds
        BY <2>2, <2>3 DEF TableInv, AtEnd, Ended
      <4>2. tcp_fd \in 0..MaxFd
        BY <4>1, BoundsAssumption
      <4> QED BY <2>3, <4>1, <4>2 DEF Holds, IsOpen
    <3>2. unread' = Append(unread, count) /\ Len(unread) < MaxUnread
      BY <2>1, <2>3, <3>1 DEF WriteTcp, HasRoom
    <3>3. unread' \in Seq(Nat) /\ Len(unread') <= MaxUnread
      BY <1>1, <3>2, AppendProperties
    <3>4. received \o unread' = Append(received \o unread, count)
      BY <1>1, <3>2, ConcatOfAppend
    <3>5. received \o unread' = G'
      BY <2>1, <2>3, <3>4 DEF TcpInv, G
    <3>6. G' \in Seq(Nat)
      BY <1>1, <2>1, AppendProperties
    <3>7. IsPrefix(G', G')
      BY <3>6, PrefixFacts
    <3> QED BY <1>1, <2>2, <2>3, <3>3, <3>5, <3>7 DEF TcpInv, G
  <2>4. CASE client # "there"
    <3>1. unread' = unread
      BY <2>1, <2>4 DEF WriteTcp
    <3>2. IsPrefix(received \o unread, G)
      BY DEF TcpInv, G
    <3>3. IsPrefix(received \o unread, Append(G, count))
      BY <1>1, <3>2, PrefixFacts
    <3> QED BY <2>1, <2>2, <2>4, <3>1, <3>3 DEF TcpInv, G
  <2> QED BY <2>3, <2>4
<1>3. CASE ~(WritesTo("tcp_server") /\ Returns)
  <2>1. G' = G
    BY <1>3, GivenSame
  <2>2. CASE Accept
    <3>1. /\ pc = "accepting" /\ Register("tcp_server") /\ client' \in {client, "there"}
          /\ received' = received /\ unread' = unread /\ at' = at /\ UNCHANGED <<program, count>>
          /\ pc' = "running"
      BY <2>2 DEF Accept
    <3>2. Registers("tcp_server")
      BY <3>1 DEF Registers, Broadcast
    <3>3. "tcp_server" \notin Registered
      BY <3>2, RegistersControl
    <3>4. G = <<>> /\ client = "none"
      BY <3>3, GivenIs DEF TableInv
    <3>5. received = <<>> /\ unread = <<>> /\ <<>> \o <<>> = <<>>
      BY <3>4, EmptySeq, ConcatEmptySeq DEF TcpInv
    <3> QED BY <2>1, <3>1, <3>4, <3>5 DEF TcpInv
  <2>3. CASE ClientReads
    <3>1. /\ client = "there" /\ client' = client /\ unread # <<>>
          /\ received' = Append(received, Head(unread)) /\ unread' = Tail(unread)
      BY <2>3 DEF ClientReads
    <3>2. /\ Head(unread) \in Nat /\ Tail(unread) \in Seq(Nat)
          /\ Len(Tail(unread)) = Len(unread) - 1
      BY <1>1, <3>1, HeadTailProperties
    <3>3. received' \o unread' = received \o unread /\ received' \in Seq(Nat)
      BY <1>1, <3>1, HeadMoved
    <3>4. Len(unread') <= MaxUnread
      BY <1>1, <3>1, <3>2
    <3> QED BY <2>1, <3>1, <3>2, <3>3, <3>4 DEF TcpInv
  <2>4. CASE ClientLeaves
    <3>1. client' = "gone" /\ received' = received /\ unread' = <<>>
      BY <2>4 DEF ClientLeaves
    <3>2. received \o <<>> = received /\ <<>> \in Seq(Nat) /\ Len(<<>>) = 0
      BY <1>1, ConcatEmptySeq, EmptySeq
    <3>3. IsPrefix(received \o unread, G)
      BY DEF TcpInv
    <3>4. IsPrefix(received, G)
      BY <1>1, <3>3, PrefixFacts
    <3> QED BY <1>1, <2>1, <3>1, <3>2, <3>4 DEF TcpInv
  <2>5. CASE ~Accept /\ ~ClientReads /\ ~ClientLeaves
    <3>1. UNCHANGED <<received, unread, client>>
      <4> USE DEF mainVars, memberVars, sinkVars, printVars
      <4>1. ~WriteTcp
        BY <1>3 DEF WriteTcp, WritesTo, Returns, Return, Puts
      <4>2. CASE MakePlain \/ MakeFile \/ MakeUdp \/ UnknownHost \/ Listen \/ ListenFails
                 \/ StartBroadcast
        BY <4>2 DEF MakePlain, MakeFile, MakeUdp, UnknownHost, Listen, ListenFails,
                    StartBroadcast
      <4>3. CASE BrokenPipe \/ NoContext \/ MainReturns
        BY <4>3 DEF BrokenPipe, NoContext, MainReturns
      <4>4. CASE WriteReturns \/ ReaderLeft \/ UNCHANGED vars
        BY <4>4 DEF WriteReturns, ReaderLeft, vars
      <4>5. CASE WriteStdio \/ WriteInfo \/ WriteFile \/ WriteUdp \/ WriteOcv
        BY <4>5 DEF WriteStdio, WriteInfo, WriteFile, WriteUdp, WriteOcv
      <4> QED BY <2>5, <4>1, <4>2, <4>3, <4>4, <4>5 DEF Next, Main
    <3> QED BY <2>1, <3>1 DEF TcpInv
  <2> QED BY <2>2, <2>3, <2>4, <2>5
<1> QED BY <1>2, <1>3

(* One packet written over whatever is there. *)
LEMMA Overwritten ==
  ASSUME NEW f \in Seq(Int), NEW p \in 0..Len(f), NEW what \in Int
  PROVE  LET g == SubSeq(f, 1, p) \o <<what>> \o SubSeq(f, p + 2, Len(f))
         IN  /\ g \in Seq(Int) /\ p + 1 \in 0..Len(g)
             /\ \A i \in 1..p : g[i] = f[i]
             /\ g[p + 1] = what
             /\ \A i \in (p + 2)..Len(g) : i \in (p + 1)..Len(f) /\ g[i] = f[i]
<1> DEFINE n == Len(f)
           a == SubSeq(f, 1, p)
           b == SubSeq(f, p + 2, n)
           aw == a \o <<what>>
           g == aw \o b
<1>1. n \in Nat /\ p \in Nat /\ p <= n /\ \A i \in 1..n : f[i] \in Int
  BY LenProperties, ElementOfSeq
<1>2. a \in Seq(Int) /\ Len(a) = p /\ \A i \in 1..p : a[i] = f[i]
  <2>1. \A i \in 1..p : f[i] \in Int
    BY <1>1
  <2>2. /\ a \in Seq(Int) /\ Len(a) = IF 1 <= p THEN p - 1 + 1 ELSE 0
        /\ \A i \in 1..(p - 1 + 1) : a[i] = f[1 + i - 1]
    <3>1. PICK m \in Int : m = 1
      OBVIOUS
    <3>2. p \in Int /\ \A i \in m..p : f[i] \in Int
      BY <1>1, <2>1, <3>1
    <3>3. /\ SubSeq(f, m, p) \in Seq(Int)
          /\ Len(SubSeq(f, m, p)) = IF m <= p THEN p - m + 1 ELSE 0
          /\ \A i \in 1..(p - m + 1) : SubSeq(f, m, p)[i] = f[m + i - 1]
      BY <3>2, SubSeqProperties
    <3> QED BY <3>1, <3>3
  <2> QED BY <1>1, <2>2
<1>3. /\ b \in Seq(Int) /\ Len(b) = IF p + 2 <= n THEN n - p - 1 ELSE 0
      /\ \A i \in 1..Len(b) : b[i] = f[(p + 1) + i]
  <2>1. \A i \in (p + 2)..n : f[i] \in Int
    BY <1>1
  <2>2. p + 2 \in Int
    BY <1>1
  <2>3. /\ b \in Seq(Int) /\ Len(b) = IF p + 2 <= n THEN n - (p + 2) + 1 ELSE 0
        /\ \A i \in 1..(n - (p + 2) + 1) : b[i] = f[(p + 2) + i - 1]
    BY <1>1, <2>1, <2>2, SubSeqProperties
  <2>4. Len(b) = IF p + 2 <= n THEN n - p - 1 ELSE 0
    BY <1>1, <2>3
  <2>5. \A i \in 1..Len(b) : i \in 1..(n - (p + 2) + 1) /\ (p + 2) + i - 1 = (p + 1) + i
    BY <1>1, <2>4
  <2> QED BY <2>3, <2>4, <2>5
<1> HIDE DEF a, b, n
<1>4. /\ aw \in Seq(Int) /\ Len(aw) = p + 1 /\ aw[p + 1] = what
      /\ \A i \in 1..p : aw[i] = f[i]
  <2>1. Append(a, what) = aw
    BY <1>2, AppendIsConcat
  <2> QED BY <1>2, <2>1, AppendProperties
<1> HIDE DEF aw
<1>5. /\ g \in Seq(Int) /\ Len(g) = (p + 1) + Len(b) /\ Len(b) \in Nat
      /\ \A i \in 1..((p + 1) + Len(b)) :
           g[i] = IF i <= p + 1 THEN aw[i] ELSE b[i - (p + 1)]
  <2>1. Len(b) \in Nat
    BY <1>3, LenProperties
  <2>2. /\ aw \o b \in Seq(Int) /\ Len(aw \o b) = Len(aw) + Len(b)
        /\ \A i \in 1..(Len(aw) + Len(b)) :
             (aw \o b)[i] = IF i <= Len(aw) THEN aw[i] ELSE b[i - Len(aw)]
    <3>1. aw \in Seq(Int) /\ b \in Seq(Int)
      BY <1>3, <1>4
    <3> QED BY <3>1, ConcatProperties
  <2> QED BY <1>4, <2>1, <2>2
<1> HIDE DEF g
<1>6. p + 1 \in 0..Len(g) /\ p + 1 \in 1..((p + 1) + Len(b)) /\ p + 1 <= p + 1
      /\ \A i \in 1..p : i \in 1..((p + 1) + Len(b)) /\ i <= p + 1
  BY <1>1, <1>5
<1>7. (\A i \in 1..p : g[i] = f[i]) /\ g[p + 1] = what
  BY <1>4, <1>5, <1>6
<1>8. ASSUME NEW i \in (p + 2)..Len(g) PROVE i \in (p + 1)..n /\ g[i] = f[i]
  <2>1. /\ i \in 1..((p + 1) + Len(b)) /\ ~(i <= p + 1)
        /\ i - (p + 1) \in 1..Len(b) /\ (p + 1) + (i - (p + 1)) = i
    BY <1>1, <1>5
  <2>2. g[i] = b[i - (p + 1)] /\ b[i - (p + 1)] = f[(p + 1) + (i - (p + 1))]
    BY <1>3, <1>5, <2>1
  <2>3. i \in (p + 1)..n
    BY <1>1, <1>3, <1>5
  <2> QED BY <2>1, <2>2, <2>3
<1>9. g \in Seq(Int)
  BY <1>5
<1> QED BY <1>6, <1>7, <1>8, <1>9 DEF g, aw, a, b, n

LEMMA NextFile ==
  ASSUME ControlInv, TableInv, FileInv, [Next]_vars
  PROVE  FileInv'
<1> DEFINE G == Given("file")
           Num(f, i) == IF f[i] < 0 THEN -f[i] ELSE f[i]
<1>1. G \in Seq(Nat) /\ count \in Nat /\ file \in Seq(Int) /\ pos \in Nat /\ pos \in 0..Len(file)
      /\ Len(file) \in Nat
  BY GivenIs, LenProperties DEF ControlInv, FileInv
<1>2. /\ \A i, j \in 1..pos : i < j => Num(file, i) < Num(file, j)
      /\ \A i \in 1..pos : Num(file, i) \in ToSet(G)
      /\ \A i \in (pos + 1)..Len(file) : file[i] = 0
  <2> DEFINE own == [i \in 1..pos |-> IF file[i] < 0 THEN -file[i] ELSE file[i]]
  <2>1. /\ \A i, j \in 1..pos : i < j => own[i] < own[j]
        /\ ToSet(own) \subseteq ToSet(G)
        /\ \A i \in (pos + 1)..Len(file) : file[i] = 0
    BY DEF FileInv, FiledInOrder
  <2>2. \A i \in 1..pos : own[i] = Num(file, i)
    OBVIOUS
  <2>3. DOMAIN own = 1..pos
    OBVIOUS
  <2> HIDE DEF own, G, Num
  <2>4. \A i \in 1..pos : own[i] \in ToSet(own)
    BY <2>3 DEF ToSet
  <2> QED BY <2>1, <2>2, <2>4
<1>3. SUFFICES
        /\ file' \in Seq(Int) /\ pos' \in 0..Len(file')
        /\ \A i, j \in 1..pos' : i < j => Num(file', i) < Num(file', j)
        /\ \A i \in 1..pos' : Num(file', i) \in ToSet(G')
        /\ \A i \in (pos' + 1)..Len(file') : file'[i] = 0
  <2> DEFINE own == [i \in 1..pos' |-> IF file'[i] < 0 THEN -file'[i] ELSE file'[i]]
  <2>1. (\A i \in 1..pos' : own[i] = Num(file', i)) /\ DOMAIN own = 1..pos'
    OBVIOUS
  <2> HIDE DEF own, G, Num
  <2>2. \A i, j \in 1..pos' : i < j => own[i] < own[j]
    BY <2>1
  <2>3. ToSet(own) \subseteq ToSet(G')
    BY <2>1 DEF ToSet
  <2> QED BY <2>2, <2>3 DEF FileInv, FiledInOrder, own, G
<1>4. CASE WritesTo("file") /\ Returns
  <2>1. WriteFile /\ G' = Append(G, count) /\ Waits("file")
    BY <1>4, Writer, GivenGrows
  <2>2. \A x \in ToSet(G) : x < count
    BY <2>1, GivenIs
  <2> HIDE DEF G
  <2>3. ToSet(G') = ToSet(G) \cup {count}
    <3>1. ToSet(Append(G, count)) = ToSet(G) \cup {count}
      BY <1>1, MembersOfAppend
    <3> QED BY <2>1, <3>1
  <2>4. CASE UNCHANGED <<file, pos>>
    BY <1>1, <1>2, <2>3, <2>4
  <2>5. ASSUME NEW what \in {count, -count}, pos' = pos + 1,
               file' = SubSeq(file, 1, pos) \o <<what>> \o SubSeq(file, pos + 2, Len(file))
        PROVE  /\ file' \in Seq(Int) /\ pos' \in 0..Len(file')
               /\ \A i, j \in 1..pos' : i < j => Num(file', i) < Num(file', j)
               /\ \A i \in 1..pos' : Num(file', i) \in ToSet(G')
               /\ \A i \in (pos' + 1)..Len(file') : file'[i] = 0
    <3>1. what \in Int /\ (IF what < 0 THEN -what ELSE what) = count
      BY <1>1, <2>5
    <3>2. /\ file' \in Seq(Int) /\ pos + 1 \in 0..Len(file')
          /\ \A i \in 1..pos : file'[i] = file[i]
          /\ file'[pos + 1] = what
          /\ \A i \in (pos + 2)..Len(file') : i \in (pos + 1)..Len(file) /\ file'[i] = file[i]
      BY <1>1, <2>5, <3>1, Overwritten
    <3>3. /\ \A i \in 1..pos : Num(file', i) = Num(file, i)
          /\ Num(file', pos + 1) = count
      BY <3>1, <3>2
    <3> HIDE DEF Num
    <3>4. \A i \in 1..(pos + 1) : i \in 1..pos \/ i = pos + 1
      BY <1>1
    <3>5. \A i \in 1..(pos + 1) : Num(file', i) \in ToSet(G')
      BY <1>2, <2>3, <3>3, <3>4
    <3>6. ASSUME NEW i \in 1..(pos + 1), NEW j \in 1..(pos + 1), i < j
          PROVE  Num(file', i) < Num(file', j)
      <4>1. i \in 1..pos
        BY <1>1, <3>6
      <4>2. CASE j \in 1..pos
        BY <1>2, <3>3, <3>6, <4>1, <4>2
      <4>3. CASE j = pos + 1
        BY <1>2, <2>2, <3>3, <4>1, <4>3
      <4> QED BY <3>4, <4>2, <4>3
    <3>7. \A i \in (pos' + 1)..Len(file') : file'[i] = 0
      <4>1. pos' + 1 = pos + 2
        BY <1>1, <2>5
      <4> QED BY <1>2, <3>2, <4>1
    <3> QED BY <2>5, <3>2, <3>5, <3>6, <3>7
  <2> QED BY <2>1, <2>4, <2>5 DEF WriteFile
<1>5. CASE ~(WritesTo("file") /\ Returns)
  <2>1. G' = G
    BY <1>5, GivenSame
  <2>2. UNCHANGED <<file, pos>>
    <3> USE DEF mainVars, memberVars, sinkVars, printVars
    <3>1. ~WriteFile
      BY <1>5 DEF WriteFile, WritesTo, Returns, Return, Puts
    <3>2. CASE MakePlain \/ MakeFile \/ MakeUdp \/ UnknownHost \/ Listen \/ ListenFails
               \/ StartBroadcast
      BY <3>2 DEF MakePlain, MakeFile, MakeUdp, UnknownHost, Listen, ListenFails,
                  StartBroadcast
    <3>3. CASE BrokenPipe \/ NoContext \/ MainReturns \/ Accept
      BY <3>3 DEF BrokenPipe, NoContext, MainReturns, Accept
    <3>4. CASE WriteReturns \/ ReaderLeft \/ ClientReads \/ ClientLeaves \/ UNCHANGED vars
      BY <3>4 DEF WriteReturns, ReaderLeft, ClientReads, ClientLeaves, vars
    <3>5. CASE WriteStdio \/ WriteInfo \/ WriteUdp \/ WriteTcp \/ WriteOcv
      BY <3>5 DEF WriteStdio, WriteInfo, WriteUdp, WriteTcp, WriteOcv
    <3> QED BY <3>1, <3>2, <3>3, <3>4, <3>5 DEF Next, Main
  <2> HIDE DEF G, Num
  <2>3. \A i : Num(file', i) = Num(file, i)
    BY <2>2
  <2> QED BY <1>1, <1>2, <2>1, <2>2, <2>3
<1> QED BY <1>4, <1>5

(* Everything printed, what is still buffered included. *)
AllLines == stdout \o buffered

LEMMA PrintedIs ==
  PrintedInOrder <=>
    /\ Printed(AllLines, "stdio", ToSet(Given("stdio")), ~lossy)
    /\ Printed(AllLines, "stdio_info", 1..Len(Given("stdio_info")), ~lossy)
BY DEF PrintedInOrder, Printed, AllLines

LEMMA PrintedIsNext ==
  PrintedInOrder' <=>
    /\ Printed(AllLines', "stdio", ToSet(Given("stdio")'), ~lossy')
    /\ Printed(AllLines', "stdio_info", 1..Len(Given("stdio_info")'), ~lossy')
BY DEF PrintedInOrder, Printed, AllLines, Prints, PrintsAll, Own, ToSet

(* A write to descriptor 1 returns, or the process is gone. *)
LEMMA LinesGone ==
  ASSUME StdoutInv, NEW n \in 0..Len(buffered), Lines(n), Keeps(n) \/ Loses(n)
  PROVE  /\ buffered' \in Seq(Targets \X Nat) /\ stdout' \in Seq(Targets \X Nat)
         /\ lossy' \in BOOLEAN
         /\ \A target, numbers : Printed(AllLines, target, numbers, ~lossy) =>
              Printed(AllLines', target, numbers, ~lossy')
<1> DEFINE L == Targets \X Nat
           left == stdout \o SubSeq(buffered, 1, n)
           kept == SubSeq(buffered, n + 1, Len(buffered))
<1>1. buffered \in Seq(L) /\ stdout \in Seq(L) /\ lossy \in BOOLEAN
  BY DEF StdoutInv
<1>2. /\ left \in Seq(L) /\ kept \in Seq(L) /\ left \o kept = AllLines
      /\ Len(left) = Len(stdout) + n /\ Len(AllLines) = Len(stdout) + Len(buffered)
      /\ \A i \in 1..(Len(stdout) + n) : left[i] = AllLines[i]
      /\ n = Len(buffered) => left = AllLines
  <2>1. stdout \o buffered = AllLines
    BY DEF AllLines
  <2> HIDE DEF L
  <2>2. Splits(L, stdout, buffered, n, left, kept)
    BY <1>1, LinesLeave
  <2> HIDE DEF left, kept
  <2> QED BY <2>1, <2>2 DEF Splits
<1>3. stdout' = left
  BY DEF Lines
<1> HIDE DEF left, L
<1>4. AllLines' = stdout' \o buffered'
  BY DEF AllLines
<1>5. CASE Keeps(n)
  <2>1. buffered' = kept /\ lossy' = lossy
    BY <1>5 DEF Keeps
  <2> QED BY <1>1, <1>2, <1>3, <1>4, <2>1 DEF L
<1>6. CASE Loses(n)
  <2>1. buffered' = <<>> /\ lossy' = (lossy \/ n < Len(buffered)) /\ <<>> \in Seq(L)
    BY <1>6, EmptySeq DEF Loses
  <2>2. AllLines' = left
    BY <1>2, <1>3, <1>4, <2>1, ConcatEmptySeq
  <2>3. Len(buffered) \in Nat /\ Len(stdout) \in Nat /\ n \in Nat
    BY <1>1, LenProperties
  <2>4. CASE n = Len(buffered)
    <3>1. lossy' = lossy
      BY <1>1, <2>1, <2>3, <2>4
    <3> QED BY <1>1, <1>2, <1>3, <2>1, <2>2, <2>4, <3>1 DEF L
  <2>5. CASE n < Len(buffered)
    <3>1. lossy' = TRUE
      BY <2>1, <2>5
    <3> DEFINE k == Len(stdout) + n
               m == Len(stdout) + Len(buffered)
    <3>2. k \in 0..m /\ m \in Nat
      BY <2>3, <2>5
    <3>3. AllLines \in Seq(L)
      BY <1>1, ConcatProperties DEF AllLines
    <3>4. DOMAIN AllLines = 1..m /\ DOMAIN left = 1..k
      BY <1>2, <3>3, LenProperties
    <3>5. \A i \in 1..k : left[i] = AllLines[i]
      BY <1>2
    <3> HIDE DEF k, m
    <3>6. ASSUME NEW target, NEW numbers, Printed(AllLines, target, numbers, ~lossy)
          PROVE  Printed(left, target, numbers, FALSE)
      <4>1. (~lossy) \in BOOLEAN
        OBVIOUS
      <4> QED BY <3>2, <3>4, <3>5, <3>6, <4>1, PrintsCut
    <3>7. (~lossy') = FALSE
      BY <3>1
    <3> QED BY <1>2, <1>3, <2>1, <2>2, <3>1, <3>6, <3>7 DEF L
  <2> QED BY <2>3, <2>4, <2>5
<1> QED BY <1>5, <1>6

(* What a step does to standard output. *)
LEMMA StdoutKinds ==
  ASSUME Len(buffered) \in Nat, [Next]_vars
  PROVE  \/ UNCHANGED printVars
         \/ WriteStdio \/ WriteInfo \/ WriteTcp
         \/ WriteUdp /\ Puts(<<"udp", count>>)
         \/ \E n \in 0..Len(buffered) : Lines(n) /\ (Keeps(n) \/ Loses(n))
<1> USE DEF sinkVars, printVars
<1>1. CASE MakePlain \/ MakeFile \/ MakeUdp \/ Listen \/ ListenFails \/ StartBroadcast
  BY <1>1 DEF MakePlain, MakeFile, MakeUdp, Listen, ListenFails, StartBroadcast
<1>2. CASE UnknownHost \/ NoContext \/ MainReturns \/ Accept \/ WriteFile \/ WriteOcv
  BY <1>2 DEF UnknownHost, NoContext, MainReturns, Accept, WriteFile, WriteOcv, Exit
<1>3. CASE WriteUdp
  BY <1>3 DEF WriteUdp
<1>4. CASE BrokenPipe
  <2>1. Lines(0) /\ Loses(0)
    BY <1>4 DEF BrokenPipe
  <2>2. 0 \in 0..Len(buffered)
    OBVIOUS
  <2> QED BY <2>1, <2>2
<1>5. CASE WriteReturns \/ ReaderLeft
  BY <1>5 DEF WriteReturns, ReaderLeft
<1>6. CASE ClientReads \/ ClientLeaves \/ UNCHANGED vars
  BY <1>6 DEF ClientReads, ClientLeaves, vars
<1> QED BY <1>1, <1>2, <1>3, <1>4, <1>5, <1>6 DEF Next, Main

LEMMA NextStdout ==
  ASSUME ControlInv, StdoutInv, [Next]_vars
  PROVE  StdoutInv'
<1> DEFINE L == Targets \X Nat
           G == Given("stdio")
           I == Given("stdio_info")
<1>1. /\ G \in Seq(Nat) /\ I \in Seq(Nat) /\ Len(I) \in Nat /\ count \in Nat
      /\ \A x \in ToSet(G) : Waits("stdio") => x < count
      /\ buffered \in Seq(L) /\ stdout \in Seq(L) /\ AllLines \in Seq(L)
      /\ num_packets \in Nat /\ num_packets = Len(I)
      /\ lossy \in BOOLEAN /\ (~lossy) \in BOOLEAN /\ Len(buffered) \in Nat
  BY GivenIs, LenProperties, ConcatProperties DEF ControlInv, StdoutInv, AllLines
<1>2. /\ Printed(AllLines, "stdio", ToSet(G), ~lossy)
      /\ Printed(AllLines, "stdio_info", 1..Len(I), ~lossy)
  BY PrintedIs DEF StdoutInv
<1>3. "stdio" # "stdio_info" /\ "tcp_server" # "stdio" /\ "tcp_server" # "stdio_info"
      /\ "udp" # "stdio" /\ "udp" # "stdio_info"
      /\ {"stdio", "stdio_info", "udp", "tcp_server"} \subseteq Targets
  BY DEF Targets
<1>4. SUFFICES
        /\ buffered' \in Seq(L) /\ stdout' \in Seq(L) /\ lossy' \in BOOLEAN
        /\ num_packets' \in Nat /\ num_packets' = Len(I')
        /\ Printed(AllLines', "stdio", ToSet(G'), ~lossy')
        /\ Printed(AllLines', "stdio_info", 1..Len(I'), ~lossy')
  BY PrintedIsNext DEF StdoutInv
<1>5. ASSUME NEW line \in L, Puts(line)
      PROVE  /\ buffered' \in Seq(L) /\ stdout' \in Seq(L) /\ lossy' = lossy
             /\ AllLines' = Append(AllLines, line)
  <2>1. buffered' = Append(buffered, line) /\ stdout' = stdout /\ lossy' = lossy
    BY <1>5 DEF Puts
  <2> HIDE DEF L
  <2>2. stdout' \o buffered' = Append(AllLines, line)
    BY <1>1, <2>1, ConcatOfAppend DEF AllLines
  <2> QED BY <1>1, <2>1, <2>2, AppendProperties DEF AllLines
<1>6. ASSUME ~(WritesTo("stdio_info") /\ Returns)
      PROVE  num_packets' = num_packets /\ I' = I
  <2>1. I' = I
    BY <1>6, GivenSame
  <2>2. ~WriteInfo
    BY <1>6 DEF WriteInfo, WritesTo, Returns, Puts
  <2> USE DEF mainVars, memberVars, sinkVars, printVars
  <2>3. CASE MakePlain \/ MakeFile \/ MakeUdp \/ UnknownHost \/ Listen \/ ListenFails
             \/ StartBroadcast
    BY <2>1, <2>3 DEF MakePlain, MakeFile, MakeUdp, UnknownHost, Listen, ListenFails,
                StartBroadcast
  <2>4. CASE BrokenPipe \/ NoContext \/ MainReturns \/ Accept
    BY <2>1, <2>4 DEF BrokenPipe, NoContext, MainReturns, Accept
  <2>5. CASE WriteReturns \/ ReaderLeft \/ ClientReads \/ ClientLeaves \/ UNCHANGED vars
    BY <2>1, <2>5 DEF WriteReturns, ReaderLeft, ClientReads, ClientLeaves, vars
  <2>6. CASE WriteStdio \/ WriteFile \/ WriteUdp \/ WriteTcp \/ WriteOcv
    BY <2>1, <2>6 DEF WriteStdio, WriteFile, WriteUdp, WriteTcp, WriteOcv
  <2> QED BY <2>2, <2>3, <2>4, <2>5, <2>6 DEF Next, Main
<1>7. CASE WritesTo("stdio") /\ Returns
  <2>1. /\ WriteStdio /\ G' = Append(G, count) /\ Waits("stdio")
        /\ ~(WritesTo("stdio_info") /\ Returns)
    <3>1. ~WritesTo("stdio_info")
      BY <1>3, <1>7 DEF WritesTo
    <3> QED BY <1>7, <3>1, Writer, GivenGrows
  <2> DEFINE line == <<"stdio", count>>
  <2>2. Puts(line)
    BY <2>1 DEF WriteStdio
  <2>3. line \in L /\ line[1] = "stdio" /\ line[2] = count
    BY <1>1, <1>3
  <2> HIDE DEF line, G, I, L
  <2>4. /\ buffered' \in Seq(L) /\ stdout' \in Seq(L) /\ lossy' = lossy
        /\ AllLines' = Append(AllLines, line) /\ num_packets' = num_packets /\ I' = I
    BY <1>5, <1>6, <2>1, <2>2, <2>3
  <2>5. Printed(Append(AllLines, line), "stdio", ToSet(G) \cup {count}, ~lossy)
    <3>1. \A x \in ToSet(G) : x < line[2]
      BY <1>1, <2>1, <2>3
    <3>2. Printed(Append(AllLines, line), "stdio", ToSet(G) \cup {line[2]}, ~lossy)
      BY <1>1, <1>2, <2>3, <3>1, PrintsAppended
    <3> QED BY <2>3, <3>2
  <2>6. Printed(Append(AllLines, line), "stdio_info", 1..Len(I), ~lossy)
    BY <1>1, <1>2, <1>3, <2>3, PrintsAppended
  <2>7. ToSet(G') = ToSet(G) \cup {count}
    <3>1. G \in Seq(Nat) /\ count \in Nat
      BY <1>1
    <3>2. ToSet(Append(G, count)) = ToSet(G) \cup {count}
      BY <3>1, MembersOfAppend
    <3> QED BY <2>1, <3>2
  <2> QED BY <1>1, <2>4, <2>5, <2>6, <2>7
<1>8. CASE WritesTo("stdio_info") /\ Returns
  <2>1. WriteInfo /\ I' = Append(I, count) /\ ~(WritesTo("stdio") /\ Returns)
    <3>1. ~WritesTo("stdio")
      BY <1>3, <1>8 DEF WritesTo
    <3> QED BY <1>8, <3>1, Writer, GivenGrows
  <2> DEFINE line == <<"stdio_info", num_packets + 1>>
  <2>2. Puts(line) /\ num_packets' = num_packets + 1
    BY <2>1 DEF WriteInfo
  <2>3. line \in L /\ line[1] = "stdio_info" /\ line[2] = num_packets + 1
    BY <1>1, <1>3
  <2>4. G' = G
    BY <2>1, GivenSame
  <2> HIDE DEF line, G, I, L
  <2>5. /\ buffered' \in Seq(L) /\ stdout' \in Seq(L) /\ lossy' = lossy
        /\ AllLines' = Append(AllLines, line)
    BY <1>5, <2>2, <2>3
  <2>6. Len(I') = Len(I) + 1
    BY <1>1, <2>1, AppendProperties
  <2>7. Printed(Append(AllLines, line), "stdio_info", 1..Len(I'), ~lossy)
    <3>1. \A x \in 1..Len(I) : x < line[2]
      BY <1>1, <2>3
    <3>2. Printed(Append(AllLines, line), "stdio_info", (1..Len(I)) \cup {line[2]}, ~lossy)
      BY <1>1, <1>2, <2>3, <3>1, PrintsAppended
    <3>3. (1..Len(I)) \cup {line[2]} = 1..Len(I')
      BY <1>1, <2>3, <2>6
    <3> QED BY <3>2, <3>3
  <2>8. Printed(Append(AllLines, line), "stdio", ToSet(G), ~lossy)
    BY <1>1, <1>2, <1>3, <2>3, PrintsAppended
  <2>9. num_packets' \in Nat /\ num_packets' = Len(I')
    BY <1>1, <2>2, <2>6
  <2> QED BY <1>1, <2>4, <2>5, <2>7, <2>8, <2>9
<1>9. CASE ~(WritesTo("stdio") /\ Returns) /\ ~(WritesTo("stdio_info") /\ Returns)
  <2>1. G' = G /\ I' = I /\ num_packets' = num_packets
    BY <1>6, <1>9, GivenSame
  <2>2. ~WriteStdio /\ ~WriteInfo
    BY <1>9 DEF WriteStdio, WriteInfo, WritesTo, Returns, Puts
  <2> HIDE DEF G, I, L
  <2>3. SUFFICES /\ buffered' \in Seq(L) /\ stdout' \in Seq(L) /\ lossy' \in BOOLEAN
                 /\ Printed(AllLines', "stdio", ToSet(G), ~lossy')
                 /\ Printed(AllLines', "stdio_info", 1..Len(I), ~lossy')
    BY <1>1, <2>1
  <2>4. CASE UNCHANGED printVars
    <3>1. UNCHANGED <<buffered, stdout, lossy, AllLines>>
      BY <2>4 DEF printVars, AllLines
    <3> QED BY <1>1, <1>2, <3>1
  <2>5. CASE WriteUdp /\ Puts(<<"udp", count>>)
    <3> DEFINE line == <<"udp", count>>
    <3>1. line \in L /\ line[1] = "udp"
      BY <1>1, <1>3 DEF L
    <3>2. Puts(line)
      BY <2>5
    <3> HIDE DEF line
    <3>3. /\ buffered' \in Seq(L) /\ stdout' \in Seq(L) /\ lossy' = lossy
          /\ AllLines' = Append(AllLines, line)
      BY <1>5, <3>1, <3>2
    <3>4. Printed(Append(AllLines, line), "stdio", ToSet(G), ~lossy)
      BY <1>1, <1>2, <1>3, <3>1, PrintsAppended
    <3>5. Printed(Append(AllLines, line), "stdio_info", 1..Len(I), ~lossy)
      BY <1>1, <1>2, <1>3, <3>1, PrintsAppended
    <3> QED BY <1>1, <3>3, <3>4, <3>5
  <2>6. CASE WriteTcp
    <3>1. /\ buffered' = buffered /\ lossy' = lossy
          /\ stdout' = IF tcp_fd = 1 THEN Append(stdout, <<"tcp_server", count>>) ELSE stdout
      BY <2>6 DEF WriteTcp
    <3>2. CASE tcp_fd = 1
      <4> DEFINE line == <<"tcp_server", count>>
      <4>1. line \in L /\ line[1] = "tcp_server"
        BY <1>1, <1>3 DEF L
      <4>2. stdout' = Append(stdout, line)
        BY <3>1, <3>2
      <4> HIDE DEF line
      <4>3. stdout' \in Seq(L)
        BY <1>1, <4>1, <4>2, AppendProperties
      <4>4. Printed(Append(stdout, line) \o buffered, "stdio", ToSet(G), ~lossy)
        BY <1>1, <1>2, <1>3, <4>1, PrintsInserted DEF AllLines
      <4>5. Printed(Append(stdout, line) \o buffered, "stdio_info", 1..Len(I), ~lossy)
        BY <1>1, <1>2, <1>3, <4>1, PrintsInserted DEF AllLines
      <4>6. AllLines' = Append(stdout, line) \o buffered
        BY <3>1, <4>2 DEF AllLines
      <4> QED BY <1>1, <3>1, <4>3, <4>4, <4>5, <4>6
    <3>3. CASE tcp_fd # 1
      <4>1. UNCHANGED <<buffered, stdout, lossy, AllLines>>
        BY <3>1, <3>3 DEF AllLines
      <4> QED BY <1>1, <1>2, <4>1
    <3> QED BY <3>2, <3>3
  <2>7. CASE \E n \in 0..Len(buffered) : Lines(n) /\ (Keeps(n) \/ Loses(n))
    <3>1. PICK n \in 0..Len(buffered) : Lines(n) /\ (Keeps(n) \/ Loses(n))
      BY <2>7
    <3> QED BY <1>2, <3>1, LinesGone DEF L
  <2> QED BY <1>1, <2>2, <2>4, <2>5, <2>6, <2>7, StdoutKinds
<1> QED BY <1>7, <1>8, <1>9

-----------------------------------------------------------------------------
(* The invariant. *)
SinkInv ==
  /\ window \in BOOLEAN
  /\ UdpInv /\ TcpInv /\ FileInv /\ StdoutInv

DataInv == ControlInv /\ TableInv /\ SinkInv

LEMMA InitDataInv == Init => DataInv
<1> SUFFICES ASSUME Init PROVE DataInv
  OBVIOUS
<1>1. /\ program \in DOMAIN Script /\ pc = "running" /\ step = 1 /\ targets = <<>>
      /\ at = 0 /\ count = 0 /\ since = [target \in Targets |-> 0]
      /\ file_fd = -1 /\ udp_sd = -1 /\ tcp_fd = -1 /\ tcp_sockfd = -1
      /\ window = FALSE /\ num_packets = 0 /\ buffered = <<>> /\ stdout = <<>>
      /\ lossy = FALSE
      /\ pos = 0 /\ client = "none" /\ unread = <<>> /\ received = <<>>
      /\ datagrams = <<>> /\ misused = {}
      /\ MaxFd \in Nat /\ MaxUnread \in Nat /\ OldPackets \in Nat
  BY BoundsAssumption DEF Init
<1>2. /\ targets \in Seq(Targets) /\ Len(targets) = 0 /\ IsInjective(targets)
      /\ Registered = {} /\ Len(Script[program]) \in Nat
  <2>1. <<>> \in Seq(Targets) /\ Len(<<>>) = 0 /\ DOMAIN <<>> = {}
    BY EmptySeq
  <2> QED BY <1>1, <2>1, ScriptFacts DEF IsInjective, Registered, ToSet
<1>3. ControlInv
  BY <1>1, <1>2 DEF ControlInv
<1>4. TableInv
  <2>1. table = [fd \in 0..MaxFd |-> IF fd <= 2 THEN "standard" ELSE "free"]
    BY DEF Init
  <2>2. \A fd \in 0..MaxFd : fd # -1 /\ table[fd] = IF fd <= 2 THEN "standard" ELSE "free"
    BY <1>1, <2>1
  <2>3. Holds
    BY <1>1, <2>2 DEF Holds
  <2>4. OwnDescriptorsOnly
    BY <1>1 DEF OwnDescriptorsOnly
  <2>5. -1 \in -1..MaxFd
    BY <1>1
  <2> QED BY <1>1, <2>1, <2>3, <2>4, <2>5 DEF TableInv
<1>5. \A target : Given(target) = <<>>
  BY <1>2, <1>3, GivenIs
<1>6. <<>> \in Seq(Nat) /\ <<>> \in Seq(Targets \X Nat) /\ Len(<<>>) = 0
      /\ IsPrefix(<<>>, <<>>)
  <2>1. <<>> \in Seq(Nat) /\ <<>> \in Seq(Targets \X Nat) /\ Len(<<>>) = 0
    BY EmptySeq
  <2> QED BY <2>1, PrefixFacts
<1>7. <<>> \o <<>> = <<>>
  BY <1>6, ConcatEmptySeq
<1>8. UdpInv /\ TcpInv
  BY <1>1, <1>5, <1>6, <1>7 DEF UdpInv, TcpInv
<1>9. FileInv
  <2>1. CASE file = <<>>
    <3>1. file \in Seq(Int) /\ Len(file) = 0
      BY <2>1, EmptySeq
    <3>2. FiledInOrder
      BY <1>1, <3>1 DEF FiledInOrder, ToSet
    <3> QED BY <1>1, <3>1, <3>2 DEF FileInv
  <2>2. CASE file = [i \in 1..OldPackets |-> 0]
    <3>1. /\ file \in Seq(Int) /\ Len(file) = OldPackets
          /\ \A i \in 1..OldPackets : file[i] = 0
      BY <1>1, <2>2
    <3>2. FiledInOrder
      BY <1>1, <3>1 DEF FiledInOrder, ToSet
    <3> QED BY <1>1, <3>1, <3>2 DEF FileInv
  <2> QED BY <2>1, <2>2 DEF Init
<1>10. StdoutInv
  <2>1. ToSet(<<>>) = {} /\ 1..0 = {} /\ DOMAIN <<>> = {}
    BY DEF ToSet
  <2>2. \A target, complete : Printed(<<>>, target, {}, complete)
    BY <2>1 DEF Printed, Prints, PrintsAll, Own
  <2>3. AllLines = <<>> /\ Len(<<>>) = 0
    BY <1>1, <1>6, <1>7 DEF AllLines
  <2>4. PrintedInOrder
    BY <1>5, <2>1, <2>2, <2>3, PrintedIs
  <2> QED BY <1>1, <1>5, <1>6, <2>4 DEF StdoutInv
<1> QED BY <1>1, <1>3, <1>4, <1>8, <1>9, <1>10 DEF DataInv, SinkInv

LEMMA NextDataInv == DataInv /\ [Next]_vars => DataInv'
<1> SUFFICES ASSUME DataInv, [Next]_vars PROVE DataInv'
  OBVIOUS
<1>1. ControlInv /\ TableInv /\ SinkInv
  BY DEF DataInv
<1>2. window' \in BOOLEAN
  <2>1. window \in BOOLEAN
    BY <1>1 DEF SinkInv
  <2> USE <2>1 DEF memberVars
  <2>2. CASE MakePlain \/ MakeFile \/ MakeUdp \/ UnknownHost \/ Listen \/ ListenFails
             \/ StartBroadcast
    BY <2>2 DEF MakePlain, MakeFile, MakeUdp, UnknownHost, Listen, ListenFails,
                StartBroadcast
  <2>3. CASE BrokenPipe \/ NoContext \/ MainReturns \/ Accept
    BY <2>3 DEF BrokenPipe, NoContext, MainReturns, Accept
  <2>4. CASE WriteReturns \/ ReaderLeft \/ ClientReads \/ ClientLeaves \/ UNCHANGED vars
    BY <2>4 DEF WriteReturns, ReaderLeft, ClientReads, ClientLeaves, vars
  <2>5. CASE WriteStdio \/ WriteInfo \/ WriteFile \/ WriteUdp \/ WriteTcp
    BY <2>5 DEF WriteStdio, WriteInfo, WriteFile, WriteUdp, WriteTcp
  <2>6. CASE WriteOcv
    BY <2>6 DEF WriteOcv
  <2> QED BY <2>2, <2>3, <2>4, <2>5, <2>6 DEF Next, Main
<1>3. UdpInv' /\ TcpInv' /\ FileInv' /\ StdoutInv'
  BY <1>1, NextUdp, NextTcp, NextFile, NextStdout DEF SinkInv
<1> QED BY <1>1, <1>2, <1>3, NextControl, NextTable DEF DataInv, SinkInv

LEMMA Inductive == Spec => []DataInv
BY InitDataInv, NextDataInv, PTL DEF Spec

-----------------------------------------------------------------------------
(* Every state is what the program can hold. *)
THEOREM TypeCorrect == Spec => []TypeOK
<1>1. DataInv => TypeOK
  BY DEF DataInv, ControlInv, TableInv, SinkInv, TcpInv, StdoutInv, TypeOK
<1> QED BY <1>1, Inductive, PTL

(* packet_server::broadcast and the targets' writes, those to standard     *)
(* output included: each target passes on the packets broadcast since it   *)
(* was registered, in order, and all of them as long as its own calls      *)
(* succeed.                                                                *)
THEOREM Delivered == Spec => []DeliveredInOrder
<1>1. DataInv => DeliveredInOrder
  BY DEF DataInv, SinkInv, UdpInv, TcpInv, FileInv, StdoutInv, DeliveredInOrder, SentInOrder
<1> QED BY <1>1, Inductive, PTL

(* No target touches a descriptor that is not its own, or leaves one open, *)
(* the TCP server that could not listen excepted.                          *)
THEOREM OwnDescriptors == Spec => []OwnDescriptorsOnly
<1>1. DataInv => OwnDescriptorsOnly
  BY DEF DataInv, TableInv
<1> QED BY <1>1, Inductive, PTL
=============================================================================
