-------------------------- MODULE CameraSetupProofs --------------------------
(***************************************************************************)
(* The encoders never convert images from a format the camera does not     *)
(* have, and list every format and size before they choose one; for every  *)
(* camera and every set of formats.                                        *)
(*                                                                         *)
(* The first property speaks of the moment capturing starts.  What makes   *)
(* it inductive is what main has established on the way: from the time the *)
(* format is settled main's copy of it is the camera's, and it is one of   *)
(* the map's or the driver's answer to SetFormat; from the time the        *)
(* converter is set up, it and the planes follow from that copy.           *)
(*                                                                         *)
(* The second needs to know, at every turn of the three nested loops, that *)
(* each list so far is the camera's list up to the current index, and that *)
(* the lists before it are complete.  TypeOK is inductive as it stands and *)
(* comes first, because the lists must be known to be sequences.           *)
(*                                                                         *)
(* Last, a measure of what a program has left to do, which every step      *)
(* makes smaller: the reason why SetupEnds holds.                          *)
(***************************************************************************)
EXTENDS CameraSetup, SequenceTheorems, TLAPS

LEMMA CameraType ==
  ASSUME camera \in Cameras
  PROVE  /\ camera.formats \in Nat /\ camera.sizes \in Nat /\ camera.intervals \in Nat
         /\ camera.format \in Formats
         /\ camera.fallback \in Formats \cup Errors
         /\ camera.interval \in Nat \X Nat
         /\ camera.fallbackInterval \in Nat \X Nat
BY CamerasAssumption

(* An index is appended to the last of several lists.                      *)
LEMMA ListedType ==
  ASSUME NEW S, NEW lists \in Seq(Seq(S)), NEW index \in S
  PROVE  [lists EXCEPT ![Len(lists)] = Append(@, index)] \in Seq(Seq(S))
<1>1. CASE Len(lists) = 0
  <2>1. Len(lists) \notin DOMAIN lists
    BY <1>1
  <2>2. [lists EXCEPT ![Len(lists)] = Append(@, index)] = lists
    BY <2>1
  <2> QED BY <2>2
<1>2. CASE Len(lists) # 0
  <2>1. Len(lists) \in 1..Len(lists)
    BY <1>2
  <2>2. lists[Len(lists)] \in Seq(S)
    BY <2>1
  <2>3. Append(lists[Len(lists)], index) \in Seq(S)
    BY <2>2
  <2> QED BY <2>1, <2>3, ExceptSeq
<1> QED BY <1>1, <1>2

LEMMA InitTypeOK == Init => TypeOK
<1> SUFFICES ASSUME Init PROVE TypeOK
  OBVIOUS
<1>1. camera.format \in Formats
  BY CameraType DEF Init
<1> QED BY <1>1 DEF Init, TypeOK

LEMMA NextTypeOK == TypeOK /\ [Next]_vars => TypeOK'
<1> SUFFICES ASSUME TypeOK, [Next]_vars PROVE TypeOK'
  OBVIOUS
<1> USE DEF TypeOK, Enumerating, Ended, givenVars
<1>0. /\ camera.formats \in Nat /\ camera.sizes \in Nat /\ camera.intervals \in Nat
      /\ camera.fallback \in Formats \cup Errors
      /\ camera.interval \in Nat \X Nat
      /\ camera.fallbackInterval \in Nat \X Nat
  BY CameraType
<1>1. CASE Construct
  BY <1>1 DEF Construct, Throw, Selected, IO, enumVars, formatVars
<1>2. CASE ConstructFails
  BY <1>2 DEF ConstructFails, Throw, enumVars, formatVars
<1>3. CASE EnumFormat
  <2>1. curIndex < camera.formats => curIndex \in 0..(camera.formats - 1)
    BY <1>0
  <2>2. formats' \in Seq(0..(camera.formats - 1))
    <3> DEFINE Index == 0..(camera.formats - 1)
    <3>1. formats \in Seq(Index)
      OBVIOUS
    <3> HIDE DEF Index
    <3>2. curIndex \in Index => Append(formats, curIndex) \in Seq(Index)
      BY <3>1
    <3> QED BY <1>3, <2>1, <3>1, <3>2 DEF EnumFormat, Listable, Index
  <2>3. curIndex' \in Nat
    BY <1>3 DEF EnumFormat, NextIndex
  <2> QED BY <1>3, <2>2, <2>3 DEF EnumFormat, AtEnd, Throw, formatVars
<1>4. CASE NextFormat
  <2>1. Append(sizes, <<>>) \in Seq(Seq(0..(camera.sizes - 1)))
    OBVIOUS
  <2> QED BY <1>4, <2>1 DEF NextFormat, formatVars
<1>5. CASE EnumSize
  <2>1. curIndex < camera.sizes => curIndex \in 0..(camera.sizes - 1)
    BY <1>0
  <2>2. curIndex < camera.sizes =>
           [sizes EXCEPT ![Len(sizes)] = Append(@, curIndex)]
             \in Seq(Seq(0..(camera.sizes - 1)))
    <3> DEFINE Index == 0..(camera.sizes - 1)
    <3>1. sizes \in Seq(Seq(Index))
      OBVIOUS
    <3> HIDE DEF Index
    <3>2. curIndex \in Index =>
             [sizes EXCEPT ![Len(sizes)] = Append(@, curIndex)] \in Seq(Seq(Index))
      BY <3>1, ListedType
    <3> QED BY <2>1, <3>2 DEF Index
  <2>3. sizes' \in Seq(Seq(0..(camera.sizes - 1)))
    BY <1>5, <2>2 DEF EnumSize, Listable
  <2> QED BY <1>5, <2>3 DEF EnumSize, NextIndex, AtEnd, Throw, formatVars
<1>6. CASE NextSize
  <2>1. Append(intervals, <<>>) \in Seq(Seq(0..(camera.intervals - 1)))
    OBVIOUS
  <2> QED BY <1>6, <2>1 DEF NextSize, formatVars
<1>7. CASE EnumInterval
  <2>1. curIndex < camera.intervals => curIndex \in 0..(camera.intervals - 1)
    BY <1>0
  <2>2. curIndex < camera.intervals =>
           [intervals EXCEPT ![Len(intervals)] = Append(@, curIndex)]
             \in Seq(Seq(0..(camera.intervals - 1)))
    <3> DEFINE Index == 0..(camera.intervals - 1)
    <3>1. intervals \in Seq(Seq(Index))
      OBVIOUS
    <3> HIDE DEF Index
    <3>2. curIndex \in Index =>
             [intervals EXCEPT ![Len(intervals)] = Append(@, curIndex)] \in Seq(Seq(Index))
      BY <3>1, ListedType
    <3> QED BY <2>1, <3>2 DEF Index
  <2>3. intervals' \in Seq(Seq(0..(camera.intervals - 1)))
    BY <1>7, <2>2 DEF EnumInterval, Listable
  <2>4. NextInterval(curIndex) \in Nat
    BY DEF NextInterval, NextIndex
  <2> QED BY <1>7, <2>3, <2>4 DEF EnumInterval, AtEnd, Throw, formatVars
<1>8. CASE Negotiate
  BY <1>0, <1>8 DEF Negotiate, ReadFormat, enumVars
<1>9. CASE SetFormat
  BY <1>0, <1>9 DEF SetFormat, AfterRefusal, Throw, Reread, enumVars
<1>10. CASE SetUpConverter
  BY <1>10, KnownAssumption DEF SetUpConverter, enumVars
<1>11. CASE SetUpEncoder
  BY <1>11 DEF SetUpEncoder, enumVars, formatVars
<1>12. CASE OpenSocket
  BY <1>12 DEF OpenSocket, enumVars, formatVars
<1>13. CASE PassOn
  BY <1>0, <1>13 DEF PassOn, ReadFormat, enumVars
<1>14. CASE ReadFails
  BY <1>14 DEF ReadFails, Throw, enumVars, formatVars
<1>15. CASE UNCHANGED vars
  BY <1>15 DEF vars, enumVars, formatVars
<1> QED BY <1>1, <1>2, <1>3, <1>4, <1>5, <1>6, <1>7, <1>8, <1>9, <1>10, <1>11,
           <1>12, <1>13, <1>14, <1>15 DEF Next, Enumerate

(* The lists hold indices the camera has an entry for, in every program.   *)
THEOREM TypeCorrect == Spec => []TypeOK
BY InitTypeOK, NextTypeOK, PTL DEF Spec

-----------------------------------------------------------------------------
FormatSettled ==
  pc \in {"convert", "encoder", "socket", "capturing"} =>
    /\ fmt = camFormat
    /\ IF program = "encoder_h264"
         THEN camFormat \in PassedOn
         ELSE camFormat \in Known \/ camFormat = camera.fallback

ConverterSettled ==
  IF program = "encoder_h264"
    THEN /\ pc \notin {"fallback", "convert", "encoder", "socket"}
         /\ converter = "none"
    ELSE pc \in {"encoder", "socket", "capturing"} =>
           /\ planes = IF fmt = Fallback THEN 3 ELSE 1
           /\ converter = IF fmt \in Known THEN fmt ELSE Fallback

IInv == FormatSettled /\ ConverterSettled

LEMMA InitIInv == Init => IInv
BY DEF Init, IInv, FormatSettled, ConverterSettled

LEMMA NextIInv == IInv /\ [Next]_vars => IInv'
<1> SUFFICES ASSUME IInv, [Next]_vars PROVE IInv'
  OBVIOUS
<1> USE DEF IInv, FormatSettled, ConverterSettled, givenVars
<1>1. CASE Construct
  BY <1>1 DEF Construct, Throw, enumVars, formatVars
<1>2. CASE ConstructFails
  BY <1>2 DEF ConstructFails, Throw, enumVars, formatVars
<1>3. CASE EnumFormat
  BY <1>3 DEF EnumFormat, AtEnd, Throw, formatVars
<1>4. CASE NextFormat
  BY <1>4 DEF NextFormat, formatVars
<1>5. CASE EnumSize
  BY <1>5 DEF EnumSize, AtEnd, Throw, formatVars
<1>6. CASE NextSize
  BY <1>6 DEF NextSize, formatVars
<1>7. CASE EnumInterval
  BY <1>7 DEF EnumInterval, AtEnd, Throw, formatVars
<1>8. CASE Negotiate
  BY <1>8 DEF Negotiate, ReadFormat
<1>9. CASE SetFormat
  BY <1>9 DEF SetFormat, AfterRefusal, Throw, Reread
<1>10. CASE SetUpConverter
  BY <1>10 DEF SetUpConverter
<1>11. CASE SetUpEncoder
  BY <1>11 DEF SetUpEncoder, formatVars
<1>12. CASE OpenSocket
  BY <1>12 DEF OpenSocket, formatVars
<1>13. CASE PassOn
  BY <1>13 DEF PassOn, ReadFormat
<1>14. CASE ReadFails
  BY <1>14 DEF ReadFails, Throw, formatVars
<1>15. CASE UNCHANGED vars
  BY <1>15 DEF vars, formatVars
<1> QED BY <1>1, <1>2, <1>3, <1>4, <1>5, <1>6, <1>7, <1>8, <1>9, <1>10, <1>11,
           <1>12, <1>13, <1>14, <1>15 DEF Next, Enumerate

LEMMA Settled == IInv => ConverterMatchesCamera
<1> SUFFICES ASSUME IInv, pc = "capturing"
             PROVE  ConverterMatchesCamera
  BY DEF ConverterMatchesCamera
<1>1. camFormat = Fallback => camFormat \in Known
  BY KnownAssumption
<1>2. CASE program = "encoder_h264"
  BY <1>2 DEF ConverterMatchesCamera, IInv, FormatSettled, ConverterSettled
<1>3. CASE program # "encoder_h264"
  BY <1>1, <1>3 DEF ConverterMatchesCamera, IInv, FormatSettled, ConverterSettled
<1> QED BY <1>2, <1>3

(* Images are converted from the format the camera has, unless the driver  *)
(* answered the request for the fallback with a format main does not know. *)
THEOREM ConverterIsRight == Spec => []ConverterMatchesCamera
<1>1. Spec => []IInv
  BY InitIInv, NextIInv, PTL DEF Spec
<1> QED BY <1>1, Settled, PTL

-----------------------------------------------------------------------------
(* The lists, at every turn of the loops.                                  *)
AllSizes == AllOf(IF StopsAfterOne /\ camera.sizes > 0 THEN 1 ELSE camera.sizes)
AllIntervals == AllOf(camera.intervals)

(* The first n lists are complete.                                         *)
Complete(lists, n, list) == n <= Len(lists) /\ \A i \in 1..n : lists[i] = list

(* The last list is complete up to the current index, those before it are  *)
(* complete.                                                               *)
Growing(lists, list, end) ==
  /\ Len(lists) > 0
  /\ Complete(lists, Len(lists) - 1, list)
  /\ lists[Len(lists)] = AllOf(curIndex)
  /\ curIndex <= end

Settled_pc == {"negotiate", "fallback", "convert", "encoder", "socket",
               "capturing", "listed"}

FormatsSoFar ==
  /\ pc = "construct" => formats = <<>> /\ curIndex = 0
  /\ pc = "formats" => formats = AllOf(curIndex) /\ curIndex <= camera.formats
  /\ pc \in Settled_pc \cup {"format", "sizes", "size", "intervals"} =>
       formats = AllOf(camera.formats)

SizesSoFar ==
  /\ pc \in {"construct", "formats"} => sizes = <<>>
  /\ pc \in {"format", "size"} => curIndex = 0
  /\ pc \in {"format", "sizes", "size", "intervals"} => Len(sizes) <= camera.formats
  /\ pc \in {"format", "size", "intervals"} => Complete(sizes, Len(sizes), AllSizes)
  /\ pc = "sizes" => /\ Growing(sizes, AllSizes, camera.sizes)
                     /\ StopsAfterOne => curIndex = 0
  /\ pc \in Settled_pc => /\ Len(sizes) = camera.formats
                          /\ Complete(sizes, Len(sizes), AllSizes)

IntervalsSoFar ==
  program = "v4l2_enumerate" =>
    /\ pc = "size" => Complete(intervals, Len(intervals), AllIntervals)
    /\ pc = "intervals" => Growing(intervals, AllIntervals, camera.intervals)

ListsInv == TypeOK /\ FormatsSoFar /\ SizesSoFar /\ IntervalsSoFar

(* The list of n indices, and of one more.                                 *)
LEMMA AllOfFacts ==
  ASSUME NEW n \in Nat
  PROVE  /\ AllOf(n) \in Seq(Nat) /\ Len(AllOf(n)) = n
         /\ \A i \in 1..n : AllOf(n)[i] = i - 1
BY IsASeq DEF AllOf

LEMMA AllOfZero == AllOf(0) = <<>>
<1>1. AllOf(0) \in Seq(Nat) /\ Len(AllOf(0)) = 0
  BY AllOfFacts
<1> QED BY <1>1, EmptySeq

LEMMA AllOfGrows ==
  ASSUME NEW n \in Nat
  PROVE  Append(AllOf(n), n) = AllOf(n + 1)
<1> DEFINE s == Append(AllOf(n), n)
           t == AllOf(n + 1)
<1>1. /\ AllOf(n) \in Seq(Nat) /\ Len(AllOf(n)) = n
      /\ \A i \in 1..n : AllOf(n)[i] = i - 1
  BY AllOfFacts
<1>2. /\ s \in Seq(Nat) /\ Len(s) = n + 1
      /\ \A i \in 1..(n + 1) : s[i] = i - 1
  BY <1>1
<1>3. /\ t \in Seq(Nat) /\ Len(t) = n + 1
      /\ \A i \in 1..(n + 1) : t[i] = i - 1
  BY AllOfFacts
<1> HIDE DEF s, t
<1>4. s = t
  BY <1>2, <1>3, SeqEqual
<1> QED BY <1>4 DEF s, t

(* A list that is begun: nothing is in it.                                 *)
LEMMA BeginsList ==
  ASSUME NEW S, NEW lists \in Seq(Seq(S)), NEW list, NEW end \in Nat,
         Complete(lists, Len(lists), list), curIndex = 0
  PROVE  LET new == Append(lists, <<>>)
         IN  Len(new) = Len(lists) + 1 /\ Growing(new, list, end)
<1> DEFINE new == Append(lists, <<>>)
<1>1. /\ Len(new) = Len(lists) + 1
      /\ new[Len(lists) + 1] = <<>>
      /\ \A i \in 1..Len(lists) : new[i] = lists[i]
  OBVIOUS
<1>2. Len(lists) \in Nat
  OBVIOUS
<1> HIDE DEF new
<1>3. Growing(new, list, end)
  BY <1>1, <1>2, AllOfZero DEF Growing, Complete
<1> QED BY <1>1, <1>3 DEF new

(* An entry is added to the last list.                                     *)
LEMMA ListGrows ==
  ASSUME NEW S, NEW lists \in Seq(Seq(S)), NEW list, NEW end \in Nat,
         curIndex \in Nat, curIndex \in S, Growing(lists, list, end)
  PROVE  LET new == [lists EXCEPT ![Len(lists)] = Append(@, curIndex)]
         IN  /\ Len(new) = Len(lists)
             /\ Complete(new, Len(lists) - 1, list)
             /\ new[Len(lists)] = AllOf(curIndex + 1)
<1> DEFINE last == Append(lists[Len(lists)], curIndex)
           new == [lists EXCEPT ![Len(lists)] = last]
<1>1. Len(lists) \in Nat \ {0} /\ Len(lists) \in 1..Len(lists)
  BY DEF Growing
<1>2. last \in Seq(S)
  <2>1. lists[Len(lists)] \in Seq(S)
    BY <1>1, ElementOfSeq
  <2> QED BY <2>1
<1>3. last = AllOf(curIndex + 1)
  BY AllOfGrows DEF Growing
<1> HIDE DEF last
<1>4. /\ Len(new) = Len(lists)
      /\ \A i \in 1..Len(lists) : new[i] = IF i = Len(lists) THEN last ELSE lists[i]
  BY <1>1, <1>2, ExceptSeq
<1> HIDE DEF new
<1>5. Complete(new, Len(lists) - 1, list)
  BY <1>1, <1>4 DEF Growing, Complete
<1>6. new[Len(lists)] = AllOf(curIndex + 1)
  BY <1>1, <1>3, <1>4
<1> QED BY <1>4, <1>5, <1>6 DEF new, last

(* The last list is complete, too.                                         *)
LEMMA ListEnds ==
  ASSUME NEW S, NEW lists \in Seq(Seq(S)), NEW list, Len(lists) > 0,
         Complete(lists, Len(lists) - 1, list), lists[Len(lists)] = list
  PROVE  Complete(lists, Len(lists), list)
<1>1. Len(lists) \in Nat
  OBVIOUS
<1>2. \A i \in 1..Len(lists) : i \in 1..(Len(lists) - 1) \/ i = Len(lists)
  BY <1>1
<1> QED BY <1>1, <1>2 DEF Complete

LEMMA InitListsInv == Init => ListsInv
<1> SUFFICES ASSUME Init PROVE ListsInv
  OBVIOUS
<1>1. TypeOK
  BY InitTypeOK
<1> QED BY <1>1 DEF Init, ListsInv, FormatsSoFar, SizesSoFar, IntervalsSoFar,
                    Settled_pc

LEMMA NextListsInv == ListsInv /\ [Next]_vars => ListsInv'
<1> SUFFICES ASSUME ListsInv, [Next]_vars PROVE ListsInv'
  OBVIOUS
<1>1. TypeOK /\ TypeOK'
  BY NextTypeOK DEF ListsInv
<1>2. camera.formats \in Nat /\ camera.sizes \in Nat /\ camera.intervals \in Nat
  BY <1>1, CameraType DEF TypeOK
<1>3. /\ curIndex \in Nat
      /\ formats \in Seq(0..(camera.formats - 1))
      /\ sizes \in Seq(Seq(0..(camera.sizes - 1)))
      /\ intervals \in Seq(Seq(0..(camera.intervals - 1)))
  BY <1>1 DEF TypeOK
<1>4. camera' = camera /\ program' = program
  BY DEF Next, vars, givenVars, Construct, ConstructFails, Enumerate, EnumFormat,
         NextFormat, EnumSize, NextSize, EnumInterval, Negotiate, PassOn, ReadFormat,
         ReadFails, SetFormat, SetUpConverter, SetUpEncoder, OpenSocket
<1>5. /\ StopsAfterOne' = StopsAfterOne /\ AllSizes' = AllSizes
      /\ AllIntervals' = AllIntervals
  BY <1>4 DEF StopsAfterOne, AllSizes, AllIntervals, AllOf
<1>6. /\ sizes' \in Seq(Seq(0..(camera.sizes - 1)))
      /\ intervals' \in Seq(Seq(0..(camera.intervals - 1)))
  BY <1>1, <1>4 DEF TypeOK
<1>7. FormatsSoFar /\ SizesSoFar /\ IntervalsSoFar
  BY DEF ListsInv
<1>8. SUFFICES (FormatsSoFar /\ SizesSoFar /\ IntervalsSoFar)'
  BY <1>1 DEF ListsInv
(* Outside the loops the lists stay as they are. *)
<1>9. ASSUME UNCHANGED enumVars,
             pc' = pc \/ (pc \in Settled_pc /\ pc' \in Settled_pc)
             \/ pc' \in {"dead", "caught", "failed"}
      PROVE  (FormatsSoFar /\ SizesSoFar /\ IntervalsSoFar)'
  BY <1>4, <1>5, <1>7, <1>9
     DEF enumVars, FormatsSoFar, SizesSoFar, IntervalsSoFar, Growing, Settled_pc
<1>10. CASE Construct
  <2>1. CASE pc' = "formats"
    <3>1. pc = "construct" /\ UNCHANGED enumVars
      BY <1>10 DEF Construct
    <3> QED BY <1>2, <1>4, <1>7, <2>1, <3>1, AllOfZero
            DEF enumVars, FormatsSoFar, SizesSoFar, IntervalsSoFar, Settled_pc
  <2>2. CASE pc' # "formats"
    BY <1>9, <1>10, <2>2 DEF Construct, Throw
  <2> QED BY <2>1, <2>2
<1>11. CASE EnumFormat
  <2>1. pc = "formats" /\ UNCHANGED <<sizes, intervals>>
    BY <1>11 DEF EnumFormat
  <2>2. CASE Listable(camera.formats)
    <3>1. /\ pc' = "formats" /\ curIndex' = curIndex + 1
          /\ formats' = Append(formats, curIndex)
      BY <1>11, <2>1, <2>2 DEF EnumFormat, NextIndex
    <3>2. formats' = AllOf(curIndex')
      BY <1>3, <1>7, <2>1, <3>1, AllOfGrows DEF FormatsSoFar
    <3>3. curIndex' <= camera'.formats
      BY <1>2, <1>3, <1>4, <2>2, <3>1 DEF Listable
    <3> QED BY <1>7, <2>1, <3>1, <3>2, <3>3
            DEF FormatsSoFar, SizesSoFar, IntervalsSoFar, Settled_pc
  <2>3. CASE ~Listable(camera.formats)
    <3>1. UNCHANGED formats /\ curIndex' = 0 /\ pc' \in {"format", "dead", "caught"}
      BY <1>11, <2>3 DEF EnumFormat, AtEnd, Throw
    <3>2. curIndex = camera.formats
      BY <1>2, <1>3, <1>7, <2>1, <2>3 DEF Listable, FormatsSoFar
    <3>3. formats' = AllOf(camera'.formats)
      BY <1>4, <1>7, <2>1, <3>1, <3>2 DEF FormatsSoFar
    <3>4. Len(sizes') = 0
      BY <1>7, <2>1 DEF SizesSoFar
    <3>5. Complete(sizes', Len(sizes'), AllSizes')
      BY <3>4 DEF Complete
    <3> QED BY <1>2, <1>4, <2>1, <3>1, <3>3, <3>4, <3>5
            DEF FormatsSoFar, SizesSoFar, IntervalsSoFar, Settled_pc
  <2> QED BY <2>2, <2>3
<1>12. CASE NextFormat
  <2>1. /\ pc = "format" /\ UNCHANGED <<curIndex, formats, intervals>>
        /\ curIndex = 0 /\ formats' = AllOf(camera'.formats)
        /\ Len(formats) = camera.formats
    BY <1>2, <1>4, <1>7, <1>12, AllOfFacts
       DEF NextFormat, FormatsSoFar, SizesSoFar
  <2>2. Complete(sizes, Len(sizes), AllSizes) /\ Len(sizes) <= camera.formats
    BY <1>7, <2>1 DEF SizesSoFar
  <2>3. CASE Len(sizes) < Len(formats)
    <3>1. pc' = "sizes" /\ sizes' = Append(sizes, <<>>)
      BY <1>12, <2>3 DEF NextFormat
    <3>2. Len(sizes') = Len(sizes) + 1 /\ Growing(sizes', AllSizes, camera.sizes)
      BY <1>2, <1>3, <2>1, <2>2, <3>1, BeginsList
    <3>3. Len(sizes') <= camera'.formats
      BY <1>2, <1>3, <1>4, <2>1, <2>3, <3>2
    <3>4. Growing(sizes, AllSizes, camera.sizes)'
      BY <1>4, <1>5, <2>1, <3>2 DEF Growing
    <3> QED BY <1>4, <2>1, <3>1, <3>3, <3>4
            DEF FormatsSoFar, SizesSoFar, IntervalsSoFar, Settled_pc
  <2>4. CASE ~(Len(sizes) < Len(formats))
    <3>1. pc' \in {"listed", "negotiate"} /\ UNCHANGED sizes
      BY <1>12, <2>4 DEF NextFormat
    <3>2. Len(sizes) = camera.formats
      BY <1>2, <1>3, <2>1, <2>2, <2>4
    <3> QED BY <1>4, <1>5, <2>1, <2>2, <3>1, <3>2
            DEF FormatsSoFar, SizesSoFar, IntervalsSoFar, Settled_pc
  <2> QED BY <2>3, <2>4
<1>13. CASE EnumSize
  <2>1. /\ pc = "sizes" /\ UNCHANGED formats /\ intervals' = <<>>
        /\ formats' = AllOf(camera'.formats)
    BY <1>4, <1>7, <1>13 DEF EnumSize, FormatsSoFar
  <2>2. /\ Growing(sizes, AllSizes, camera.sizes) /\ Len(sizes) <= camera.formats
        /\ StopsAfterOne => curIndex = 0
    BY <1>7, <2>1 DEF SizesSoFar
  <2>3. Complete(intervals', Len(intervals'), AllIntervals')
    BY <2>1 DEF Complete
  <2>4. CASE Listable(camera.sizes)
    <3>1. sizes' = [sizes EXCEPT ![Len(sizes)] = Append(@, curIndex)]
      BY <1>13, <2>4 DEF EnumSize
    <3>2. curIndex \in 0..(camera.sizes - 1)
      BY <1>2, <1>3, <2>4 DEF Listable
    <3>3. /\ Len(sizes') = Len(sizes) /\ Complete(sizes', Len(sizes) - 1, AllSizes)
          /\ sizes'[Len(sizes)] = AllOf(curIndex + 1)
      BY <1>2, <1>3, <2>2, <3>1, <3>2, ListGrows
    <3>4. Len(sizes) > 0
      BY <2>2 DEF Growing
    <3>5. CASE StopsAfterOne
      <4>1. curIndex' = 0 /\ pc' = "size"
        BY <1>13, <2>4, <3>5 DEF EnumSize
      <4>2. AllSizes = AllOf(curIndex + 1)
        BY <1>2, <2>2, <3>2, <3>5 DEF AllSizes
      <4>3. Complete(sizes', Len(sizes'), AllSizes')
        BY <1>5, <1>6, <3>3, <3>4, <4>2, ListEnds
      <4> QED BY <1>4, <2>1, <2>2, <2>3, <3>3, <4>1, <4>3
              DEF FormatsSoFar, SizesSoFar, IntervalsSoFar, Settled_pc
    <3>6. CASE ~StopsAfterOne
      <4>1. curIndex' = curIndex + 1 /\ pc' = "sizes"
        BY <1>13, <2>1, <2>4, <3>6 DEF EnumSize, NextIndex
      <4>2. curIndex' <= camera'.sizes
        BY <1>2, <1>4, <3>2, <4>1
      <4>3. Growing(sizes, AllSizes, camera.sizes)'
        BY <1>4, <1>5, <3>3, <3>4, <4>1, <4>2 DEF Growing
      <4> QED BY <1>4, <1>5, <2>1, <2>2, <3>3, <3>6, <4>1, <4>3
              DEF FormatsSoFar, SizesSoFar, IntervalsSoFar, Settled_pc
    <3> QED BY <3>5, <3>6
  <2>5. CASE ~Listable(camera.sizes)
    <3>1. UNCHANGED sizes /\ curIndex' = 0 /\ pc' \in {"size", "dead", "caught"}
      BY <1>13, <2>5 DEF EnumSize, AtEnd, Throw
    <3>2. curIndex = camera.sizes
      BY <1>2, <1>3, <2>2, <2>5 DEF Listable, Growing
    <3>3. AllSizes = AllOf(curIndex)
      BY <1>2, <2>2, <3>2 DEF AllSizes
    <3>4. Complete(sizes', Len(sizes'), AllSizes')
      BY <1>3, <1>5, <2>2, <3>1, <3>3, ListEnds DEF Growing
    <3> QED BY <1>4, <2>1, <2>2, <2>3, <3>1, <3>4
            DEF FormatsSoFar, SizesSoFar, IntervalsSoFar, Settled_pc
  <2> QED BY <2>4, <2>5
<1>14. CASE NextSize
  <2>1. /\ pc = "size" /\ UNCHANGED <<curIndex, formats, sizes>> /\ curIndex = 0
        /\ formats' = AllOf(camera'.formats)
        /\ Complete(sizes', Len(sizes'), AllSizes') /\ Len(sizes') <= camera'.formats
    BY <1>4, <1>5, <1>7, <1>14 DEF NextSize, FormatsSoFar, SizesSoFar
  <2>2. CASE pc' = "intervals" /\ intervals' = Append(intervals, <<>>)
    <3>1. ASSUME program = "v4l2_enumerate"
          PROVE  Growing(intervals', AllIntervals, camera.intervals)
      <4>1. Complete(intervals, Len(intervals), AllIntervals)
        BY <1>7, <2>1, <3>1 DEF IntervalsSoFar
      <4> QED BY <1>2, <1>3, <2>1, <2>2, <4>1, BeginsList
    <3>2. (program = "v4l2_enumerate"
             => Growing(intervals, AllIntervals, camera.intervals))'
      BY <1>4, <1>5, <2>1, <3>1 DEF Growing
    <3> QED BY <2>1, <2>2, <3>2
            DEF FormatsSoFar, SizesSoFar, IntervalsSoFar, Settled_pc
  <2>3. CASE pc' = "format" /\ UNCHANGED intervals
    BY <2>1, <2>3 DEF FormatsSoFar, SizesSoFar, IntervalsSoFar, Settled_pc
  <2> QED BY <1>14, <2>2, <2>3 DEF NextSize
<1>15. CASE EnumInterval
  <2>1. /\ pc = "intervals" /\ UNCHANGED <<formats, sizes>>
        /\ formats' = AllOf(camera'.formats)
        /\ Complete(sizes', Len(sizes'), AllSizes') /\ Len(sizes') <= camera'.formats
    BY <1>4, <1>5, <1>7, <1>15 DEF EnumInterval, FormatsSoFar, SizesSoFar
  <2>2. /\ pc' \in {"intervals", "size", "dead", "caught"}
        /\ pc' = "size" => curIndex' = 0
    BY <1>15, <2>1 DEF EnumInterval, AtEnd, Throw
  <2>3. FormatsSoFar' /\ SizesSoFar'
    BY <2>1, <2>2 DEF FormatsSoFar, SizesSoFar, Settled_pc
  <2>4. ASSUME program = "v4l2_enumerate" PROVE IntervalsSoFar'
    <3>1. Growing(intervals, AllIntervals, camera.intervals)
      BY <1>7, <2>1, <2>4 DEF IntervalsSoFar
    <3>2. CASE Listable(camera.intervals)
      <4>1. /\ intervals' = [intervals EXCEPT ![Len(intervals)] = Append(@, curIndex)]
            /\ curIndex' = curIndex + 1 /\ pc' = "intervals"
        BY <1>15, <2>1, <2>4, <3>2 DEF EnumInterval, NextInterval, NextIndex
      <4>2. curIndex \in 0..(camera.intervals - 1)
        BY <1>2, <1>3, <3>2 DEF Listable
      <4>3. /\ Len(intervals') = Len(intervals)
            /\ Complete(intervals', Len(intervals) - 1, AllIntervals)
            /\ intervals'[Len(intervals)] = AllOf(curIndex + 1)
        BY <1>2, <1>3, <3>1, <4>1, <4>2, ListGrows
      <4>4. curIndex' <= camera'.intervals
        BY <1>2, <1>4, <4>1, <4>2
      <4>5. Growing(intervals, AllIntervals, camera.intervals)'
        BY <1>4, <1>5, <3>1, <4>1, <4>3, <4>4 DEF Growing
      <4> QED BY <4>1, <4>5 DEF IntervalsSoFar
    <3>3. CASE ~Listable(camera.intervals)
      <4>1. UNCHANGED intervals /\ pc' \in {"size", "dead", "caught"}
        BY <1>15, <3>3 DEF EnumInterval, AtEnd, Throw
      <4>2. curIndex = camera.intervals
        BY <1>2, <1>3, <3>1, <3>3 DEF Listable, Growing
      <4>3. Complete(intervals', Len(intervals'), AllIntervals')
        BY <1>3, <1>5, <3>1, <4>1, <4>2, ListEnds DEF Growing, AllIntervals
      <4> QED BY <4>1, <4>3 DEF IntervalsSoFar
    <3> QED BY <3>2, <3>3
  <2>5. program # "v4l2_enumerate" => IntervalsSoFar'
    BY <1>4 DEF IntervalsSoFar
  <2> QED BY <2>3, <2>4, <2>5
<1>16. CASE ConstructFails
  BY <1>9, <1>16 DEF ConstructFails, Throw
<1>17. CASE Negotiate \/ PassOn \/ ReadFails
  BY <1>9, <1>17 DEF Negotiate, PassOn, ReadFails, Throw, ReadFormat, Settled_pc
<1>18. CASE SetFormat
  BY <1>9, <1>18 DEF SetFormat, AfterRefusal, Throw, Settled_pc
<1>19. CASE SetUpConverter
  BY <1>9, <1>19 DEF SetUpConverter, Settled_pc
<1>20. CASE SetUpEncoder \/ OpenSocket
  BY <1>9, <1>20 DEF SetUpEncoder, OpenSocket, Settled_pc
<1>21. CASE UNCHANGED vars
  BY <1>9, <1>21 DEF vars
<1> QED BY <1>10, <1>11, <1>12, <1>13, <1>14, <1>15, <1>16, <1>17, <1>18, <1>19,
           <1>20, <1>21 DEF Next, Enumerate

LEMMA ListsAreComplete == ListsInv => FormatsAndSizesComplete
<1> SUFFICES ASSUME ListsInv PROVE FormatsAndSizesComplete
  OBVIOUS
<1>1. camera.formats \in Nat /\ sizes \in Seq(Seq(0..(camera.sizes - 1)))
  BY CameraType DEF ListsInv, TypeOK
<1>2. ASSUME pc \in Settled_pc
      PROVE  /\ formats = AllOf(camera.formats)
             /\ sizes = [i \in 1..camera.formats |-> AllSizes]
  <2>1. formats = AllOf(camera.formats)
    BY <1>2 DEF ListsInv, FormatsSoFar
  <2>2. Len(sizes) = camera.formats /\ \A i \in 1..Len(sizes) : sizes[i] = AllSizes
    BY <1>2 DEF ListsInv, SizesSoFar, Complete
  <2>3. sizes = [i \in 1..Len(sizes) |-> sizes[i]]
    BY <1>1
  <2> QED BY <2>1, <2>2, <2>3
<1>3. ASSUME program = "v4l2_enumerate", pc = "size"
      PROVE  \A i \in DOMAIN intervals : intervals[i] = AllOf(camera.intervals)
  <2>1. DOMAIN intervals = 1..Len(intervals)
    BY DEF ListsInv, TypeOK
  <2> QED BY <1>3, <2>1 DEF ListsInv, IntervalsSoFar, Complete, AllIntervals
<1> QED BY <1>2, <1>3 DEF FormatsAndSizesComplete, AllSizes, Settled_pc

(* What a program goes on with, or has printed, is all the camera has:     *)
(* every format, every size and, from v4l2_enumerate, every interval;      *)
(* whatever camera it is.                                                  *)
THEOREM ListsComplete == Spec => []FormatsAndSizesComplete
<1>1. Spec => []ListsInv
  BY InitListsInv, NextListsInv, PTL DEF Spec
<1> QED BY <1>1, ListsAreComplete, PTL

-----------------------------------------------------------------------------
(* What is left to do, in the order in which it weighs: the stage main is  *)
(* in; the formats whose sizes are not listed; within the turn of a        *)
(* format, whether its sizes are being listed, or their intervals, or      *)
(* neither; the sizes whose intervals are not listed; whether those of one *)
(* are being listed; and the entries the running enumeration may yet find. *)
Looping == {"format", "sizes", "size", "intervals"}

Stage == CASE pc = "construct" -> 8
           [] pc = "formats"   -> 7
           [] pc \in Looping   -> 6
           [] pc = "negotiate" -> 5
           [] pc = "fallback"  -> 4
           [] pc = "convert"   -> 3
           [] pc = "encoder"   -> 2
           [] pc = "socket"    -> 1
           [] OTHER            -> 0
FormatsLeft == IF pc \in Looping THEN Len(formats) - Len(sizes) ELSE 0
Turn == CASE pc = "sizes" -> 2
          [] pc \in {"size", "intervals"} -> 1
          [] OTHER -> 0
SizesLeft == IF pc \in {"size", "intervals"} THEN Len(Last(sizes)) - Len(intervals) ELSE 0
Inner == IF pc = "intervals" THEN 1 ELSE 0
EntriesLeft ==
  LET Entries == CASE pc = "formats"   -> camera.formats
                   [] pc = "sizes"     -> camera.sizes
                   [] pc = "intervals" -> camera.intervals
                   [] OTHER            -> 0
  IN  IF curIndex < Entries THEN Entries - curIndex ELSE 0

Measured ==
  {Stage, FormatsLeft, Turn, SizesLeft, Inner, EntriesLeft} \subseteq Nat

(* The measure descends, lexicographically. *)
Advances ==
  \/ Stage' < Stage
  \/ /\ Stage' = Stage
     /\ \/ FormatsLeft' < FormatsLeft
        \/ /\ FormatsLeft' = FormatsLeft
           /\ \/ Turn' < Turn
              \/ /\ Turn' = Turn
                 /\ \/ SizesLeft' < SizesLeft
                    \/ /\ SizesLeft' = SizesLeft
                       /\ \/ Inner' < Inner
                          \/ Inner' = Inner /\ EntriesLeft' < EntriesLeft

(* Inside a turn there is a list of sizes, and no more lists of intervals  *)
(* than there are sizes.                                                   *)
TurnsInOrder ==
  /\ pc \in {"sizes", "size", "intervals"} => Len(sizes) > 0
  /\ pc \in {"size", "intervals"} => Len(intervals) <= Len(Last(sizes))

(* An entry that is added to the last of several lists adds no list.       *)
LEMMA NoListAdded ==
  ASSUME NEW S, NEW lists \in Seq(Seq(S)), NEW index \in S
  PROVE  Len([lists EXCEPT ![Len(lists)] = Append(@, index)]) = Len(lists)
<1>1. CASE Len(lists) = 0
  <2>1. Len(lists) \notin DOMAIN lists
    BY <1>1
  <2>2. [lists EXCEPT ![Len(lists)] = Append(@, index)] = lists
    BY <2>1
  <2> QED BY <2>2
<1>2. CASE Len(lists) # 0
  <2>1. Len(lists) \in 1..Len(lists)
    BY <1>2
  <2>2. Append(lists[Len(lists)], index) \in Seq(S)
    BY <2>1
  <2> QED BY <2>1, <2>2, ExceptSeq
<1> QED BY <1>1, <1>2

(* The lengths the measure is made of are numbers.                         *)
LEMMA Lengths ==
  ASSUME ListsInv
  PROVE  /\ Len(formats) \in Nat /\ Len(sizes) \in Nat /\ Len(intervals) \in Nat
         /\ Len(sizes) > 0 => Len(Last(sizes)) \in Nat
         /\ curIndex \in Nat
         /\ camera.formats \in Nat /\ camera.sizes \in Nat /\ camera.intervals \in Nat
         /\ pc \in Looping => Len(formats) = camera.formats /\ Len(sizes) <= Len(formats)
<1>1. /\ camera.formats \in Nat /\ camera.sizes \in Nat /\ camera.intervals \in Nat
      /\ curIndex \in Nat
  BY CameraType DEF ListsInv, TypeOK
<1>2. Len(formats) \in Nat /\ Len(sizes) \in Nat /\ Len(intervals) \in Nat
  BY DEF ListsInv, TypeOK
<1>3. Len(sizes) > 0 => Len(Last(sizes)) \in Nat
  <2> SUFFICES ASSUME Len(sizes) > 0 PROVE Len(Last(sizes)) \in Nat
    OBVIOUS
  <2> DEFINE S == Seq(0..(camera.sizes - 1))
  <2>1. sizes \in Seq(S)
    BY DEF ListsInv, TypeOK
  <2> HIDE DEF S
  <2>2. Len(sizes) \in 1..Len(sizes)
    BY <1>2
  <2>3. sizes[Len(sizes)] \in S
    BY <2>1, <2>2, ElementOfSeq
  <2> QED BY <2>3 DEF S, Last
<1>4. pc \in Looping => Len(formats) = camera.formats /\ Len(sizes) <= Len(formats)
  BY <1>1, AllOfFacts DEF Looping, ListsInv, FormatsSoFar, SizesSoFar
<1> QED BY <1>1, <1>2, <1>3, <1>4

LEMMA NextTurnsInOrder == ListsInv /\ TurnsInOrder /\ [Next]_vars => TurnsInOrder'
<1> SUFFICES ASSUME ListsInv, TurnsInOrder, [Next]_vars PROVE TurnsInOrder'
  OBVIOUS
<1>1. /\ Len(formats) \in Nat /\ Len(sizes) \in Nat /\ Len(intervals) \in Nat
      /\ Len(sizes) > 0 => Len(Last(sizes)) \in Nat
      /\ curIndex \in Nat
      /\ camera.sizes \in Nat /\ camera.intervals \in Nat
      /\ sizes \in Seq(Seq(0..(camera.sizes - 1)))
      /\ intervals \in Seq(Seq(0..(camera.intervals - 1)))
  BY Lengths DEF ListsInv, TypeOK
<1>2. ASSUME UNCHANGED <<sizes, intervals>>,
             pc' = pc \/ pc' \notin {"sizes", "size", "intervals"}
                      \/ (pc = "intervals" /\ pc' = "size")
      PROVE  TurnsInOrder'
  BY <1>2 DEF TurnsInOrder, Last
<1>3. CASE NextFormat
  <2>1. CASE pc' = "sizes"
    <3>1. sizes' = Append(sizes, <<>>)
      BY <1>3, <2>1 DEF NextFormat
    <3>2. Len(sizes') = Len(sizes) + 1
      BY <1>1, <3>1
    <3> QED BY <1>1, <2>1, <3>2 DEF TurnsInOrder
  <2>2. CASE pc' # "sizes"
    BY <1>2, <1>3, <2>2 DEF NextFormat
  <2> QED BY <2>1, <2>2
<1>4. CASE EnumSize
  <2>1. pc = "sizes" /\ Len(sizes) > 0 /\ intervals' = <<>>
    BY <1>4 DEF EnumSize, TurnsInOrder
  <2>2. sizes' \in Seq(Seq(0..(camera.sizes - 1))) /\ Len(sizes') = Len(sizes)
    <3>1. CASE curIndex < camera.sizes
      <4>1. sizes' = [sizes EXCEPT ![Len(sizes)] = Append(@, curIndex)]
        BY <1>4, <3>1 DEF EnumSize, Listable
      <4>2. curIndex \in 0..(camera.sizes - 1)
        BY <1>1, <3>1
      <4> QED BY <1>1, <4>1, <4>2, ListedType, NoListAdded
    <3>2. CASE ~(curIndex < camera.sizes)
      BY <1>1, <1>4, <3>2 DEF EnumSize, Listable
    <3> QED BY <3>1, <3>2
  <2>3. Len(Last(sizes')) \in Nat
    <3> DEFINE S == Seq(0..(camera.sizes - 1))
    <3> HIDE DEF S
    <3>1. Len(sizes') \in 1..Len(sizes') /\ sizes' \in Seq(S)
      BY <1>1, <2>1, <2>2 DEF S
    <3>2. sizes'[Len(sizes')] \in S
      BY <3>1, ElementOfSeq
    <3> QED BY <3>2 DEF S, Last
  <2>4. Len(intervals') = 0
    BY <2>1
  <2> QED BY <1>1, <2>1, <2>2, <2>3, <2>4 DEF TurnsInOrder
<1>5. CASE NextSize
  <2>1. CASE pc' = "intervals"
    <3>1. /\ intervals' = Append(intervals, <<>>) /\ sizes' = sizes
          /\ Len(intervals) < Len(Last(sizes)) /\ Len(sizes) > 0
      BY <1>5, <2>1 DEF NextSize, TurnsInOrder
    <3>2. Len(intervals') = Len(intervals) + 1
      BY <1>1, <3>1
    <3> QED BY <1>1, <2>1, <3>1, <3>2 DEF TurnsInOrder
  <2>2. CASE pc' # "intervals"
    BY <1>2, <1>5, <2>2 DEF NextSize
  <2> QED BY <2>1, <2>2
<1>6. CASE EnumInterval
  <2>1. /\ pc = "intervals" /\ Len(sizes) > 0 /\ sizes' = sizes
        /\ Len(intervals) <= Len(Last(sizes))
    BY <1>6 DEF EnumInterval, TurnsInOrder
  <2>2. Len(intervals') = Len(intervals)
    <3>1. CASE curIndex < camera.intervals
      <4>1. intervals' = [intervals EXCEPT ![Len(intervals)] = Append(@, curIndex)]
        BY <1>6, <3>1 DEF EnumInterval, Listable
      <4>2. curIndex \in 0..(camera.intervals - 1)
        BY <1>1, <3>1
      <4> QED BY <1>1, <4>1, <4>2, NoListAdded
    <3>2. CASE ~(curIndex < camera.intervals)
      BY <1>6, <3>2 DEF EnumInterval, Listable
    <3> QED BY <3>1, <3>2
  <2> QED BY <2>1, <2>2 DEF TurnsInOrder
<1>7. CASE EnumFormat
  BY <1>2, <1>7 DEF EnumFormat, AtEnd, Throw
<1>8. CASE Construct \/ ConstructFails
  BY <1>2, <1>8 DEF Construct, ConstructFails, Throw, enumVars
<1>9. CASE \/ Negotiate \/ PassOn \/ ReadFails \/ SetFormat
           \/ SetUpConverter \/ SetUpEncoder \/ OpenSocket
  BY <1>2, <1>9 DEF Negotiate, PassOn, ReadFails, Throw, ReadFormat, SetFormat,
     AfterRefusal, SetUpConverter, SetUpEncoder, OpenSocket, enumVars
<1>10. CASE UNCHANGED vars
  BY <1>2, <1>10 DEF vars, enumVars
<1> QED BY <1>3, <1>4, <1>5, <1>6, <1>7, <1>8, <1>9, <1>10 DEF Next, Enumerate

(* What is left is always a number of things.                              *)
LEMMA LeftMeasured == ListsInv /\ TurnsInOrder => Measured
<1> SUFFICES ASSUME ListsInv, TurnsInOrder PROVE Measured
  OBVIOUS
<1>1. Stage \in Nat /\ Turn \in Nat /\ Inner \in Nat
  BY DEF Stage, Turn, Inner
<1>2. FormatsLeft \in Nat
  BY Lengths DEF FormatsLeft
<1>3. SizesLeft \in Nat
  BY Lengths DEF SizesLeft, TurnsInOrder
<1>4. EntriesLeft \in Nat
  BY Lengths DEF EntriesLeft
<1> QED BY <1>1, <1>2, <1>3, <1>4 DEF Measured

(* Each step of main leaves less to do.                                    *)
LEMMA StepAdvances == ListsInv /\ TurnsInOrder /\ [Next]_vars => [Advances]_vars
<1> SUFFICES ASSUME ListsInv, TurnsInOrder, Next PROVE Advances
  OBVIOUS
<1>1. /\ Len(formats) \in Nat /\ Len(sizes) \in Nat /\ Len(intervals) \in Nat
      /\ Len(sizes) > 0 => Len(Last(sizes)) \in Nat
      /\ curIndex \in Nat
      /\ camera.formats \in Nat /\ camera.sizes \in Nat /\ camera.intervals \in Nat
      /\ sizes \in Seq(Seq(0..(camera.sizes - 1)))
      /\ intervals \in Seq(Seq(0..(camera.intervals - 1)))
  BY Lengths DEF ListsInv, TypeOK
<1>2. ASSUME Stage' < Stage PROVE Advances
  BY <1>2 DEF Advances
<1>3. CASE Construct \/ ConstructFails
  BY <1>2, <1>3 DEF Construct, ConstructFails, Throw, Stage, Looping
<1>4. CASE EnumFormat
  <2>1. CASE curIndex < camera.formats
    <3>1. pc = "formats" /\ pc' = pc /\ curIndex' = curIndex + 1 /\ camera' = camera
      BY <1>4, <2>1 DEF EnumFormat, Listable, NextIndex, givenVars
    <3>2. /\ Stage' = Stage /\ FormatsLeft' = FormatsLeft /\ Turn' = Turn
          /\ SizesLeft' = SizesLeft /\ Inner' = Inner
      BY <3>1 DEF Stage, FormatsLeft, Turn, SizesLeft, Inner, Looping
    <3>3. EntriesLeft' < EntriesLeft
      BY <1>1, <2>1, <3>1 DEF EntriesLeft
    <3> QED BY <3>2, <3>3 DEF Advances
  <2>2. CASE ~(curIndex < camera.formats)
    BY <1>2, <1>4, <2>2 DEF EnumFormat, Listable, AtEnd, Throw, Stage, Looping
  <2> QED BY <2>1, <2>2
<1>5. CASE NextFormat
  <2>1. CASE Len(sizes) < Len(formats)
    <3>1. /\ pc = "format" /\ pc' = "sizes" /\ formats' = formats
          /\ sizes' = Append(sizes, <<>>)
      BY <1>5, <2>1 DEF NextFormat
    <3>2. Len(sizes') = Len(sizes) + 1
      BY <1>1, <3>1
    <3>3. Stage' = Stage
      BY <3>1 DEF Stage, Looping
    <3>4. FormatsLeft' < FormatsLeft
      BY <1>1, <3>1, <3>2 DEF FormatsLeft, Looping
    <3> QED BY <3>3, <3>4 DEF Advances
  <2>2. CASE ~(Len(sizes) < Len(formats))
    BY <1>2, <1>5, <2>2 DEF NextFormat, Stage, Looping
  <2> QED BY <2>1, <2>2
<1>6. CASE EnumSize
  <2>1. /\ pc = "sizes" /\ formats' = formats /\ camera' = camera
    BY <1>6 DEF EnumSize, givenVars
  <2>2. Len(sizes') = Len(sizes)
    <3>1. CASE curIndex < camera.sizes
      <4>1. sizes' = [sizes EXCEPT ![Len(sizes)] = Append(@, curIndex)]
        BY <1>6, <3>1 DEF EnumSize, Listable
      <4>2. curIndex \in 0..(camera.sizes - 1)
        BY <1>1, <3>1
      <4> QED BY <1>1, <4>1, <4>2, NoListAdded
    <3>2. CASE ~(curIndex < camera.sizes)
      BY <1>6, <3>2 DEF EnumSize, Listable
    <3> QED BY <3>1, <3>2
  <2>3. CASE pc' = "sizes"
    <3>1. curIndex < camera.sizes /\ curIndex' = curIndex + 1
      BY <1>6, <2>3 DEF EnumSize, Listable, AtEnd, Throw, NextIndex
    <3>2. /\ Stage' = Stage /\ FormatsLeft' = FormatsLeft /\ Turn' = Turn
          /\ SizesLeft' = SizesLeft /\ Inner' = Inner
      BY <2>1, <2>2, <2>3 DEF Stage, FormatsLeft, Turn, SizesLeft, Inner, Looping
    <3>3. EntriesLeft' < EntriesLeft
      BY <1>1, <2>1, <2>3, <3>1 DEF EntriesLeft
    <3> QED BY <3>2, <3>3 DEF Advances
  <2>4. CASE pc' = "size"
    <3>1. Stage' = Stage /\ FormatsLeft' = FormatsLeft /\ Turn' < Turn
      BY <2>1, <2>2, <2>4 DEF Stage, FormatsLeft, Turn, Looping
    <3> QED BY <3>1 DEF Advances
  <2>5. CASE pc' \notin {"sizes", "size"}
    BY <1>2, <1>6, <2>1, <2>5 DEF EnumSize, AtEnd, Throw, Stage, Looping
  <2> QED BY <2>3, <2>4, <2>5
<1>7. CASE NextSize
  <2>1. pc = "size" /\ formats' = formats /\ sizes' = sizes /\ Len(sizes) > 0
    BY <1>7 DEF NextSize, TurnsInOrder
  <2>2. CASE pc' = "intervals"
    <3>1. intervals' = Append(intervals, <<>>)
      BY <1>7, <2>2 DEF NextSize
    <3>2. Len(intervals') = Len(intervals) + 1
      BY <1>1, <3>1
    <3>3. Stage' = Stage /\ FormatsLeft' = FormatsLeft /\ Turn' = Turn
      BY <2>1, <2>2 DEF Stage, FormatsLeft, Turn, Looping
    <3>4. SizesLeft' < SizesLeft
      BY <1>1, <2>1, <2>2, <3>2 DEF SizesLeft, Last
    <3> QED BY <3>3, <3>4 DEF Advances
  <2>3. CASE pc' = "format"
    <3>1. Stage' = Stage /\ FormatsLeft' = FormatsLeft /\ Turn' < Turn
      BY <2>1, <2>3 DEF Stage, FormatsLeft, Turn, Looping
    <3> QED BY <3>1 DEF Advances
  <2> QED BY <1>7, <2>2, <2>3 DEF NextSize
<1>8. CASE EnumInterval
  <2>1. /\ pc = "intervals" /\ formats' = formats /\ sizes' = sizes /\ camera' = camera
    BY <1>8 DEF EnumInterval, givenVars
  <2>2. Len(intervals') = Len(intervals)
    <3>1. CASE curIndex < camera.intervals
      <4>1. intervals' = [intervals EXCEPT ![Len(intervals)] = Append(@, curIndex)]
        BY <1>8, <3>1 DEF EnumInterval, Listable
      <4>2. curIndex \in 0..(camera.intervals - 1)
        BY <1>1, <3>1
      <4> QED BY <1>1, <4>1, <4>2, NoListAdded
    <3>2. CASE ~(curIndex < camera.intervals)
      BY <1>8, <3>2 DEF EnumInterval, Listable
    <3> QED BY <3>1, <3>2
  <2>3. CASE pc' = "intervals"
    <3>1. curIndex < camera.intervals /\ curIndex' \in {curIndex + 1, curIndex + 2}
      BY <1>8, <2>3 DEF EnumInterval, Listable, AtEnd, Throw, NextInterval, NextIndex
    <3>2. /\ Stage' = Stage /\ FormatsLeft' = FormatsLeft /\ Turn' = Turn
          /\ SizesLeft' = SizesLeft /\ Inner' = Inner
      BY <2>1, <2>2, <2>3 DEF Stage, FormatsLeft, Turn, SizesLeft, Inner, Looping, Last
    <3>3. EntriesLeft' < EntriesLeft
      BY <1>1, <2>1, <2>3, <3>1 DEF EntriesLeft
    <3> QED BY <3>2, <3>3 DEF Advances
  <2>4. CASE pc' = "size"
    <3>1. /\ Stage' = Stage /\ FormatsLeft' = FormatsLeft /\ Turn' = Turn
          /\ SizesLeft' = SizesLeft /\ Inner' < Inner
      BY <2>1, <2>2, <2>4 DEF Stage, FormatsLeft, Turn, SizesLeft, Inner, Looping, Last
    <3> QED BY <3>1 DEF Advances
  <2>5. CASE pc' \notin {"intervals", "size"}
    BY <1>2, <1>8, <2>1, <2>5 DEF EnumInterval, AtEnd, Throw, Stage, Looping
  <2> QED BY <2>3, <2>4, <2>5
<1>9. CASE Negotiate \/ PassOn \/ ReadFails
  BY <1>2, <1>9 DEF Negotiate, PassOn, ReadFails, Throw, ReadFormat, Stage, Looping
<1>10. CASE SetFormat
  BY <1>2, <1>10 DEF SetFormat, AfterRefusal, Throw, Stage, Looping
<1>11. CASE SetUpConverter \/ SetUpEncoder \/ OpenSocket
  BY <1>2, <1>11 DEF SetUpConverter, SetUpEncoder, OpenSocket, Stage, Looping
<1> QED BY <1>3, <1>4, <1>5, <1>6, <1>7, <1>8, <1>9, <1>10, <1>11 DEF Next, Enumerate

(* However many formats, sizes and intervals a camera has, and whatever it *)
(* answers, every step of a program leaves less to do, and what is left is *)
(* measured by numbers: no list is asked for again, no request repeated    *)
(* (the loops of main over GetFormats, GetSizes and GetIntervals, and the  *)
(* SetFormat whose retry is commented out).                                *)
THEOREM SetupAdvances == Spec => [][Advances]_vars /\ []Measured
<1>1. Init => TurnsInOrder
  BY DEF Init, TurnsInOrder
<1> QED BY <1>1, InitListsInv, NextListsInv, NextTurnsInOrder, LeftMeasured,
           StepAdvances, PTL DEF Spec
=============================================================================
