---------------------------- MODULE CameraSetup ----------------------------
(***************************************************************************)
(* What the programs do with a camera before they capture.  encoder and    *)
(* encoder_udp choose an IO method, list the formats, frame sizes and      *)
(* frame intervals of the camera (VideoCapture::GetFormats, GetSizes,      *)
(* GetIntervals), agree with it on a pixel format that can be converted,   *)
(* and set up the converter, the encoder and, for encoder_udp, the socket. *)
(* encoder_h264 lists the same and takes the format as it is, if it is one *)
(* it passes on.  v4l2_enumerate lists, with enumerations of its own, and  *)
(* ends.                                                                   *)
(*                                                                         *)
(* A camera is a record: the IO methods it supports; how many formats,     *)
(* sizes of each format and intervals of each size it has; whether its     *)
(* sizes are discrete; for each of the three enumerations the error of an  *)
(* index behind the end; its format at first; what it makes of a request   *)
(* for the fallback (a format, or the error EINVAL or EBUSY); and its      *)
(* frame interval, a fraction, at first and once the format was changed.   *)
(*                                                                         *)
(* Nothing catches what VideoCapture throws, so an exception ends the      *)
(* process (pc = "dead").  An integer division by zero does, too.  The     *)
(* main of v4l2_enumerate catches (pc = "caught"), prints the error, and   *)
(* returns 0 as it does when all is listed (pc = "listed").                *)
(***************************************************************************)
EXTENDS Integers, Sequences, SequencesExt

CONSTANTS Cameras,   \* the cameras there are
          Formats,   \* pixel formats
          Known,     \* the formats of FormatMap in encoder and encoder_udp
          PassedOn   \* those of FormatMap in encoder_h264

Programs == {"encoder", "encoder_udp", "encoder_h264", "v4l2_enumerate"}
IO == {"READ", "USERPTR", "MMAP"}
Fallback == "YUV420"
Errors == {"EINVAL", "EBUSY"}
Enumerations == {"formats", "sizes", "intervals"}

ASSUME KnownAssumption ==
  Known \subseteq Formats /\ Fallback \in Known /\ PassedOn \subseteq Formats
ASSUME CamerasAssumption ==
  \A c \in Cameras :
    /\ c.io \subseteq IO
    /\ {c.formats, c.sizes, c.intervals} \subseteq Nat
    /\ c.discrete \in BOOLEAN
    /\ c.end \in [Enumerations -> {"EINVAL", "ENOTTY"}]
    /\ c.format \in Formats
    /\ c.fallback \in Formats \cup Errors
    /\ {c.interval, c.fallbackInterval} \subseteq Nat \X Nat

VARIABLES program,    \* the program that runs
          camera,     \* the camera that is plugged in
          camFormat,  \* its format
          pc,
          mIO,        \* the chosen IO method, or "none"
          curIndex,   \* of the enumeration that runs
          formats,    \* the indices GetFormats has listed
          sizes,      \* those GetSizes has listed, for each format so far
          intervals,  \* those GetIntervals has listed, for each size so far
          fmt,        \* main's copy of the format
          fps,        \* main's copy of the interval
          planes,     \* how many planes GetLayout finds
          converter   \* the source format of the converter, or "none"

enumVars == <<curIndex, formats, sizes, intervals>>
formatVars == <<fmt, fps, planes, converter>>
givenVars == <<program, camera>>
vars == <<givenVars, camFormat, pc, mIO, enumVars, formatVars>>

-----------------------------------------------------------------------------
(* IOMethods finds what is supported, in this order; the constructor takes *)
(* MMAP, the method requested, or else the last one.                       *)
Selected == IF "MMAP" \in camera.io THEN "MMAP"
            ELSE IF "USERPTR" \in camera.io THEN "USERPTR"
            ELSE "READ"

(* An exception. *)
Throw == pc' = IF program = "v4l2_enumerate" THEN "caught" ELSE "dead"

(* The constructor of VideoCapture, or the first lines of v4l2_enumerate,  *)
(* which has no use for an IO method.                                      *)
Construct ==
  /\ pc = "construct"
  /\ IF program = "v4l2_enumerate"
       THEN pc' = "formats" /\ UNCHANGED mIO
       ELSE IF camera.io = {}
         THEN Throw /\ UNCHANGED mIO
         ELSE pc' = "formats" /\ mIO' = Selected
  /\ UNCHANGED <<givenVars, camFormat, enumVars, formatVars>>

(* The device cannot be opened, or captures no video. *)
ConstructFails ==
  /\ pc = "construct"
  /\ Throw
  /\ UNCHANGED <<givenVars, camFormat, mIO, enumVars, formatVars>>

(* curIndex++, and a mutant that increments it twice. *)
NextIndex_Twice(index) == index + 2
NextIndex(index) == index + 1

(* The call finds an entry with this index.  The mutant keeps the entry of *)
(* the call that failed, too.                                              *)
Listable_OneMore(n) == curIndex <= n
Listable(n) == curIndex < n

(* The enumeration that runs ends with EINVAL; any other error is thrown.  *)
AtEnd(next) == IF camera.end[pc] = "EINVAL" THEN pc' = next ELSE Throw

EnumFormat ==
  /\ pc = "formats"
  /\ IF Listable(camera.formats)
       THEN /\ formats' = Append(formats, curIndex)
            /\ curIndex' = NextIndex(curIndex)
            /\ UNCHANGED <<pc, sizes>>
       ELSE /\ AtEnd("format")
            /\ curIndex' = 0
            /\ UNCHANGED <<formats, sizes>>
  /\ UNCHANGED <<givenVars, camFormat, mIO, intervals, formatVars>>

(* main's loop over the formats. *)
NextFormat ==
  /\ pc = "format"
  /\ IF Len(sizes) < Len(formats)
       THEN pc' = "sizes" /\ sizes' = Append(sizes, <<>>)
       ELSE /\ pc' = IF program = "v4l2_enumerate" THEN "listed" ELSE "negotiate"
            /\ UNCHANGED sizes
  /\ UNCHANGED <<givenVars, camFormat, mIO, curIndex, formats, intervals, formatVars>>

(* GetSizes stops after one entry if it is not discrete; v4l2_enumerate    *)
(* asks on until there is no other.                                        *)
StopsAfterOne == program # "v4l2_enumerate" /\ ~camera.discrete

EnumSize ==
  /\ pc = "sizes"
  /\ IF Listable(camera.sizes)
       THEN /\ sizes' = [sizes EXCEPT ![Len(sizes)] = Append(@, curIndex)]
            /\ IF StopsAfterOne
                 THEN curIndex' = 0 /\ pc' = "size"
                 ELSE curIndex' = NextIndex(curIndex) /\ UNCHANGED pc
       ELSE /\ AtEnd("size")
            /\ curIndex' = 0
            /\ UNCHANGED sizes
  /\ intervals' = <<>>
  /\ UNCHANGED <<givenVars, camFormat, mIO, formats, formatVars>>

(* main's loop over the sizes of a format. *)
NextSize ==
  /\ pc = "size"
  /\ IF Len(intervals) < Len(Last(sizes))
       THEN pc' = "intervals" /\ intervals' = Append(intervals, <<>>)
       ELSE pc' = "format" /\ UNCHANGED intervals
  /\ UNCHANGED <<givenVars, camFormat, mIO, curIndex, formats, sizes, formatVars>>

(* GetIntervals increments curIndex before the call and after it;          *)
(* v4l2_enumerate after it only.                                           *)
NextInterval(index) ==
  IF program = "v4l2_enumerate" THEN NextIndex(index) ELSE index + 2

EnumInterval ==
  /\ pc = "intervals"
  /\ IF Listable(camera.intervals)
       THEN /\ intervals' = [intervals EXCEPT ![Len(intervals)] = Append(@, curIndex)]
            /\ curIndex' = NextInterval(curIndex)
            /\ UNCHANGED pc
       ELSE /\ AtEnd("size")
            /\ curIndex' = 0
            /\ UNCHANGED intervals
  /\ UNCHANGED <<givenVars, camFormat, mIO, formats, sizes, formatVars>>

Enumerate == EnumFormat \/ NextFormat \/ EnumSize \/ NextSize \/ EnumInterval

-----------------------------------------------------------------------------
(* GetFormat and GetInterval. *)
ReadFormat ==
  /\ pc = "negotiate"
  /\ fmt' = camFormat
  /\ fps' = camera.interval
  /\ UNCHANGED <<givenVars, camFormat, mIO, enumVars, planes, converter>>

(* One of the two throws.                                                  *)
ReadFails ==
  /\ pc = "negotiate"
  /\ Throw
  /\ UNCHANGED <<givenVars, camFormat, mIO, enumVars, formatVars>>

(* Is the format in the FormatMap?  If it is not, encoder and encoder_udp  *)
(* ask the camera for another one.                                         *)
Negotiate ==
  /\ program \in {"encoder", "encoder_udp"}
  /\ ReadFormat
  /\ pc' = IF fmt' \in Known THEN "convert" ELSE "fallback"

(* encoder_h264 takes what is in its own FormatMap, or exits. *)
PassOn ==
  /\ program = "encoder_h264"
  /\ ReadFormat
  /\ pc' = IF fmt' \in PassedOn THEN "capturing" ELSE "failed"

(* VIDIOC_S_FMT is refused: EINVAL makes SetFormat return false, and main  *)
(* exit; EBUSY is thrown.  The mutant is the retry that is commented out.  *)
AfterRefusal_Retry(error) == IF error = "EBUSY" THEN "fallback" ELSE "failed"
AfterRefusal(error) == IF error = "EBUSY" THEN "dead" ELSE "failed"

(* SetFormat(YUV420).  A driver may also accept, and take another format.  *)
(* GetFormat and GetInterval are then called again, and may throw; the     *)
(* mutant trusts what was asked for.                                       *)
Reread_Trusting == Fallback
Reread == camera.fallback

SetFormat ==
  /\ pc = "fallback"
  /\ IF camera.fallback \in Errors
       THEN /\ pc' = AfterRefusal(camera.fallback)
            /\ UNCHANGED <<camFormat, fmt, fps>>
       ELSE /\ camFormat' = camera.fallback
            /\ \/ pc' = "convert" /\ fmt' = Reread /\ fps' = camera.fallbackInterval
               \/ Throw /\ UNCHANGED <<fmt, fps>>
  /\ UNCHANGED <<givenVars, mIO, enumVars, planes, converter>>

(* GetLayout, and FormatMap's colorspace.  For a format that is not in the *)
(* map its operator[] makes one: the enumerator 0, which is YUV420P.       *)
SetUpConverter ==
  /\ pc = "convert"
  /\ planes' = IF fmt = Fallback THEN 3 ELSE 1
  /\ converter' = IF fmt \in Known THEN fmt ELSE Fallback
  /\ pc' \in {"encoder", "failed"}
  /\ UNCHANGED <<givenVars, camFormat, mIO, enumVars, fmt, fps>>

(* The frames per second are an integer, and divide the bit rate.          *)
FramesPerSecond == fps[2] \div fps[1]
SetUpEncoder ==
  /\ pc = "encoder"
  /\ IF fps[1] = 0 \/ FramesPerSecond = 0
       THEN pc' = "dead"
       ELSE pc' \in {IF program = "encoder_udp" THEN "socket" ELSE "capturing",
                     "failed"}
  /\ UNCHANGED <<givenVars, camFormat, mIO, enumVars, formatVars>>

(* encoder_udp: socket, and setsockopt for broadcasts. *)
OpenSocket ==
  /\ pc = "socket"
  /\ pc' \in {"capturing", "failed"}
  /\ UNCHANGED <<givenVars, camFormat, mIO, enumVars, formatVars>>

-----------------------------------------------------------------------------
Init ==
  /\ program \in Programs
  /\ camera \in Cameras
  /\ camFormat = camera.format
  /\ pc = "construct"
  /\ mIO = "none"
  /\ curIndex = 0
  /\ formats = <<>> /\ sizes = <<>> /\ intervals = <<>>
  /\ fmt = "none"
  /\ fps = <<0, 0>>
  /\ planes = 0
  /\ converter = "none"

Next == \/ Construct \/ ConstructFails \/ Enumerate \/ Negotiate \/ PassOn
        \/ ReadFails \/ SetFormat \/ SetUpConverter \/ SetUpEncoder \/ OpenSocket

(* The process runs; every call returns. *)
Fairness == WF_vars(Next)

Spec == Init /\ [][Next]_vars /\ Fairness

-----------------------------------------------------------------------------
Ended == {"capturing", "failed", "dead", "listed", "caught"}
Enumerating == {"formats", "format", "sizes", "size", "intervals"}

(* The lists hold indices the camera has an entry for. *)
TypeOK ==
  /\ program \in Programs
  /\ camera \in Cameras /\ camFormat \in Formats
  /\ pc \in Enumerating \cup {"construct", "negotiate", "fallback", "convert",
                              "encoder", "socket"} \cup Ended
  /\ mIO \in IO \cup {"none"}
  /\ curIndex \in Nat
  /\ formats \in Seq(0..(camera.formats - 1))
  /\ sizes \in Seq(Seq(0..(camera.sizes - 1)))
  /\ intervals \in Seq(Seq(0..(camera.intervals - 1)))
  /\ fmt \in Formats \cup {"none"}
  /\ fps \in Nat \X Nat
  /\ planes \in {0, 1, 3}
  /\ converter \in Known \cup {"none"}

AllOf(n) == [i \in 1..n |-> i - 1]

(* "dump supported formats/sizes": when main goes on, every format of the  *)
(* camera has been listed, and for each of them every size, or the first   *)
(* one if it stands for all; and v4l2_enumerate has listed every interval  *)
(* of a size before it goes on to the next (GetFormats, GetSizes,          *)
(* EnumFormats, EnumSizes, EnumIntervals and the loops that call them).    *)
FormatsAndSizesComplete ==
  /\ pc \in {"negotiate", "fallback", "convert", "encoder", "socket",
             "capturing", "listed"} =>
       /\ formats = AllOf(camera.formats)
       /\ sizes = [i \in 1..camera.formats |->
                     AllOf(IF StopsAfterOne /\ camera.sizes > 0
                             THEN 1 ELSE camera.sizes)]
  /\ program = "v4l2_enumerate" /\ pc = "size" =>
       \A i \in DOMAIN intervals : intervals[i] = AllOf(camera.intervals)

(* When capturing starts, main knows the camera's format, and images are   *)
(* converted from it, with its number of planes: also if the driver took   *)
(* another format than the one it was asked for.  encoder_h264 converts    *)
(* nothing and captures only what it passes on.  The exception is a        *)
(* driver that answers with a format the map does not have: its images are *)
(* read as three planes of YUV420P, of which only one has been set up.     *)
ConverterMatchesCamera ==
  pc = "capturing" =>
    /\ fmt = camFormat
    /\ program = "encoder_h264" => camFormat \in PassedOn /\ converter = "none"
    /\ program # "encoder_h264" =>
         \/ /\ converter = camFormat
            /\ planes = (IF camFormat = Fallback THEN 3 ELSE 1)
         \/ /\ camFormat \notin Known
            /\ camFormat = camera.fallback
            /\ planes = 1

(* Whatever the camera says, a program gets to capturing, or to the end of *)
(* its list, or gives up: no list is endless and no request is repeated    *)
(* for ever.                                                               *)
SetupEnds == <>(pc \in Ended)

(* Violated: main says it dumps the "supported formats/sizes/fps".  Every  *)
(* interval of a size has been listed when main goes on to the next size.  *)
IntervalsComplete ==
  pc = "size" => \A i \in DOMAIN intervals : intervals[i] = AllOf(camera.intervals)
=============================================================================
