# Formal models of LowLatencyVideoPrototype

TLA+ models of the programs in this repository, the TLC configurations that
check small instances of them, and theorems that TLAPS proves for every value
of the constants.

    tlc -workers 2 -config ViewerStdin.cfg ViewerStdin.tla     # model-check a run
    tlapm VideoCaptureProofs.tla                               # check the proofs

## 1. The system

The repository is a set of small programs that move live video from a V4L2
camera to a screen with as little delay as possible, and one that drives a
robot.

    camera --V4L2--> encoder      --stdout pipe--> viewer_stdin / viewer_sdl
                     encoder_h264 --stdout pipe--> viewer_stdin / viewer_sdl
                     encoder_udp  --UDP----------> viewer_udp_ocv
                                  --UDP, netcat--> viewer_stdin
    file   --destreamer.h--> test_data_source_ocv
    splitter --packet_server--> window, log, file, UDP socket, TCP connection
    remote --UDP----> Robot/mc    --PWM----------> steering, throttle

| component | state | operations | what makes it correct | module |
|---|---|---|---|---|
| `x264_destreamer` | 32-bit shift register, `sync` flag, bytes of the current unit | `write`/`input` one byte at a time; broadcasts a unit when the next start code arrives | no byte lost, repeated or reordered; cut at start codes and nowhere else | `Destreamer` |
| `destreamer.h` | a file in memory, two positions | `open_264`, `get_next_block` | the same cuts as the other splitter | `BlockReader` |
| `packet_server` | list of targets | `register_callback`, `broadcast` | every target is given every packet, in order, unless one before it blocks for ever or ends the process | `DataSources` (in `Destreamer`: the history `packets`) |
| data sources: stdio, stdio_info, file, UDP, TCP server, decoder window | a descriptor each, a counter, a conversion context | constructor, `write`, destructor | each uses its own descriptor; a failed one harms no other | `DataSources` |
| `viewer_stdin` | its input | `getchar` loop, end of file tested after the write | reads all, then ends | `ViewerStdin`, `EncoderPipe` |
| `encoder` | camera, scaler, x264, stdout | start-up; loop: start code, `LockFrame`, encode, rest of the frame | starts with a format it can convert; a frame is shown without waiting for the next | `CameraSetup`, `EncoderPipe` |
| `encoder_udp`, `viewer_udp_ocv` | socket | one datagram per frame; bounded `recvfrom` | whatever the network does, no packet reaches into the next frame | `CameraSetup`, `WholeFrames` |
| `encoder_h264` | camera | lock, test of the length, write, unlock | passes on what the camera encoded | `CameraSetup`, `WholeFrames`, client of `VideoCapture` |
| `VideoCapture` (`v4l2device.hpp`) | IO method, capturing and locked flags, buffer memory, last dequeued buffer | `StartCapture`, `LockFrame`, `UnlockFrame`, `StopCapture`, destructor; enumerations and format calls | each buffer in one place; memory outlives the driver's use of it; frames in order | `VideoCapture` ⇒ `FrameLease`; `CameraSetup` |
| `v4l2_enumerate` | - | enumerations of its own | lists everything | `CameraSetup` |
| `viewer_sdl` | `FrameQueue` and its mutex, SDL's event queue, texture | decoder thread pushes and posts; `main` polls, pops, renders, quits | no race, no pop of an empty queue, images uploaded once each and in order, the screen never behind for good | `ViewerSdl` |
| `Robot/mc` | two PWM levels, signal mask, socket | receive with timeout, apply, `estop`, SIGINT handler, destructors | the motor does not run on without a remote | `MotorController` |
| test programs | the objects `main` makes | register and broadcast in a fixed order | what they print as expected | `DataSources`, `BlockReader` |
| `Robot/proper_PWM`, scripts | - | - | - | not modelled (section 7) |

The components interact by calls (encoder to `VideoCapture`, splitter to the
targets of `packet_server`), by byte streams and datagrams (encoders to
viewers), by buffers shared with a driver that fills them at any time
(`VideoCapture`), by a queue, a mutex and events shared by two threads
(`viewer_sdl`), by the process's table of descriptors (data sources), and by
signals (`Robot/mc`). What is hard is listed, line by line, under `hazards` in
`PROJECT.json`: the splitter's lag and overlapping start codes; the encoder's
trick of writing a start code early; the driver and the client handing buffers
back and forth while calls fail; a decoder thread that outlives the queue it
uses; datagrams that are lost, repeated and reordered; one target that blocks
or dies while others wait for their packet; a motor that must stop when packets
cease, under a signal mask.

## 2. Modules and the code they stand for

**`Destreamer`** (`x264_destreamer.cpp`, `viewer_stdin.cpp`). `previous_state`,
`sync` and `buffer` are the class's members; `Input` is
`x264_destreamer::input`, `ReadByte` and `ReadEof` are the two ways a turn of
`viewer_stdin`'s loop can go: end of file is written as the byte 255 before
`feof` is asked. (If `getchar` fails without an end of file, the loop of
`viewer_stdin.cpp:19-22` writes that byte again and again and never ends. To the
splitter it is a byte read like any other; `ViewerEnds` is about pipes, whose
reads do not fail that way.) The register is four bytes rather than one 32-bit word, so
that shifting and masking are what they are on bytes. The eight zeros that are
appended before a broadcast and left out of its length are padding for the
decoder and not part of a packet. `packets` (all that was broadcast), `seen`
(the register's first content, then all that was written) and `cuts` (where
units begin in `seen`) are history. `ViewerSpec(maxInput)` is the viewer alone,
fed with any bytes, the end of file at any point; three modules supply the
bytes:

- **`ViewerStdin`** is `ViewerSpec` with its bound for TLC. It extends
  **`BlockReader`**, which adds to `Destreamer` the other splitter,
  `get_next_block` of `destreamer.h`, and the loop of `test_data_source_ocv` that
  calls it, as functions of the bytes read so far: the pure algorithm is compared
  with the state machine at every state.
- **`EncoderPipe`** (`encoder.cpp:369-450`): the encoder's loop at the other end
  of a pipe. `WriteHeader`, `Capture`, `Encode` are the loop's three blocking
  parts; `Body` is the write "except the first NAL header", which takes
  `buf.size()` bytes from `&buf[4]` and so four bytes past the end: `Beyond` is
  the set of values that memory may have, an arbitrary choice at each write.
  `CaptureFails` is an exception of `LockFrame` or `UnlockFrame`.
- **`WholeFrames`** (`encoder_udp.cpp:404-489`, `encoder_h264.cpp:231-258`,
  `viewer_udp_ocv.cpp`): the two encoders that send each frame start code and all,
  and their players; `path`, chosen in `Init`, says which programs are at work.
  A datagram may be lost (no copy), duplicated (two copies) and reordered
  (`Arrive` takes any of those under way); `viewer_udp_ocv` cuts it to
  `MAXRECVSTRING` bytes, and may not be listening (`DieWithError`). `sendto` may
  fail, which ends `encoder_udp`. `Forward` is a turn of `encoder_h264`; in mode
  READ `image` is the frame buffer, which keeps the bytes of older frames behind a
  shorter new one, because `LockFrame` ignores what `read` returned, and which
  holds at first whatever was in the memory that `new` returned (`Memory`: any
  bytes). Of x264's frames it is assumed that they are empty or begin with a start
  code that a NAL follows (`FramesAssumption`). Of a camera's frames nothing is
  assumed: `encoder_h264` also passes on `H264_NO_SC` and MJPEG, whose frames have
  no start code, so that `viewer_stdin` finds nothing to cut in them or cuts
  somewhere inside. The properties speak of the frames that begin with one.

**`VideoCapture`** (`v4l2device.hpp:39-300`): one action per call of the class,
`LockFrame` in three steps (up to `select`, `select` returns, dequeue) because
the driver (`Fill`) runs in between. A client may stop, start again or destroy
the object at any time, also with a frame locked: `StopCapture` does not look at
`mIsLocked`, frees the memory under the client's frame and leaves the lock, which
is then stale (`Stranded`) once capturing starts again. `OutOfTurn` is the two
exceptions for calls out of turn. What the class relies on is that `LockFrame` is
called only while it captures. The driver is external: it fills queued
buffers in order, refuses a buffer it already has (`MayRequeue`), and forgets
everything on STREAMOFF. `memory` stands for the allocation or mapping that
`mBuffers` point to; freeing it twice would make it `"misfreed"`. What can go wrong is `faults`, chosen in `Init`.
`DequeueIgnored` is the branch for EAGAIN and EIO. The throw for errors of
`select` other than EINTR is nested in the branch for EINTR and never reached, so
with the fault `"select"` an error counts as readiness.
**`FrameLease`** is what the class promises its client: frames leased one at a
time, in order, each at most once. With faults (`faulty`) a lease may also be
misread (`Misread`) or change, but no frame is taken out of turn. `VideoCapture`
implements it under the mapping `Lease`, where `ready` is the content of the
filled buffers and `lease` the image in the locked one.

**`CameraSetup`** (`encoder.cpp:188-369`, `encoder_udp.cpp:185-394`,
`encoder_h264.cpp:168-223`, `v4l2_enumerate.cpp:48-247`, and
`v4l2device.hpp:37-484`): what the four programs do with a camera before they
capture, or instead: the constructor's choice of an IO method, the three nested
enumerations (`v4l2_enumerate` has its own), the agreement on a pixel format, the
converter, the encoder's parameters, the socket. The program and the camera, a
record, are chosen in `Init`. Each of the enumerations has its own error behind
the last entry, so each may end its list or throw; `ReadFails` is the throw of
`GetFormat` or `GetInterval`, which `SetFormat` can make, too.

**`DataSources`** (`packet_server.cpp`, `data_source_*.cpp`, and the `main` of
five programs): `Script` is what each `main` makes, registers and broadcasts.
`StartBroadcast` and `Advance` are the loop of `broadcast`, `at` the target whose
`write` runs; one action per constructor and per `write`, with the outcomes its
system calls can have. `table` is the kernel's table of descriptors, lowest free
one first, so that a number that was closed may be another target's later.
`tcp_fd` is any number when the TCP server could not listen, because the code
leaves `fd` uninitialised then. What is printed goes to the buffer of stdout
(`Puts`). The call may have to write the buffer to descriptor 1; that write waits
while a pipe is full, may write a part or fail (`WriteReturns`), or end the
process when the reader has left (`ReaderLeft`). Nobody looks at the results; `lossy`
records that something was lost. What the network loses behind `sendto`, as
`NOTES` says it does, is not in this module but in `WholeFrames`. `misused`,
`datagrams`, `received`, `stdout`, `lossy` and `since` are history. A partly written packet stands in `file` as its negative.

**`ViewerSdl`** (`viewer_sdl.cpp:133-368`): both threads step by step between
their accesses to shared state. After `DestroyQueue` the mutex is destroyed
while the decoder thread may still lock it; that is undefined, and modelled as a
lock that excludes nobody. Uploading an image (`UpdateTexture`) and presenting it
(`Render`, which sets the history variable `screen`) are two things: while more
events wait, the inner loop goes on to the next image, and only the last one
uploaded is presented.

**`MotorController`** (`Robot/mc.cpp`, `Robot/PWM.cpp`,
`Robot/signal_control.h`, `Robot/RCPacket.h`): the loop, the SIGINT handler, the
mask, the drivers' assertions, constructors and destructors. The commands in
`set_level` that would set the hardware are commented out in the code and only
printed; *level* here is the level last passed to a `set_level` whose assertions
held. Time is counted in ticks and passes while the process waits in
`CheckSockets`, or is gone.

**`MC*`** modules only give constants their values; **`*Proofs`** modules hold the
theorems (section 6).

## 3. Runs

| run | question | bounds, and why they are enough |
|---|---|---|
| `ViewerStdin` | Does the splitter keep every byte and cut exactly at start codes? Do the two splitters of the repository agree? | every stream of up to 15 bytes over {0, 1}, plus end of file: three start codes, adjacent, overlapping or spaced, fit in it. Other byte values all behave alike (not 0, not 1); 255 occurs as the register's first content and as EOF |
| `EncoderPipe` | Is each frame kept apart from the one before, and shown without waiting for the next? Does the viewer end? | three frames of no, one or two NALs; behind the encoder's buffer harmless bytes, a start code, or the middle of one. Frame *k* interacts with its neighbours only |
| `EncoderPipeComment` | (violation) Is a frame written "except the first NAL header"? | as above |
| `WholeFrames` | What do loss, duplication, reordering, truncation, a dead player and stale bytes in the frame buffer do to the players? | three frames, three datagrams under way: a loss, a duplicate and a swap in one behaviour. `MAXRECVSTRING` 8 and `MaxDatagram` 10: a frame of two NALs is longer than the one, of three longer than the other. `SizeImage` 10: a frame of one NAL leaves bytes of one of two NALs behind it. The camera of `encoder_h264` also delivers an empty frame, a bare start code, frames that end in zeros or in a start code, and frames without one; fresh memory is of zeros, of other bytes, or ends in a start code or a part of one |
| `VideoCapture` | Buffers, memory, lease, order, refinement of `FrameLease`; without faults, and when calls fail | four buffers as the code requests, seven frame numbers (more than buffers + 1, so that two live frames are never confused); any number of calls, restarts and stale locks included; no faults, errors of `select`, EIO, or all of them at any call |
| `VideoCaptureComment` | (violation) Does `LockFrame` return the next frame? | `select` errors and EIO |
| `CameraSetup` | Do the four programs list all they should, agree on a format they can use, and end? | up to two formats, two sizes, three intervals; every subset of IO methods; known and unknown formats; every answer to the fallback; rates of 30 Hz, 0.5 Hz and none |
| `CameraSetupComment` | (violation) Are all frame intervals listed? | as above |
| `ViewerSdl` | Races, empty pops, lost and repeated images, what gets to the screen, shutdown | five packets, three user events, an event queue of three: it overflows |
| `DataSources` | Does each target get its packets, whatever happens to the others? Whose descriptors are used? Does the broadcast end? | the scripts of the programs, at most six targets and six packets; every call that can fail does or does not, each time; a TCP connection that holds one packet, so that it is full; standard output that takes all, a part or nothing of what is buffered, stalls, or whose reader leaves; a file of four old packets, longer than what is written |
| `MotorController` | Does the motor stop without a remote? Are commands carried out whole, and is SIGINT served between them? | timeout of two ticks, levels -1, 0, 60, 101 (both sides of the asserted range), one packet in the socket, any number of packets and signals |
| `MotorControllerAssert` | (violation) Are levels in the asserted range? | as above |

Deadlock checking is off in every run because every one of these programs can
stop: at the end of its input, by an exception, by an assertion, or because the
camera owes nothing. What must not stop is a liveness property instead.

The properties worth a second look:

- `PacketsTileStream`, `SplitExactlyAtStartCodes`: `cuts` relates the splitter's
  delayed state to the whole stream. A bare start code is merged with the unit
  after it; that is the only exception the code makes, and the property names it.
- `SplittersAgree`: two implementations that were never compared, one with a shift
  register and one scanning ahead, agree on every stream but for the two
  differences the property names.
- `NothingHeldBack`: what `encoder.cpp:373-376` is for. While the encoder waits
  for the camera, a viewer that has caught up holds only start codes. Compare
  `LastNalHeldBack` of `WholeFrames`: sending whole frames costs one NAL of delay.
- `FrameBoundariesKept`: the four stray bytes after each frame never join two
  frames, whatever they are.
- `LossNeverSplices`: no packet reaches into a frame that begins with a start code,
  although anything may stand in front of it in the stream: half a start code at
  the end of old bytes in the buffer of mode READ, say. Two exceptions are in it,
  because the code makes them. A bare start code that ends what was written
  before is glued to the next frame, since the splitter merges a bare start code
  with what follows. And in mode READ what arrives is the frame *and* the stale
  bytes behind it; the property only bounds that mix.
- `BuffersAccounted`, `StrandedLockIsFatal`: buffers are in one place even when
  a failed dequeue, or a lock from before a restart, makes the class believe it
  has one; no frame is leased behind such a lock, because the class refuses to
  lock again and the driver refuses the buffer.
- `MemoryOutlivesUse`: it is about the driver, which must not fill memory that is
  gone, and about freeing once. It does not say that a client's locked frame
  outlives `StopCapture`: it does not.
- `DeliveredInOrder`, `OwnDescriptorsOnly`: a UDP target that gives up, a file that
  takes half a packet, a standard output that is full: none of them costs another
  target a packet, and no number that was closed is used or closed again. The
  exception, the TCP server that could not listen, is named.
- `BroadcastEnds`: what can hold up all targets for ever is a TCP client that never
  comes, or stays and never reads, and a reader of standard output that stalls;
  nothing else. A TCP client that leaves, or a reader of standard output that
  does, ends the process by SIGPIPE.
- `FrameAccounting`: an event that SDL refuses leaves the display one image
  behind for the rest of the session; the property counts exactly that.
- `ShownInOrder`, `EveryFrameShown`: each image is *uploaded* once and in order, but
  not each is *seen*. The screen only moves forward, and for each image it or a
  later one gets there.
- `ConverterMatchesCamera`: after a fallback the driver may have altered, the
  converter is the one for the format read back. One exception is named.
- `NoRunaway`: open throttle without a recent packet only if the process was
  ended by an assertion or an unhandled signal.
- `CommandsWhole`: an open throttle never goes with the steering of another packet,
  not even where a signal has interrupted or ended the controller. It fails if
  the mask does not cover both `set_level` calls.

## 4. Fairness

- `EncoderPipe`: weak fairness of `WriteHeader`, encoding, and the viewer's reads.
  Both are running processes whose blocking calls are enabled. None of `Capture`:
  nothing makes a camera deliver, and `FrameReleased` is about that very case.
- `WholeFrames`: weak fairness of `ViewerRead` and `ViewerEof` only. The network,
  the camera and the encoders owe nothing; `NextFrameReleases` starts from an
  arrival.
- `VideoCapture`: weak fairness of `Fill`, `SelectReturns` and `Dequeue`: a camera
  that streams fills queued buffers, and a system call that can return does. The
  client need not call anything. With faults `LockReturns` allows an exception.
- `CameraSetup`: weak fairness of `Next`: the start-up never waits.
- `DataSources`: weak fairness of `Main`: a process runs when its call can return.
  Nobody has to connect (`Accept`), to read, or to leave, and the write to standard
  output need not return.
- `ViewerSdl`: weak fairness of `main` and of the decoder thread once it has an
  image. Not of input or the user. A mutex under weak fairness suffices because
  `main` takes it only once per frame event and packets are bounded.
- `MotorController`: weak fairness of the loop, the clock and the delivery of a
  pending SIGINT.

## 5. Disagreements between the code and its comments

The `findings` of `PROJECT.json`, each with a run that shows it.

1. `encoder.cpp:425-426`: the write "except the first NAL header" is four bytes
   too long and reads past the buffer (`EncoderPipeComment`). The viewer survives
   it (`FrameBoundariesKept`, proved for all values of these bytes).
2. `v4l2device.hpp:228-232, 258-260`: `LockFrame` does not always "wait for next
   frame": an error of `select`, or EIO, makes it return an image that is not the
   next (`VideoCaptureComment`). As long as no call fails it does
   (`NextFrameLeased`, proved).
3. `v4l2device.hpp:416, 433`: `GetIntervals` increments its index twice per turn
   and lists every other interval, where `encoder.cpp:203`, `encoder_udp.cpp:212`
   and `encoder_h264.cpp:168` "dump supported formats/sizes/fps"
   (`CameraSetupComment`). `v4l2_enumerate` has an enumeration of its own and lists
   them all.
4. `Robot/mc.cpp:89-94`, `Robot/PWM.cpp:72-73`: levels from the network reach an
   assertion unchecked; the abort leaves the throttle where it was
   (`MotorControllerAssert`).

Exceptions that passing properties name, because the code makes them:

- `LossNeverSplices`: `encoder_h264` is "a passthrough" (`encoder_h264.cpp:2`), but
  in mode READ it writes the whole buffer, old or uninitialised bytes included. The comment at
  `encoder_h264.cpp:247` is about a header written ahead, which this program does
  not do.
- `OwnDescriptorsOnly`: `data_source_tcp_server` writes to and closes an
  uninitialised descriptor when `socket` or `bind` failed.
- `DeliveredInOrder`: the file target opens without O_TRUNC and ignores what
  `write` returns; the targets on standard output ignore what `fwrite` and
  `fprintf` return.
- `ConverterMatchesCamera`: a driver that answers the fallback with a format the
  map does not have.

## 6. Proofs

TLAPS proves the following for every value of the constants under the named
assumptions of the modules, so for streams, frames and runs of any length.

**`DestreamerProofs`**: `ViewerTypeCorrect`, `TilesStream`, `SplitsAtStartCodes`
and `SplittersCutAlike`, for `ViewerSpec(maxInput)` with any `maxInput`, of which `ViewerStdin` is an
instance. The inductive invariant `IInv` is the conjunction of the
three properties with the typing; neither of the two safety properties is
inductive alone, because what `Input` cuts is known only if the register is the
tail of the stream (`RegisterIsTail`) and the unit being collected is the rest
of it (`BufferIsTail`). `NoStartCodeMissed` needs an argument of its own: a start
code that is not a cut can only come directly behind the cut before it, since two
start codes cannot overlap and the size test skips a cut only after exactly four
collected bytes. The lemmas are stated for `Input(byte)` with any byte, so
`EncoderPipeProofs` and `WholeFramesProofs` build on them. They rest on lemmas
about `SubSeq` of an appended sequence. That cuts increase (`CutsInOrder`) is
proved here, too.

`SplittersCutAlike` compares a state machine with two recursive functions of its
whole input, `Blocks` and `Joined`. No induction theorem of the library can be
used for them, since all take an operator as a parameter; but that a nonempty set
of natural numbers has a least member follows from the library's `WFMin`, which
takes sets (`LeastMember`), and a least counterexample does what induction would.
With it, `BlocksRecursion` and `JoinedRecursion` show that the two functions exist
and have their defining equations: positions in a file only grow, so the blocks
from a position on are found from the end of the file backwards, and units are
joined from the first on. `Lists(codes, file)` names the start codes of a file in
order. `UnitsListed` then gives the units of `destreamer.h` in closed form, as the
stretches between the start codes listed, and `ListsGrow`, `StretchAdded` and
`JoinedOfAppend` say what one more byte changes. The inductive invariant
(`AgreeInv`) is that the joined units are the packets, and that what is still
held back for joining runs from the last cut to the last start code (`Agreeing`);
without the second part nothing is known of a bare start code once the unit after
it arrives. It needs `IInv`, which says what the splitter has collected by then,
and that the register starts full of ones (`OnesAround`), so that no start code
lies partly in front of the file or is completed by the byte that EOF becomes.

**`EncoderPipeProofs`**: `TypeCorrect`, `BoundariesKept`, `FramesNotHeldBack`,
`FramesReleased`, `PipelineSplits`, `RecordingCutAlike`. `PipeInv` adds to the
splitter's invariant that `seen` followed by `pipe` holds a start code at each position in `headers` (`HeadersMarked`), that
cuts increase (`CutsInOrder`), and that
while the encoder waits the stream ends in the header just written
(`EndsWithHeader`). `BoundariesKept` then follows from `NoStartCodeMissed`: each
header is a start code of the stream, hence a cut or right behind one.
`FramesNotHeldBack` combines it with `BufferIsTail` to spell out the at most eight
bytes that are held. `FramesReleased` is what is safety in `FrameReleased`: when
the viewer has read all there is and the encoder waits for the camera, every frame
encoded so far has been broadcast. It needs one more fact, that there is one header
for each frame and one ahead (`HeaderPerFrame`). The proofs assume nothing of
`Beyond` but that it is four bytes. `RecordingCutAlike` carries the agreement of the two splitters over to the
encoder's output: the viewer at the pipe broadcasts what the file reader would
find in a recording of it.

**`VideoCaptureProofs`**: all safety of the class, for every number of buffers and
every set of faults: `TypeCorrect`, `NoBufferLost`, `MemoryIsThere`, `LeaseStable`,
`StrandedLockEnds`, and the refinement, `LeaseImplemented`. `BuffersAccounted`
counts buffers, which no single step can be shown to preserve; the invariant says
instead *which* buffers the driver has while it streams: all of them, but the one
on loan (`Whereabouts`), none in two places (`Apart`). The count follows, because a
sequence without repetitions is as long as the set of its entries is large. A
driver that has stopped may hold one buffer, whose lock outlived capturing; that
it is not there twice needs that nothing is queued while the lock lasts. Memory
rests on `StreamsWhileCapturing`, which ties the driver's state to the client's
flags. That a lease is the frame last locked needs
`FrameBehindSelect`: only an error makes `select` return without a frame. For the
refinement each action is mapped to one of FrameLease's steps or a stutter
(`StepIsLeaseStep`); the room for a delivered frame comes from the same counting.
`FrameLease` allows frames to be passed over when capturing stops, and faults to
misread one. `NextFrameLeased` says what is left without faults: `LockFrame`
returns the frame after the one before, exactly as its comment has it. It
holds because the frames that are filled and not yet taken carry consecutive
numbers, the first of them the successor of the one last leased and the last
of them the predecessor of the driver's next (`InTurn`). That chain survives
every failure but an ignored one of DQBUF, which `FrameBehindSelect` excludes
when nothing fails. TLC agrees on the instance of the run `VideoCapture`, which
does not list the property.

**`ViewerSdlProofs`**: `TypeCorrect`, `QueueNotRaced`, `PopsAnImage`,
`FramesAccounted`, `InOrder`, `DisplayLag`, for every number of packets and events and every
capacity of SDL's queue. Who holds the mutex at which step is `MutexHeld`. That
`main` never pops an empty queue follows from `FrameAccounting`, which counts the
frame events in SDL's queue; the lemmas `FrameEventsPost` and `FrameEventsPoll`
say how that count changes (the second by a bijection between the positions
before and after a poll). `LostStayBehind` carries what is needed of the count
past the moment when SDL's queue is discarded. `QueueInOrder` and
`ImagesAccounted` say that the queue always holds the numbers between the image
popped and the image decoded last. Together they give `DisplayLag`: when nothing
is under way, what is presented is behind the decoder by exactly the number of
events SDL refused, so it is the last image when none was, which is the safety
part of `EveryFrameShown`.

**`CameraSetupProofs`**: `TypeCorrect`, `ConverterIsRight`, `ListsComplete`,
`SetupAdvances`, for every camera and every set of formats. For the second the
invariant records, per program point, what is known of `fmt`, the camera's format
and the converter (`FormatSettled`, `ConverterSettled`); the property itself says nothing until
capturing starts and so is not inductive. For the third it says at every turn of
the three nested loops that each list so far is the camera's up to the current
index and that the lists before it are complete (`FormatsSoFar`, `SizesSoFar`,
`IntervalsSoFar`). `SetupAdvances` is the argument behind `SetupEnds`: six
numbers, compared lexicographically, measure what is left (the stage of the
program, the formats whose sizes are not listed, where in a format's turn it is,
the sizes whose intervals are not listed, whether it is listing them, the entries
not yet asked for), and every step makes them smaller. It needs to know that a
turn has a list of sizes and never more lists of intervals than sizes
(`TurnsInOrder`). That a program which is not at its end can take a step, and that
fairness makes it do so, stays with TLC.

**`MotorControllerProofs`**: `TypeCorrect`, `MotorNeverRunsAway`,
`CommandsAreWhole`, `HandlerNeverNested`. The invariant relates `since` to
`waited` at the points where they move together, says that the throttle is closed
on the way out, and that the mask is set throughout the body of the loop. That
mask is why `CommandsWhole` survives signals: between the two levels of a
command, where it does not hold (`LevelsOfOne` says what does), none is delivered.

**`WholeFramesProofs`**: `TypeCorrect`, `FramesNotSpliced`, `LastNalHeld`, for all
four compositions, all frames of a camera and all contents of fresh memory, all
limits, and any number of datagrams under way. The two properties are about
packets and about a viewer that has caught up; `FramesInv` says instead that each
frame that arrived lies at its place in the whole stream (`Stream`: what the viewer
has seen, then the pipe), the last one at the end, and that no two frames begin
four bytes apart. A frame that begins with a start code therefore puts one into
the stream, whatever bytes surround it, and the splitter's own invariant says that
every start code is a cut or stands four bytes behind one. In the second case
those four bytes are a start code with which no frame begins, so it is not a frame
that is glued: this is where the test of the length in `encoder_h264.cpp:248` is
needed. `SentOnly` and `DecodedOnly` relate what arrived, and what was cut off by
`recvfrom`, to what was sent. Assumed: `FramesAssumption`, `LimitsAssumption`.

**`DataSourcesProofs`**: `TypeCorrect`, `Delivered`, `OwnDescriptors`, for every
size of the table of descriptors (from six, more than the programs use), of the
TCP connection and of the file found. The programs' scripts are the repository's and
so fixed; `ScriptFacts` is what the proofs use of them, each target being made
once. `ControlInv` says where `main` and the loop of `broadcast` are, `TableInv`
which descriptor is whose and that no other is open, `SinkInv` what has left
through each target, compared with what it was given. What a target was given
is defined by `count`, `since` and `at`, and so would seem to change with any
step of `main`; `GivenKept` and `GivenGrows` show that it changes only where the
target's `write` returns, which leaves one sink to look at per step. What is
printed is a mix of the lines of several targets, of which a write may take any
part: the lemmas say what appending to such a sequence, dropping the rest, and
moving a part from the buffer to standard output do to one target's share of it
(`PrintsAppended`, `PrintsCut`, `LinesLeave`).
Neither property is inductive alone: that a closed number belongs to no other
target when it is used needs the owner of every entry of the table, and that a
failed target costs no other a packet needs `at` and `since` of all of them.
Assumed: `BoundsAssumption`.

Only model-checked: all liveness (`FrameReleased`, `ViewerEnds`,
`NextFrameReleases`, `LockReturns`, `SetupEnds`, `EveryFrameShown`, `QuitEnds`,
`BroadcastEnds`, `InterruptServed`), because TLAPS does not reason about
`ENABLED`, on which fairness rests. Of three of them the part that is safety is
proved: `FramesReleased`, `DisplayLag`, `SetupAdvances`. Every safety property of a
passing run is a theorem.

## 7. Not modelled

- **`Robot/proper_PWM`**: another version of the PWM driver that no Makefile
  builds.
- **Scripts, Makefiles, `timer.py`, `config.h`**: they start or build programs.
- **Pixels**: `sws_scale`, x264, libavcodec, OpenCV, SDL rendering are external;
  only whether a call yields an image or a NAL matters to the properties. So the
  sizes of images are left out, too (the conversion context of
  `data_source_ocv_avcodec` that is made for the first image's size).
- **`ScaleAspect`, `GetBufferInfo`** of `viewer_sdl`: window geometry, and a
  function nobody calls. `num_targets` of `packet_server` has no return statement
  and no caller.
- **Timing statistics on stderr** of the encoders (`now`, `median`, `stdev`), and
  the wording of everything printed.
- **A `StartCapture` that throws half-way**: nothing in the repository catches the
  exception, so no later call sees the object; the exception itself is
  `CallFails`.
- **Failures of SDL_net before the motor loop**: the process ends with both
  levels at zero.

## 8. Plan

Done: the modules of section 2 and the proofs of section 6; every program that
the Makefiles build is modelled, `viewer_sdl` but for its geometry.

Left, in this order:

1. `ScaleAspect` of `viewer_sdl` against a reference definition (does the picture
   keep its ratio to within the rounding, and is no side of it zero?).
2. `viewer_sdl`'s display composed with `EncoderPipe`: the delay from camera to
   texture in frames.
