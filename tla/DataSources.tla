----------------------------- MODULE DataSources -----------------------------
(***************************************************************************)
(* packet_server, which gives each packet to all the targets registered    *)
(* with it, one after the other, and its targets: standard output          *)
(* (data_source_stdio and data_source_stdio_info), a file, a UDP socket, a *)
(* TCP connection that it waits for, and a decoder with a window.          *)
(*                                                                         *)
(* main of each program makes and registers targets and broadcasts, as its *)
(* script says.  Calls fail: a target then drops packets, or gives up for  *)
(* good, or takes the process with it.  The client of the TCP target reads *)
(* or does not, and may leave; so does the reader of standard output, if   *)
(* that is a pipe.                                                         *)
(*                                                                         *)
(* The descriptors are those of the kernel's table, the lowest free one    *)
(* first.  data_source_tcp_server leaves fd uninitialised if there is no   *)
(* socket to accept on: it may then be any number.                         *)
(*                                                                         *)
(* Packets are numbered in the order they are broadcast.  History          *)
(* variables: since (how many had been broadcast when a target was         *)
(* registered), datagrams, received and stdout (what has left the          *)
(* process), lossy (something printed was lost, with a write that failed   *)
(* or with the process), misused (calls on a descriptor that is not the    *)
(* target's).                                                              *)
(* datagrams is what sendto accepted: what the network loses behind it,    *)
(* NOTES says it does, is not in this module.                              *)
(***************************************************************************)
EXTENDS Integers, Sequences, SequencesExt, FiniteSetsExt

CONSTANTS MaxFd,       \* bound: the descriptors are 0..MaxFd
          MaxUnread,   \* how many packets the TCP connection holds
          OldPackets   \* bound: the length of a file that is there already

ASSUME BoundsAssumption ==
  MaxFd \in Nat /\ MaxFd > 4 /\ MaxUnread \in Nat \ {0} /\ OldPackets \in Nat

Broadcast == "broadcast"

(* The programs: what main makes, and how often it broadcasts.             *)
Script ==
  [test_data_source |->
     <<Broadcast, "stdio", Broadcast, Broadcast, "file", Broadcast,
       "stdio_info", Broadcast, Broadcast>>,
   test_data_source_tcp_server |->
     <<"stdio_info", "tcp_server", Broadcast, Broadcast, Broadcast>>,
   test_data_source_udp |->
     <<"stdio_info", "udp", Broadcast, Broadcast, Broadcast>>,
   viewer_stdin |->
     <<"ocv_avcodec", "stdio_info", Broadcast, Broadcast, Broadcast>>]

Targets == {"stdio", "stdio_info", "file", "udp", "tcp_server", "ocv_avcodec"}

VARIABLES program,
          pc,          \* "running", "accepting", in a call that writes to
                       \* standard output, or how the process ended
          step,        \* the next step of the script
          targets,     \* packet_server: who is registered, in order
          at,          \* who is written to; 0 when nothing is broadcast
          count        \* how many packets have been broadcast

VARIABLES table,       \* the kernel's: what each descriptor is, or "free"
          file_fd, udp_sd, tcp_fd, tcp_sockfd,   \* the targets' members
          window,      \* ocv_avcodec: has it a conversion context?
          num_packets  \* stdio_info's counter

VARIABLES buffered,    \* what is in the buffer of stdout
          file, pos,   \* the content of the file, and where it is written
          client,      \* of the TCP server: "none", "there" or "gone"
          unread,      \* what the client has not read yet
          since, datagrams, received, stdout, lossy, misused

mainVars == <<program, pc, step, targets, at, count>>
memberVars == <<table, file_fd, udp_sd, tcp_fd, tcp_sockfd, window, num_packets>>
printVars == <<buffered, stdout, lossy>>
sinkVars == <<printVars, file, pos, client, unread, datagrams, received>>
vars == <<mainVars, memberVars, sinkVars, since, misused>>

Ended == {"returned", "exited", "killed"}

-----------------------------------------------------------------------------
(* Descriptors. *)
FreeFd == Min({fd \in 0..MaxFd : table[fd] = "free"})
Opened(kind) == [table EXCEPT ![FreeFd] = kind]
IsOpen(fd) == fd \in 0..MaxFd /\ table[fd] # "free"
Without(fds) == [fd \in 0..MaxFd |-> IF fd \in fds THEN "free" ELSE table[fd]]

(* A call on fd that is meant for a descriptor of this kind. *)
Stray(target, fd, kind) ==
  IF fd \in 0..MaxFd /\ table[fd] # kind THEN {<<target, fd>>} ELSE {}

(* What a call prints goes to the buffer of stdout.  The call may have to  *)
(* write the buffer to descriptor 1, and so has exit, which runs no        *)
(* destructor of main's objects; pc is then "writing", or "exiting" until  *)
(* the process has "exited".                                               *)
AfterPrinting == [writing |-> "running", exiting |-> "exited", returning |-> "returned"]

Puts(line) ==
  /\ buffered' = Append(buffered, line)
  /\ pc' \in {"running", "writing"}
  /\ UNCHANGED <<stdout, lossy>>

Exit ==
  /\ pc' = "exiting"
  /\ UNCHANGED printVars

(* The first n lines leave; the others are kept, or lost.  A line of which *)
(* only the beginning could be written counts as lost.                     *)
Lines(n) == stdout' = stdout \o SubSeq(buffered, 1, n)
Keeps(n) == /\ buffered' = SubSeq(buffered, n + 1, Len(buffered))
            /\ UNCHANGED lossy
Loses(n) == /\ buffered' = <<>>
            /\ lossy' = (lossy \/ n < Len(buffered))

(* The write to descriptor 1 returns, which it does not while the pipe is  *)
(* full.  It may fail, the disk being full; nobody looks at the result.    *)
(* What is not written when the process ends is lost.                      *)
WriteReturns ==
  /\ pc \in DOMAIN AfterPrinting
  /\ pc' = AfterPrinting[pc]
  /\ \E n \in 0..Len(buffered) :
       /\ n > 0 => IsOpen(1)
       /\ Lines(n)
       /\ (pc = "writing" /\ Keeps(n)) \/ Loses(n)
  /\ UNCHANGED <<program, step, targets, at, count, memberVars, file, pos, client,
                 unread, datagrams, received, since, misused>>

(* SIGPIPE: the reader of the pipe has left. *)
ReaderLeft ==
  /\ pc \in DOMAIN AfterPrinting
  /\ IsOpen(1)
  /\ pc' = "killed"
  /\ \E n \in 0..Len(buffered) : Lines(n) /\ Loses(n)
  /\ UNCHANGED <<program, step, targets, at, count, memberVars, file, pos, client,
                 unread, datagrams, received, since, misused>>

-----------------------------------------------------------------------------
(* Making a target and registering it. *)
Makes(target) ==
  /\ pc = "running"
  /\ at = 0
  /\ step <= Len(Script[program])
  /\ Script[program][step] = target

Register(target) ==
  /\ targets' = Append(targets, target)
  /\ since' = [since EXCEPT ![target] = count]
  /\ step' = step + 1

(* These constructors do nothing that can fail; if there is no codec or no *)
(* window, ocv_avcodec goes on without.                                    *)
MakePlain ==
  \E target \in {"stdio", "stdio_info", "ocv_avcodec"} :
    /\ Makes(target)
    /\ Register(target)
    /\ UNCHANGED <<program, pc, at, count, memberVars, sinkVars, misused>>

(* open, which neither empties a file that is there nor appends to it. *)
MakeFile ==
  /\ Makes("file")
  /\ Register("file")
  /\ \/ file_fd' = FreeFd /\ table' = Opened("file")
     \/ file_fd' = -1 /\ UNCHANGED table
  /\ UNCHANGED <<program, pc, at, count, udp_sd, tcp_fd, tcp_sockfd, window,
                 num_packets, sinkVars, misused>>

(* socket, and bind to any port; if either fails there is no socket. *)
MakeUdp ==
  /\ Makes("udp")
  /\ Register("udp")
  /\ \/ udp_sd' = FreeFd /\ table' = Opened("udp")
     \/ udp_sd' = -1 /\ UNCHANGED table
  /\ UNCHANGED <<program, pc, at, count, file_fd, tcp_fd, tcp_sockfd, window,
                 num_packets, sinkVars, misused>>

(* gethostbyname does not know the host. *)
UnknownHost ==
  /\ Makes("udp")
  /\ Exit
  /\ UNCHANGED <<program, step, targets, at, count, memberVars, file, pos, client,
                 unread, datagrams, received, since, misused>>

(* socket, bind and listen succeed; accept waits. *)
Listen ==
  /\ Makes("tcp_server")
  /\ pc' = "accepting"
  /\ tcp_sockfd' = FreeFd
  /\ table' = Opened("listener")
  /\ UNCHANGED <<program, step, targets, at, count, file_fd, udp_sd, tcp_fd,
                 window, num_packets, sinkVars, since, misused>>

(* socket or bind fails: fd is never set. *)
ListenFails ==
  /\ Makes("tcp_server")
  /\ Register("tcp_server")
  /\ tcp_fd' \in -1..MaxFd
  /\ \/ tcp_sockfd' = -1 /\ UNCHANGED table
     \/ tcp_sockfd' = FreeFd /\ table' = Opened("listener")
  /\ UNCHANGED <<program, pc, at, count, file_fd, udp_sd, window, num_packets,
                 sinkVars, misused>>

(* A client connects, or accept fails. *)
Accept ==
  /\ pc = "accepting"
  /\ pc' = "running"
  /\ Register("tcp_server")
  /\ \/ tcp_fd' = FreeFd /\ table' = Opened("connection") /\ client' = "there"
     \/ tcp_fd' = -1 /\ UNCHANGED <<table, client>>
  /\ UNCHANGED <<program, at, count, file_fd, udp_sd, tcp_sockfd, window,
                 num_packets, printVars, file, pos, unread, datagrams, received,
                 misused>>

-----------------------------------------------------------------------------
(* packet_server::broadcast: the loop over the targets. *)
StartBroadcast ==
  /\ Makes(Broadcast)
  /\ count' = count + 1
  /\ IF targets = <<>> THEN step' = step + 1 /\ UNCHANGED at
                       ELSE at' = 1 /\ UNCHANGED step
  /\ UNCHANGED <<program, pc, targets, memberVars, sinkVars, since, misused>>

WritesTo(target) == pc = "running" /\ at # 0 /\ targets[at] = target

(* The target's write returns, and the loop goes on.  The mutants end it   *)
(* one target early, and do not advance the iterator.                      *)
LastTarget_Early == Len(targets) - 1
LastTarget == Len(targets)
NextTarget_Same == at
NextTarget == at + 1
Advance ==
  /\ IF at >= LastTarget THEN at' = 0 /\ step' = step + 1
                         ELSE at' = NextTarget /\ UNCHANGED step
  /\ UNCHANGED <<program, targets, count, since>>
Return == Advance /\ UNCHANGED pc

(* fwrite and fprintf, whose results are ignored; the loop goes on when    *)
(* they return.                                                            *)
WriteStdio ==
  /\ WritesTo("stdio")
  /\ Puts(<<"stdio", count>>)
  /\ Advance
  /\ UNCHANGED <<memberVars, file, pos, client, unread, datagrams, received, misused>>

WriteInfo ==
  /\ WritesTo("stdio_info")
  /\ num_packets' = num_packets + 1
  /\ Puts(<<"stdio_info", num_packets'>>)
  /\ Advance
  /\ UNCHANGED <<table, file_fd, udp_sd, tcp_fd, tcp_sockfd, window, file, pos,
                 client, unread, datagrams, received, misused>>

(* write to the file, or to descriptor -1.  It may write nothing, or a     *)
(* part (written as -count); the result is ignored.                        *)
WriteFile ==
  /\ WritesTo("file")
  /\ misused' = misused \cup Stray("file", file_fd, "file")
  /\ \/ UNCHANGED <<file, pos>>
     \/ /\ IsOpen(file_fd)
        /\ \E what \in {count, -count} :
             file' = SubSeq(file, 1, pos) \o <<what>> \o SubSeq(file, pos + 2, Len(file))
        /\ pos' = pos + 1
  /\ Return
  /\ UNCHANGED <<memberVars, printVars, client, unread, datagrams, received>>

(* sendto fails: the socket is closed, and there is none from now on; a    *)
(* message is printed each time.  The mutants leave it open, and forget    *)
(* that it is closed.                                                      *)
AfterSendFails_Ignored == UNCHANGED <<udp_sd, table>>
AfterSendFails_Stale == UNCHANGED udp_sd /\ table' = Without({udp_sd})
AfterSendFails == udp_sd' = -1 /\ table' = Without({udp_sd})

WriteUdp ==
  /\ WritesTo("udp")
  /\ misused' = misused \cup Stray("udp", udp_sd, "udp")
  /\ \/ /\ IsOpen(udp_sd)
        /\ datagrams' = Append(datagrams, count)
        /\ UNCHANGED <<pc, udp_sd, table, printVars>>
     \/ /\ Puts(<<"udp", count>>)
        /\ AfterSendFails
        /\ UNCHANGED datagrams
  /\ Advance
  /\ UNCHANGED <<file_fd, tcp_fd, tcp_sockfd, window, num_packets, file, pos,
                 client, unread, received>>

(* The connection takes another packet.  The mutant asks too late. *)
HasRoom_OneMore == Len(unread) <= MaxUnread
HasRoom == Len(unread) < MaxUnread

(* write to the connection: it takes the packet or, while it is full,      *)
(* blocks.  When the client has left the packet is lost.  On a descriptor  *)
(* that is not the connection's the packet goes wherever that leads.       *)
WriteTcp ==
  /\ WritesTo("tcp_server")
  /\ misused' = misused \cup Stray("tcp_server", tcp_fd, "connection")
  /\ IF IsOpen(tcp_fd) /\ table[tcp_fd] = "connection" /\ client = "there"
       THEN /\ HasRoom
            /\ unread' = Append(unread, count)
       ELSE UNCHANGED unread
  /\ stdout' = IF tcp_fd = 1 THEN Append(stdout, <<"tcp_server", count>>) ELSE stdout
  /\ Return
  /\ UNCHANGED <<memberVars, buffered, lossy, file, pos, client, datagrams, received>>

(* SIGPIPE, unless the process was started with that signal ignored: the   *)
(* client has left, or the socket was never connected.                     *)
BrokenPipe ==
  /\ WritesTo("tcp_server")
  /\ IsOpen(tcp_fd)
  /\ table[tcp_fd] = "listener" \/ (table[tcp_fd] = "connection" /\ client = "gone")
  /\ pc' = "killed"
  /\ Lines(0) /\ Loses(0)
  /\ UNCHANGED <<program, step, targets, at, count, memberVars, file, pos, client,
                 unread, datagrams, received, since, misused>>

(* The decoder yields no image, or one; the first one is what the          *)
(* conversion context is made for.                                         *)
WriteOcv ==
  /\ WritesTo("ocv_avcodec")
  /\ window' \in {window, TRUE}
  /\ Return
  /\ UNCHANGED <<table, file_fd, udp_sd, tcp_fd, tcp_sockfd, num_packets, sinkVars,
                 misused>>

(* The context cannot be made. *)
NoContext ==
  /\ WritesTo("ocv_avcodec")
  /\ ~window
  /\ Exit
  /\ UNCHANGED <<program, step, targets, at, count, memberVars, file, pos, client,
                 unread, datagrams, received, since, misused>>

-----------------------------------------------------------------------------
(* main returns, and the destructors close what is not -1; exit writes     *)
(* what is buffered after that.                                            *)
MainReturns ==
  /\ pc = "running"
  /\ at = 0
  /\ step > Len(Script[program])
  /\ pc' = "returning"
  /\ table' = Without({file_fd, udp_sd, tcp_fd, tcp_sockfd})
  /\ misused' = misused \cup Stray("file", file_fd, "file")
                        \cup Stray("udp", udp_sd, "udp")
                        \cup Stray("tcp_server", tcp_fd, "connection")
                        \cup Stray("tcp_server", tcp_sockfd, "listener")
  /\ UNCHANGED <<program, step, targets, at, count, file_fd, udp_sd, tcp_fd,
                 tcp_sockfd, window, num_packets, sinkVars, since>>

ClientReads ==
  /\ client = "there"
  /\ unread # <<>>
  /\ received' = Append(received, Head(unread))
  /\ unread' = Tail(unread)
  /\ UNCHANGED <<mainVars, memberVars, printVars, file, pos, client, datagrams,
                 since, misused>>

ClientLeaves ==
  /\ client = "there"
  /\ client' = "gone"
  /\ unread' = <<>>
  /\ UNCHANGED <<mainVars, memberVars, printVars, file, pos, datagrams, received,
                 since, misused>>

Init ==
  /\ program \in DOMAIN Script
  /\ pc = "running"
  /\ step = 1
  /\ targets = <<>>
  /\ at = 0
  /\ count = 0
  /\ table = [fd \in 0..MaxFd |-> IF fd <= 2 THEN "standard" ELSE "free"]
  /\ file_fd = -1 /\ udp_sd = -1 /\ tcp_fd = -1 /\ tcp_sockfd = -1
  /\ window = FALSE
  /\ num_packets = 0
  /\ buffered = <<>> /\ stdout = <<>> /\ lossy = FALSE
  /\ file \in {<<>>, [i \in 1..OldPackets |-> 0]}
  /\ pos = 0
  /\ client = "none"
  /\ unread = <<>> /\ received = <<>> /\ datagrams = <<>>
  /\ since = [target \in Targets |-> 0]
  /\ misused = {}

Main == \/ MakePlain \/ MakeFile \/ MakeUdp \/ UnknownHost \/ Listen \/ ListenFails
        \/ StartBroadcast \/ WriteStdio \/ WriteInfo \/ WriteFile \/ WriteUdp
        \/ WriteTcp \/ BrokenPipe \/ WriteOcv \/ NoContext \/ MainReturns

Next == Main \/ WriteReturns \/ ReaderLeft \/ Accept \/ ClientReads \/ ClientLeaves

(* The process runs when it can.  Nobody has to connect, or to read: not   *)
(* the client of the TCP server, and not standard output.                  *)
Fairness == WF_vars(Main)

Spec == Init /\ [][Next]_vars /\ Fairness

-----------------------------------------------------------------------------
(* The state is what the program can hold. *)
TypeOK ==
  /\ program \in DOMAIN Script
  /\ pc \in {"running", "accepting"} \cup DOMAIN AfterPrinting \cup Ended
  /\ step \in 1..(Len(Script[program]) + 1)
  /\ targets \in Seq(Targets) /\ IsInjective(targets)
  /\ at \in 0..Len(targets)
  /\ table \in [0..MaxFd -> {"free", "standard", "file", "udp", "listener",
                             "connection"}]
  /\ {file_fd, udp_sd, tcp_fd, tcp_sockfd} \subseteq -1..MaxFd
  /\ {window, lossy} \subseteq BOOLEAN
  /\ client \in {"none", "there", "gone"}
  /\ Len(unread) <= MaxUnread

(* What a target has been given: every packet since it was registered, the *)
(* one that is being broadcast included if it has been its turn.           *)
Given(target) ==
  LET waits == at # 0 /\ \E k \in at..Len(targets) : targets[k] = target
      last  == IF waits THEN count - 1 ELSE count
  IN  IF target \in ToSet(targets)
        THEN [i \in 1..(last - since[target]) |-> since[target] + i]
        ELSE <<>>

(* The numbers a target has printed, among the lines of the others, are    *)
(* some of these, each at most once and in order.                          *)
Own(lines, target) == {i \in DOMAIN lines : lines[i][1] = target}
Prints(lines, target, numbers) ==
  /\ \A i \in Own(lines, target) : lines[i][2] \in numbers
  /\ \A i, j \in Own(lines, target) : i < j => lines[i][2] < lines[j][2]
PrintsAll(lines, target, numbers) ==
  \A n \in numbers : \E i \in Own(lines, target) : lines[i][2] = n

(* What is printed comes in order, and is complete as long as no write to  *)
(* standard output fails: not even fwrite's own buffer loses or repeats a  *)
(* packet.  A call that fails is not noticed: later packets are printed    *)
(* behind the gap.                                                         *)
PrintedInOrder ==
  LET lines == stdout \o buffered
  IN  /\ Prints(lines, "stdio", ToSet(Given("stdio")))
      /\ Prints(lines, "stdio_info", 1..Len(Given("stdio_info")))
      /\ ~lossy => /\ PrintsAll(lines, "stdio", ToSet(Given("stdio")))
                   /\ PrintsAll(lines, "stdio_info", 1..Len(Given("stdio_info")))

(* sendto accepts a packet per write up to the first failure and none      *)
(* after it: what the network gets has no gap.  The client of the TCP      *)
(* server gets everything from the first packet on until it leaves.        *)
SentInOrder ==
  /\ IsPrefix(datagrams, Given("udp"))
  /\ udp_sd # -1 => datagrams = Given("udp")
  /\ IsPrefix(received \o unread, Given("tcp_server"))
  /\ client = "there" => received \o unread = Given("tcp_server")

(* The file may have gaps and torn packets, because the result of write is *)
(* ignored, and behind its last packet the rest of an older, longer file,  *)
(* because it is not truncated.                                            *)
FiledInOrder ==
  LET own == [i \in 1..pos |-> IF file[i] < 0 THEN -file[i] ELSE file[i]]
  IN  /\ \A i, j \in 1..pos : i < j => own[i] < own[j]
      /\ ToSet(own) \subseteq ToSet(Given("file"))
      /\ \A i \in (pos + 1)..Len(file) : file[i] = 0

(* "broadcast calls each registered callback": every target passes on the  *)
(* packets broadcast since it was registered, in order and none twice, and *)
(* all of them as long as none of its own calls fails, whatever happens to *)
(* the targets before it in the list.                                      *)
DeliveredInOrder == PrintedInOrder /\ SentInOrder /\ FiledInOrder

(* No target touches a descriptor that is not its own: none is used after  *)
(* it was closed, closed twice, or left open when main returns.  The       *)
(* exception is the TCP server that could not listen, whose fd was never   *)
(* set (the members of the data sources and their destructors).            *)
OwnDescriptorsOnly ==
  tcp_fd = -1 \/ client # "none" =>
    /\ misused = {}
    /\ pc \in {"returning", "returned"} =>
         table = [fd \in 0..MaxFd |-> IF fd <= 2 THEN "standard" ELSE "free"]

(* The process ends, unless it waits for ever: for a client that never     *)
(* comes, for one that is there and does not read, or for the reader of    *)
(* its standard output.  No other failure of a target stops the broadcast  *)
(* (packet_server::broadcast).                                             *)
Stalled == client = "there" /\ Len(unread) = MaxUnread
BroadcastEnds ==
  \/ <>(pc \in Ended)
  \/ <>[](pc = "accepting")
  \/ <>[]Stalled
  \/ <>[](pc \in DOMAIN AfterPrinting)
=============================================================================
