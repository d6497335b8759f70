------------------------------ MODULE Session -------------------------------
(***************************************************************************)
(* The server between a start and the next: the accept loop of network()   *)
(* (network/network.c) with the thread that it creates for the control     *)
(* connection, the data connection that starts the camera, and what the    *)
(* video and audio senders need of it.  The process ends in exit when the  *)
(* client leaves or a send fails, and is started again from outside (the   *)
(* code's "exit to restart!").                                             *)
(***************************************************************************)
EXTENDS Commands, FiniteSets

CONSTANTS
  MaxCommands,   \* bound: the commands of one session
  Conns,         \* connections that clients make
  AddressOf      \* from which address

NoAddress == 0

ASSUME AddressAssumption == \A c \in Conns : AddressOf[c] # NoAddress

VARIABLES
  backlog,       \* connections that wait in accept's queue
  role,          \* what network() has made of a connection
  open,          \* the client's end is open
  gone,          \* the client has vanished, its network with it
  current_client_address,
  flag,          \* 1: no connection yet, 2: control, 3: control and data
  accepting,     \* where network() is: at accept, or preparing a data connection
  start_camera,  \* the semaphore
  video,         \* camera_thread is past sem_wait, the sender thread created
  audio,         \* how far send_audio_data is with the header of a packet
  fault,         \* history: a crash, or a packet with a mangled header
  early          \* history: audio was started on a connection not yet prepared

netVars == <<backlog, role, open, gone, current_client_address, flag,
             accepting, start_camera, video, audio, fault, early>>
sessionVars == <<commandVars, netVars>>

clientVars == <<backlog, role, open, gone, current_client_address, flag>>
senderVars == <<start_camera, video, audio, fault, early>>

ServerInit ==
  /\ CommandsInit
  /\ backlog = << >>
  /\ role = [c \in Conns |-> "none"]
  /\ open = [c \in Conns |-> FALSE]
  /\ gone = [c \in Conns |-> FALSE]
  /\ current_client_address = NoAddress
  /\ flag = 1
  /\ accepting = "accept"
  /\ start_camera = 0
  /\ video = FALSE
  /\ audio = "idle" /\ fault = "none" /\ early = FALSE

Dies == /\ running' = FALSE
        /\ UNCHANGED <<verify_ok, record_state, Send_num, asked, answers, calls>>

-----------------------------------------------------------------------------
(* The clients.                                                             *)
Connect(c) ==
  /\ running
  /\ role[c] = "none"
  /\ role' = [role EXCEPT ![c] = "backlog"]
  /\ open' = [open EXCEPT ![c] = TRUE]
  /\ backlog' = Append(backlog, c)
  /\ UNCHANGED <<commandVars, gone, current_client_address, flag, accepting,
                 senderVars>>

Close(c) ==
  /\ open[c] /\ ~gone[c]
  /\ open' = [open EXCEPT ![c] = FALSE]
  /\ UNCHANGED <<commandVars, backlog, role, gone, current_client_address,
                 flag, accepting, senderVars>>

(* Out of reach: nothing tells the server so.                               *)
Vanish(c) ==
  /\ open[c] /\ role[c] = "control" /\ ~gone[c]
  /\ gone' = [gone EXCEPT ![c] = TRUE]
  /\ UNCHANGED <<commandVars, backlog, role, open, current_client_address,
                 flag, accepting, senderVars>>

-----------------------------------------------------------------------------
(* network(): the next connection is taken up, according to its address and *)
(* to how many there have been.                                             *)
Accepted(c, as) ==
  /\ role' = [role EXCEPT ![c] = as]
  /\ backlog' = Tail(backlog)
  /\ UNCHANGED <<commandVars, open, gone, senderVars>>

Accepting(c) == /\ running /\ accepting = "accept"
                /\ backlog # << >> /\ c = Head(backlog)

Ours(c) == current_client_address \in {NoAddress, AddressOf[c]}

(* Another client's connection is left open, and nobody reads it.           *)
Reject(c) ==
  /\ Accepting(c) /\ ~Ours(c)
  /\ Accepted(c, "rejected")
  /\ UNCHANGED <<current_client_address, flag, accepting>>

(* Wrong: the client's address is not remembered.                           *)
WrongAcceptControl(c) ==
  /\ Accepting(c) /\ Ours(c) /\ flag = 1
  /\ Accepted(c, "control")
  /\ flag' = 2
  /\ UNCHANGED <<current_client_address, accepting>>

AcceptControl(c) ==
  /\ Accepting(c) /\ Ours(c) /\ flag = 1
  /\ Accepted(c, "control")
  /\ current_client_address' = AddressOf[c]
  /\ flag' = 2
  /\ UNCHANGED accepting

(* Wrong: the camera is started first.                                      *)
WrongSteps == <<"post", "av_command1", "av_command2", "audio_data", "head",
                "zeros", "timeout">>

(* What network() does for a data connection, in order: the header of video *)
(* packets; that of audio packets, a block of memory (av_command2) and a    *)
(* pointer into it (audio_data), "MO_V" and the opcode at its head, zeros   *)
(* behind that; the time-out of sends; and the post that starts the camera. *)
Steps == <<"av_command1", "av_command2", "audio_data", "head", "zeros",
           "timeout", "post">>

(* picture_fd and audio_data_fd are set; the headers are still to come.     *)
AcceptData(c) ==
  /\ Accepting(c) /\ Ours(c) /\ flag = 2
  /\ Accepted(c, "data")
  /\ flag' = 3
  /\ accepting' = Steps[1]
  /\ UNCHANGED current_client_address

(* A third connection is neither served nor closed.                         *)
AcceptMore(c) ==
  /\ Accepting(c) /\ Ours(c) /\ flag = 3
  /\ Accepted(c, "unused")
  /\ UNCHANGED <<current_client_address, flag, accepting>>

Done(step) == flag = 3 /\ \/ accepting = "accept"
                           \/ \E i, j \in DOMAIN Steps :
                                i < j /\ Steps[i] = step /\ Steps[j] = accepting

Prepared == Done("timeout")

(* The zeros wipe out what send_audio_data has written meanwhile.           *)
Prepare ==
  /\ running
  /\ \E i \in DOMAIN Steps :
       /\ accepting = Steps[i]
       /\ accepting' = IF i = Len(Steps) THEN "accept" ELSE Steps[i + 1]
  /\ start_camera' = start_camera + (IF accepting = "post" THEN 1 ELSE 0)
  /\ audio' = IF accepting = "zeros" /\ audio = "filled" THEN "wiped" ELSE audio
  /\ UNCHANGED <<commandVars, clientVars, video, fault, early>>

CameraStarts ==
  /\ running /\ start_camera > 0 /\ ~video
  /\ start_camera' = start_camera - 1
  /\ video' = TRUE
  /\ UNCHANGED <<commandVars, clientVars, accepting, audio, fault, early>>

-----------------------------------------------------------------------------
(* The control thread executes what the client sends.  (The receive timeout *)
(* that network() asks for is refused: it passes an int where setsockopt    *)
(* wants a struct timeval.)                                                 *)
Control(c) ==
  /\ role[c] = "control" /\ open[c] /\ ~gone[c]
  /\ Len(asked) < MaxCommands
  /\ \E op \in Opcodes : Command(op)
  /\ early' = (early \/ (record_state' = 1 /\ ~Prepared))
  /\ UNCHANGED <<clientVars, accepting, start_camera, video, audio, fault>>

(* Wrong: only the thread ends.                                             *)
WrongControlClosed(c) ==
  /\ running /\ role[c] = "control" /\ ~open[c]
  /\ role' = [role EXCEPT ![c] = "unused"]
  /\ UNCHANGED <<commandVars, backlog, open, gone, current_client_address,
                 flag, accepting, senderVars>>

(* The control thread finds that the client has left.                       *)
ControlClosed(c) ==
  /\ running /\ role[c] = "control" /\ ~open[c]
  /\ Dies
  /\ UNCHANGED netVars

(* audio_send gets a buffer some time after the recorder was started.       *)
GetBuffer ==
  /\ running /\ record_state = 1
  /\ audio = "idle" /\ audio' = "buffer"
  /\ UNCHANGED <<commandVars, clientVars, accepting, start_camera, video,
                 fault, early>>

(* send_audio_data writes text_len through av_command2, then ado_len and    *)
(* time_stamp through audio_data.                                           *)
FillHeader(at, to, pointer) ==
  /\ running /\ audio = at /\ Done(pointer)
  /\ audio' = to
  /\ UNCHANGED <<commandVars, clientVars, accepting, start_camera, video,
                 fault, early>>

(* It does so whether or not there is a header.                             *)
Crash(at, pointer) ==
  /\ running /\ audio = at /\ ~Done(pointer)
  /\ fault' = "crash"
  /\ Dies
  /\ UNCHANGED <<clientVars, accepting, start_camera, video, audio, early>>

(* The header goes out as it is at this time.                               *)
SendHeader ==
  /\ running /\ audio \in {"filled", "wiped"}
  /\ audio' = "idle"
  /\ fault' = IF audio = "filled" /\ Done("head") THEN fault ELSE "mangled"
  /\ UNCHANGED <<commandVars, clientVars, accepting, start_camera, video, early>>

Unreachable(c) == ~open[c] \/ \E d \in Conns : gone[d]
                                               /\ AddressOf[d] = AddressOf[c]

(* A picture is there to be sent once the camera runs.  The other end of    *)
(* the data connection is closed or out of reach: the process ends.         *)
SendFails ==
  /\ running /\ (video \/ audio \in {"filled", "wiped"})
  /\ \E c \in Conns : role[c] = "data" /\ Unreachable(c)
  /\ Dies
  /\ UNCHANGED netVars

(* Everything starts anew; the kernel has closed the connections.           *)
Restart ==
  /\ ~running
  /\ running' = TRUE
  /\ verify_ok' = 0 /\ record_state' = 0 /\ Send_num' = "plain"
  /\ asked' = << >> /\ answers' = << >> /\ calls' = << >>
  /\ backlog' = << >>
  /\ role' = [c \in Conns |-> "none"]
  /\ open' = [c \in Conns |-> FALSE] /\ gone' = [c \in Conns |-> FALSE]
  /\ current_client_address' = NoAddress
  /\ flag' = 1 /\ accepting' = "accept"
  /\ start_camera' = 0 /\ video' = FALSE
  /\ audio' = "idle" /\ fault' = "none" /\ early' = FALSE

Client  == \E c \in Conns : Connect(c) \/ Close(c) \/ Vanish(c)
Network == \/ \E c \in Conns : \/ Reject(c) \/ AcceptControl(c)
                               \/ AcceptData(c) \/ AcceptMore(c)
           \/ Prepare
Audio   == \/ FillHeader("buffer", "text_len", "av_command2")
           \/ FillHeader("text_len", "filled", "audio_data")
           \/ Crash("buffer", "av_command2") \/ Crash("text_len", "audio_data")
           \/ SendHeader
Ends    == SendFails \/ \E c \in Conns : ControlClosed(c)

SessionNext == \/ Client \/ Network \/ CameraStarts \/ Ends \/ Restart
               \/ GetBuffer \/ Audio
               \/ \E c \in Conns : Control(c)

SessionSpec == ServerInit /\ [][SessionNext]_sessionVars

(* The threads run, a closed connection is noticed, and a process that has  *)
(* ended is started again.  Clients do as they like.                        *)
FairSessionSpec == /\ SessionSpec
                   /\ WF_sessionVars(Network) /\ WF_sessionVars(CameraStarts)
                   /\ WF_sessionVars(Audio) /\ WF_sessionVars(Ends)
                   /\ WF_sessionVars(Restart)

-----------------------------------------------------------------------------
Roles == {"none", "backlog", "control", "data", "rejected", "unused"}
With(r) == {c \in Conns : role[c] = r}

SessionTypeOK ==
  /\ TypeOK
  /\ backlog \in Seq(Conns)
  /\ role \in [Conns -> Roles]
  /\ open \in [Conns -> BOOLEAN] /\ gone \in [Conns -> BOOLEAN]
  /\ current_client_address \in {NoAddress} \cup {AddressOf[c] : c \in Conns}
  /\ flag \in 1..3
  /\ accepting = "accept" \/ \E i \in DOMAIN Steps : accepting = Steps[i]
  /\ start_camera \in {0, 1} /\ video \in BOOLEAN
  /\ audio \in {"idle", "buffer", "text_len", "filled", "wiped"}
  /\ fault \in {"none", "crash", "mangled"} /\ early \in BOOLEAN

(* What waits in accept's queue has not been taken up.                      *)
BacklogWaits ==
  /\ \A i \in DOMAIN backlog : role[backlog[i]] = "backlog"
  /\ \A i, j \in DOMAIN backlog : backlog[i] = backlog[j] => i = j

(* flag says how many connections are served, and of which kind.            *)
FlagCounts ==
  /\ \A c \in Conns : role[c] \in {"control", "data", "unused"} =>
                        flag # 1 /\ AddressOf[c] = current_client_address
  /\ flag # 1 => /\ \E c \in Conns : With("control") = {c}
                 /\ current_client_address # NoAddress
  /\ IF flag = 3 THEN \E c \in Conns : With("data") = {c}
                 ELSE With("data") = {} /\ accepting = "accept"

(* The camera is told of a data connection once, when it is prepared.       *)
CameraAfterData ==
  start_camera > 0 \/ video => /\ flag = 3 /\ accepting = "accept"
                               /\ start_camera = 0 \/ (start_camera = 1 /\ ~video)

(* Audio that runs before the header is prepared was asked for too early.   *)
AudioAfterData ==
  /\ record_state = 1 \/ audio # "idle" => early \/ Prepared
  /\ audio = "wiped" => early
  /\ fault # "none" => early

(* All connections that are served are of one client, and there is one of   *)
(* each kind, control before data.                                          *)
OneClient ==
  /\ \A c, d \in With("control") \cup With("data") \cup With("unused") :
        AddressOf[c] = AddressOf[d]
  /\ Cardinality(With("control")) <= 1 /\ Cardinality(With("data")) <= 1
  /\ With("data") # {} => With("control") # {}

(* A sender never meets a header that is missing or only half prepared,     *)
(* however the connections and commands come: the camera is started once,   *)
(* when all of a data connection is there, and audio fails only if it was   *)
(* started before, which a client can do (see the README).                  *)
SendersPrepared ==
  /\ start_camera > 0 \/ video => /\ Prepared /\ With("data") # {}
                                  /\ (start_camera > 0 => ~video)
  /\ fault # "none" => early

(* Once the client's control connection is closed, the server is free for   *)
(* any client again.                                                        *)
FreedOnClose ==
  \A c \in Conns : role[c] = "control" /\ ~open[c]
                   ~> current_client_address = NoAddress

=============================================================================
