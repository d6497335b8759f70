------------------------------ MODULE AVSocket ------------------------------
(***************************************************************************)
(* The data connection to the client (network/network.c): send_picture,    *)
(* called by send_picture_thread, and send_audio_data, called by           *)
(* audio_send, share one TCP socket.  Each sends a packet, a header and    *)
(* then a body, in as many send calls as it takes, and holds               *)
(* AVsocket_mutex meanwhile.  A call that times out (SO_SNDTIMEO) is tried *)
(* again, MAX_RETRY_NUM times in a row at most; any other failure ends the *)
(* whole process (exit), which its supervisor restarts.                    *)
(*                                                                         *)
(* What the client has received is abstracted to its last two packets: the *)
(* bytes of each and the length that its header declares.                  *)
(***************************************************************************)
EXTENDS Integers, Sequences

CONSTANTS
  MaxRetry,      \* MAX_RETRY_NUM
  PicLens,       \* the lengths of the pictures
  AudioLen,      \* RECORD_ADPCM_MAX_READ_LEN
  Chunks         \* the short counts that send may return

ASSUME MaxRetryAssumption == MaxRetry \in Nat
ASSUME LengthAssumption   == PicLens \subseteq Nat /\ AudioLen \in Nat
ASSUME ChunkAssumption    == Chunks \subseteq Nat \ {0}

Senders == {"video", "audio"}
Nobody  == "nobody"

VARIABLES
  running,       \* the process has not called exit
  holder,        \* who holds AVsocket_mutex
  pc,            \* where each sender is
  length,        \* the length of the body it sends
  total,         \* total_send_len
  retry_num,     \* the static variable of each function
  sleeping,      \* the sender is in usleep(500000) after a timeout
  wire,          \* what arrived: the last two packets, oldest first
  failed,        \* history: timeouts in a row of each sender
  fatal          \* history: a send call failed otherwise

vars == <<running, holder, pc, length, total, retry_num, sleeping, wire,
          failed, fatal>>

Prefix == 23                    \* sizeof(struct command)

(* sizeof(struct command) + sizeof(struct video_data or audio_data).        *)
HeaderLen(s) == IF s = "video" THEN 36 ELSE 40

(* The body: the picture; the samples and 3 bytes of decoder state.         *)
BodyLens(s) == IF s = "video" THEN PicLens ELSE {AudioLen + 3}

(* What the header declares in text_len: the bytes after the first 23.      *)
TextLen(s, body) == IF s = "video" THEN body + 13 ELSE (body - 3) + 20

Packet(s, n, body) == [from    |-> s, bytes |-> n, text_len |-> TextLen(s, body)]

NoPacket == [from |-> Nobody, bytes |-> 0, text_len |-> 0 - Prefix]

Init ==
  /\ running = TRUE
  /\ holder = Nobody
  /\ pc = [s \in Senders |-> "idle"]
  /\ length = [s \in Senders |-> 0]
  /\ total = [s \in Senders |-> 0]
  /\ retry_num = [s \in Senders |-> 0]
  /\ sleeping = [s \in Senders |-> FALSE]
  /\ wire = <<NoPacket, NoPacket>>
  /\ failed = [s \in Senders |-> 0]
  /\ fatal = FALSE

Sending(s) == pc[s] \in {"header", "body"}

(* How long the part is that a sender is at.                                *)
PartLen(s) == IF pc[s] = "header" THEN HeaderLen(s) ELSE length[s]

-----------------------------------------------------------------------------
(* A sender has a picture or a buffer of samples; it fills in the header.   *)
Begin(s) ==
  /\ running
  /\ pc[s] = "idle"
  /\ pc' = [pc EXCEPT ![s] = "lock"]
  /\ \E n \in BodyLens(s) : length' = [length EXCEPT ![s] = n]
  /\ UNCHANGED <<running, holder, total, retry_num, sleeping, wire, failed,
                 fatal>>

Lock(s) ==
  /\ running
  /\ pc[s] = "lock" /\ holder = Nobody
  /\ holder' = s
  /\ pc' = [pc EXCEPT ![s] = "header"]
  /\ UNCHANGED <<running, length, total, retry_num, sleeping, wire, failed,
                 fatal>>

(* n more bytes of a sender's packet reach the client.  The first bytes of  *)
(* a header, and bytes that another sender's have come before, start a      *)
(* packet of their own there.                                               *)
Arrive(s, n) ==
  LET last  == wire[2]
      fresh == (pc[s] = "header" /\ total[s] = 0) \/ last.from # s
  IN  wire' = IF fresh
              THEN <<last, Packet(s, n, length[s])>>
              ELSE <<wire[1], [last EXCEPT !.bytes = @ + n]>>

(* Wrong: the count goes on from the header to the body.                    *)
WrongSent(s, n) ==
  /\ \/ n = PartLen(s) - total[s]
     \/ n \in Chunks /\ n < PartLen(s) - total[s]
  /\ Arrive(s, n)
  /\ total' = [total EXCEPT ![s] = @ + n]

(* send returns n > 0: all that is left, or less.                           *)
Sent(s, n) ==
  /\ \/ n = PartLen(s) - total[s]
     \/ n \in Chunks /\ n < PartLen(s) - total[s]
  /\ Arrive(s, n)
  /\ total' = [total EXCEPT ![s] =
                 IF pc[s] = "header" /\ @ + n = PartLen(s) THEN 0 ELSE @ + n]

(* Wrong: retry_num is not reset.                                           *)
WrongProgress(s) ==
  /\ failed' = [failed EXCEPT ![s] = 0]
  /\ UNCHANGED <<retry_num, fatal>>

Progress(s) ==
  /\ retry_num' = [retry_num EXCEPT ![s] = 0]
  /\ failed' = [failed EXCEPT ![s] = 0]
  /\ UNCHANGED fatal

SendSome(s) ==
  /\ running /\ Sending(s) /\ ~sleeping[s]
  /\ total[s] < PartLen(s)
  /\ \E n \in 1..(PartLen(s) - total[s]) : 
       /\ Sent(s, n)
       /\ pc' = [pc EXCEPT ![s] =
                   IF @ = "header" /\ total[s] + n = PartLen(s) THEN "body"
                                                               ELSE @]
  /\ Progress(s)
  /\ UNCHANGED <<running, holder, length, sleeping>>

MayRetry(s) == retry_num[s] < MaxRetry

(* send times out: EAGAIN.                                                  *)
Timeout(s) ==
  /\ running /\ Sending(s) /\ ~sleeping[s]
  /\ total[s] < PartLen(s)
  /\ IF MayRetry(s)
     THEN /\ retry_num' = [retry_num EXCEPT ![s] = @ + 1]
          /\ sleeping' = [sleeping EXCEPT ![s] = TRUE]
          /\ UNCHANGED running
     ELSE /\ running' = FALSE
          /\ UNCHANGED <<retry_num, sleeping>>
  /\ failed' = [failed EXCEPT ![s] = @ + 1]
  /\ UNCHANGED <<holder, pc, length, total, wire, fatal>>

SleepOver(s) ==
  /\ running /\ sleeping[s]
  /\ sleeping' = [sleeping EXCEPT ![s] = FALSE]
  /\ UNCHANGED <<running, holder, pc, length, total, retry_num, wire, failed,
                 fatal>>

(* send fails for another reason, the client having gone, for one.          *)
Fail(s) ==
  /\ running /\ Sending(s) /\ ~sleeping[s]
  /\ total[s] < PartLen(s)
  /\ running' = FALSE
  /\ fatal' = TRUE
  /\ UNCHANGED <<holder, pc, length, total, retry_num, sleeping, wire, failed>>

(* Wrong: the mutex is kept when there is no body.                          *)
WrongUnlock(s) ==
  /\ running
  /\ pc[s] = "body" /\ total[s] >= length[s]
  /\ holder' = IF length[s] = 0 THEN holder ELSE Nobody
  /\ pc' = [pc EXCEPT ![s] = "idle"]
  /\ length' = [length EXCEPT ![s] = 0]
  /\ total' = [total EXCEPT ![s] = 0]
  /\ UNCHANGED <<running, retry_num, sleeping, wire, failed, fatal>>

Unlock(s) ==
  /\ running
  /\ pc[s] = "body" /\ total[s] >= length[s]
  /\ holder' = Nobody
  /\ pc' = [pc EXCEPT ![s] = "idle"]
  /\ length' = [length EXCEPT ![s] = 0]
  /\ total' = [total EXCEPT ![s] = 0]
  /\ UNCHANGED <<running, retry_num, sleeping, wire, failed, fatal>>

Work(s) == SendSome(s) \/ Timeout(s) \/ SleepOver(s) \/ Fail(s) \/ Unlock(s)

Next == \E s \in Senders : Begin(s) \/ Lock(s) \/ Work(s)

Spec == Init /\ [][Next]_vars

(* A sender that holds the mutex runs; one that waits for it gets it if it  *)
(* becomes free again and again.                                            *)
Fairness == \A s \in Senders : WF_vars(Work(s)) /\ SF_vars(Lock(s))

FairSpec == Spec /\ Fairness

-----------------------------------------------------------------------------
PacketType == [from: Senders \cup {Nobody}, bytes: Nat, text_len: Int]

TypeOK ==
  /\ running \in BOOLEAN
  /\ holder \in Senders \cup {Nobody}
  /\ pc \in [Senders -> {"idle", "lock", "header", "body"}]
  /\ length \in [Senders -> Nat]
  /\ total \in [Senders -> Nat]
  /\ retry_num \in [Senders -> 0..MaxRetry]
  /\ sleeping \in [Senders -> BOOLEAN]
  /\ wire \in PacketType \X PacketType
  /\ failed \in [Senders -> Nat]
  /\ fatal \in BOOLEAN

Whole(p) == p.bytes = Prefix + p.text_len

(* The client sees whole packets, one after the other, whatever the two     *)
(* senders do: before the last one starts, the one before it is complete,   *)
(* exactly as long as its header says.                                      *)
PacketsWhole == Whole(wire[1])

(* Between packets the stream is at a packet boundary.                      *)
BoundaryWhenFree == holder = Nobody => Whole(wire[2])

(* Nobody but the holder of the mutex is sending, and what the client has   *)
(* of the packet on its way is what the sender counts.                      *)
CountMatchesWire ==
  \A s \in Senders :
    Sending(s) =>
      /\ holder = s
      /\ LET done == IF pc[s] = "header" THEN total[s]
                                         ELSE HeaderLen(s) + total[s]
         IN  done > 0 => wire[2] = Packet(s, done, length[s])

(* The process gives up exactly on a client that has been deaf for          *)
(* MAX_RETRY_NUM timeouts and one more, IN A ROW, or on a broken connection. *)
GivesUpOnDeaf ==
  ~running => fatal \/ \E s \in Senders : failed[s] = MaxRetry + 1

-----------------------------------------------------------------------------
(* The inductive invariant behind the properties above.                     *)

(* The mutex is held by the one sender that sends, and only it is in the    *)
(* middle of a part or asleep.                                              *)
MutexInv ==
  \A s \in Senders :
    /\ Sending(s) <=> holder = s
    /\ ~Sending(s) => total[s] = 0 /\ ~sleeping[s]
    /\ Sending(s) => total[s] <= PartLen(s)
    /\ sleeping[s] => total[s] < PartLen(s)
    /\ pc[s] = "header" => total[s] < HeaderLen(s)
    /\ pc[s] # "idle" => length[s] \in BodyLens(s)

(* A header is begun at a packet boundary.                                  *)
StartInv == \A s \in Senders : pc[s] = "header" /\ total[s] = 0
                                 => Whole(wire[2])

(* retry_num counts the timeouts in a row.                                  *)
RetryInv == running => ~fatal /\ \A s \in Senders : failed[s] = retry_num[s]

IInv == /\ TypeOK /\ MutexInv /\ StartInv /\ RetryInv /\ PacketsWhole
        /\ BoundaryWhenFree /\ CountMatchesWire /\ GivesUpOnDeaf

-----------------------------------------------------------------------------
(* A packet that is begun is completed, or the process ends: neither a      *)
(* client that is slow nor one that is deaf blocks the other sender.        *)
EachPacketEnds ==
  \A s \in Senders : pc[s] = "lock" ~> pc[s] = "idle" \/ ~running
=============================================================================
