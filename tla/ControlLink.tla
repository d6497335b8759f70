---------------------------- MODULE ControlLink -----------------------------
(***************************************************************************)
(* The control connection: the loop of set_opcode_connection               *)
(* (network/network.c), which cuts the byte stream from the client into    *)
(* commands and has prase_packet execute them.                             *)
(*                                                                         *)
(* What the client sends is a sequence of units: messages, and stray bytes *)
(* that belong to no message.  The server knows nothing of units: it takes *)
(* any four bytes "MO_O" for the head of a message, wherever it happens to *)
(* be reading.  So of the bytes two things matter: their place, and where  *)
(* they spell a head, within a text or in stray bytes too.                 *)
(***************************************************************************)
EXTENDS Integers, Commands, FiniteSets

CONSTANT Streams   \* what clients send

SyncLen   == 4                  \* strlen(str_ctl)
PrefixLen == 23                 \* the bytes of a message before its text
MaxText   == 200                \* the longest text_len that is read
BufferLen == 100                \* what malloc has given "buffer"

(* What the 19 bytes behind a head say when they are read as a header.      *)
Opcode16 == 0..65535
Header19 == [op: Opcode16, text_len: Int]

(* A unit begins at byte "at".  A message has a head there, and "size"      *)
(* bytes of text, which need not be what its text_len says.                 *)
Unit == [message: BOOLEAN, size: Nat, at: Nat]

Length(u) == IF u.message THEN PrefixLen + u.size ELSE u.size
EndOf(u)  == u.at + Length(u)
Size(s)   == EndOf(s.units[Len(s.units)])

(* A stream: its units, one behind the other, and "heads", which gives for  *)
(* every place where "MO_O" stands what follows it.  "MO_O" cannot overlap  *)
(* itself.                                                                  *)
ASSUME StreamsAssumption ==
  \A s \in Streams :
    /\ s.units \in Seq(Unit) \ {<< >>}
    /\ \A i \in DOMAIN s.units :
         /\ s.units[i].at = IF i = 1 THEN 0 ELSE EndOf(s.units[i - 1])
         /\ s.units[i].message => s.units[i].at \in DOMAIN s.heads
         /\ Length(s.units[i]) > 0
    /\ DOMAIN s.heads \subseteq Nat
    /\ \A p \in DOMAIN s.heads :
         /\ s.heads[p] \in Header19
         /\ s.heads[p].op % 256 \in Opcodes
    /\ \A p, q \in DOMAIN s.heads : p < q => p + SyncLen <= q

NoHead == -1

VARIABLES
  stream,        \* what the client sends
  pos,           \* how many bytes of it have been received
  pc,            \* which part of a message is read: "sync", "header", "text"
  recv_len,      \* how many bytes of the part read_client has
  place,         \* where the head stands that was found (or NoHead)
  overrun,       \* bytes have been written behind the end of "buffer"
  executed       \* history: the places of the heads of what was executed

linkVars == <<stream, pos, pc, recv_len, place, overrun, executed>>
vars     == <<commandVars, linkVars>>

LinkInit ==
  /\ CommandsInit
  /\ stream \in Streams
  /\ pos = 0 /\ pc = "sync" /\ recv_len = 0
  /\ place = NoHead /\ overrun = FALSE
  /\ executed = << >>

-----------------------------------------------------------------------------
(* Wrong: the text is left in the socket.                                   *)
WrongWanted == CASE pc = "sync"   -> SyncLen
                 [] pc = "header" -> PrefixLen - SyncLen
                 [] pc = "text"   -> 0

(* How many bytes read_client is to read.  (text_len is a signed int.)      *)
Wanted == CASE pc = "sync"   -> SyncLen
            [] pc = "header" -> PrefixLen - SyncLen
            [] pc = "text"   -> stream.heads[place].text_len

(* recv returns some of the bytes that are still wanted.  They are written  *)
(* to "buffer" whether or not it has room for them.                         *)
Recv ==
  /\ running /\ recv_len < Wanted
  /\ \E n \in {1, Wanted - recv_len} :
       /\ pos + n <= Size(stream)
       /\ pos' = pos + n
       /\ recv_len' = recv_len + n
       /\ overrun' = (overrun \/ recv_len + n > BufferLen)
  /\ UNCHANGED <<commandVars, stream, pc, place, executed>>

(* The client closes, or its text_len is negative: read_client returns less *)
(* than it was asked for, and the process exits.  What a process does whose *)
(* heap has been overwritten is undefined: it may come to its end at any    *)
(* time, or go on as if nothing had happened.                               *)
Exit ==
  /\ running
  /\ recv_len # Wanted \/ overrun
  /\ running' = FALSE
  /\ UNCHANGED <<verify_ok, record_state, Send_num, asked, answers, calls,
                 linkVars>>

(* The four bytes received are "MO_O".                                      *)
HeadAt(p) == p \in DOMAIN stream.heads

(* Four bytes that are no head are dropped, and the next four are tried.    *)
Sync ==
  /\ running /\ pc = "sync" /\ recv_len = SyncLen
  /\ recv_len' = 0
  /\ IF HeadAt(pos - SyncLen)
     THEN pc' = "header" /\ place' = pos - SyncLen
     ELSE UNCHANGED <<pc, place>>
  /\ UNCHANGED <<commandVars, stream, pos, overrun, executed>>

(* Wrong: any text is read.                                                 *)
WrongTooLong(n) == FALSE

TooLong(n) == n > MaxText

(* text_len decides.  The text of a message that is too long is not skipped.*)
Header ==
  /\ running /\ pc = "header" /\ recv_len = PrefixLen - SyncLen
  /\ recv_len' = 0
  /\ IF TooLong(stream.heads[place].text_len)
     THEN pc' = "sync" /\ place' = NoHead
     ELSE pc' = "text" /\ UNCHANGED place
  /\ UNCHANGED <<commandVars, stream, pos, overrun, executed>>

(* Wrong: a message without text is not executed.                           *)
WrongText ==
  /\ running /\ pc = "text" /\ recv_len = Wanted
  /\ pc' = "sync" /\ recv_len' = 0 /\ place' = NoHead
  /\ IF Wanted > 0
     THEN /\ Command(stream.heads[place].op % 256)
          /\ executed' = Append(executed, place)
     ELSE UNCHANGED <<commandVars, executed>>
  /\ UNCHANGED <<stream, pos, overrun>>

(* The opcode is one byte of the two that the header has for it.            *)
Text ==
  /\ running /\ pc = "text" /\ recv_len = Wanted
  /\ pc' = "sync" /\ recv_len' = 0 /\ place' = NoHead
  /\ Command(stream.heads[place].op % 256)
  /\ executed' = Append(executed, place)
  /\ UNCHANGED <<stream, pos, overrun>>

LinkNext == Recv \/ Exit \/ Sync \/ Header \/ Text

LinkSpec == LinkInit /\ [][LinkNext]_vars

(* The thread runs, and what the client sends arrives, unless it closes     *)
(* the connection, which nothing makes it do.                               *)
FairLinkSpec == LinkSpec /\ WF_vars(Recv \/ Sync \/ Header \/ Text)

-----------------------------------------------------------------------------
(* Properties.                                                              *)
LinkTypeOK ==
  /\ TypeOK
  /\ stream \in Streams
  /\ pos \in Nat /\ recv_len \in Nat
  /\ pc \in {"sync", "header", "text"}
  /\ IF pc = "sync" THEN place = NoHead ELSE place \in DOMAIN stream.heads
  /\ overrun \in BOOLEAN
  /\ executed \in Seq(DOMAIN stream.heads)

(* What a client may send that keeps the server's reads where its messages  *)
(* begin: messages as long as they say whose text has room in "buffer";     *)
Proper(s, u) ==
  u.message /\ s.heads[u.at].text_len = u.size /\ u.size <= BufferLen

(* and bytes that are dropped four by four, none of the fours being a head: *)
(* stray ones, and the text of a message that is too long to be read.       *)
DroppedFrom(s, u, start) ==
  /\ (EndOf(u) - start) % SyncLen = 0
  /\ \A p \in DOMAIN s.heads :
       p >= start /\ p < EndOf(u) => (p - start) % SyncLen # 0

Skipped(s, u) ==
  \/ ~u.message /\ DroppedFrom(s, u, u.at)
  \/ /\ u.message /\ s.heads[u.at].text_len > MaxText
     /\ DroppedFrom(s, u, u.at + PrefixLen)

Harmless(s, u) == Proper(s, u) \/ Skipped(s, u)

InSync(s) == \A i \in DOMAIN s.units : Harmless(s, s.units[i])

(* A head is genuine that a message of the client begins with.  This one is *)
(* if the client has sent nothing but harmless units so far.                *)
Genuine(p) ==
  \/ \E i \in DOMAIN stream.units :
        stream.units[i].message /\ stream.units[i].at = p
  \/ \E i \in DOMAIN stream.units :
        stream.units[i].at <= p /\ ~Harmless(stream, stream.units[i])

(* However the bytes are cut up by recv: no byte is read as part of two     *)
(* commands, each command has the opcode of its own head, and what stands   *)
(* within the text of a proper message, "MO_O" included, is never taken for *)
(* a command, nor is anything else that the client did not send as one,     *)
(* unless it has put the server out of step before.                         *)
GenuineOnly ==
  /\ \A i, j \in DOMAIN executed :
       i < j => executed[i] + PrefixLen + stream.heads[executed[i]].text_len
                  <= executed[j]
  /\ \A i \in DOMAIN executed :
       /\ Genuine(executed[i])
       /\ asked[i] = stream.heads[executed[i]].op % 256

(* Nothing is written behind the end of "buffer", to which texts of up to   *)
(* 200 bytes are read and which has 100, as long as the client keeps its    *)
(* texts that short: whatever it writes in them, and whatever it sends that *)
(* is dropped.                                                              *)
BufferFits == InSync(stream) => ~overrun

(* Such a client has all its proper messages executed, or the connection    *)
(* ends.                                                                    *)
AllExecuted ==
  InSync(stream) =>
    <>(~running \/ \A i \in DOMAIN stream.units :
                     Proper(stream, stream.units[i])
                       => \E k \in DOMAIN executed :
                            executed[k] = stream.units[i].at)

-----------------------------------------------------------------------------
(* The inductive invariant behind the safety properties.                    *)

(* How far the bytes of the command that is read reach.                     *)
ReadSoFar ==
  /\ pos <= Size(stream)
  /\ pc = "sync"   => pos >= recv_len
  /\ pc = "header" => pos = place + SyncLen + recv_len
  /\ pc = "text"   => /\ pos = place + PrefixLen + recv_len
                     /\ ~TooLong(stream.heads[place].text_len)

(* What has been executed ends where the present read began, or before.     *)
ReadFrom == IF pc = "sync" THEN pos - recv_len ELSE place

ExecutedBefore ==
  /\ Len(asked) = Len(executed)
  /\ \A k \in DOMAIN executed :
       /\ stream.heads[executed[k]].text_len >= 0
       /\ executed[k] + PrefixLen + stream.heads[executed[k]].text_len
            <= ReadFrom

(* Where a client that has sent harmless units only makes the server read   *)
(* the next four bytes: where a unit begins, or four by four in what is     *)
(* dropped of one.                                                          *)
Dropping(u, start, p) ==
  p >= start /\ p < EndOf(u) /\ (p - start) % SyncLen = 0

Inside(p) ==
  \E i \in DOMAIN stream.units :
    LET u == stream.units[i]
    IN  \/ p = u.at
        \/ ~u.message /\ Dropping(u, u.at, p)
        \/ /\ u.message /\ stream.heads[u.at].text_len > MaxText
           /\ Dropping(u, u.at + PrefixLen, p)

Clean(p) ==
  \A i \in DOMAIN stream.units :
    stream.units[i].at < p => Harmless(stream, stream.units[i])

Aligned ==
  IF pc = "sync"
  THEN Clean(pos - recv_len) =>
         pos - recv_len = Size(stream) \/ Inside(pos - recv_len)
  ELSE Genuine(place)

LinkInv == ReadSoFar /\ ExecutedBefore /\ Aligned
=============================================================================
