---------------------------- MODULE ControlProofs ---------------------------
(***************************************************************************)
(* The commands of the client, for every stream of bytes and every way in  *)
(* which recv cuts it up (ControlLink), and for every number of            *)
(* connections, addresses and commands of a session (Session).  What a     *)
(* command does is stated once and used for both.                          *)
(***************************************************************************)
EXTENDS ControlLink, Session, FiniteSetTheorems, TLAPS

-----------------------------------------------------------------------------
(* The sequence t is s with one element more.                               *)
Extends(t, s, a) ==
  /\ DOMAIN s = 1..Len(s) /\ DOMAIN t = 1..Len(t) /\ Len(s) \in Nat
  /\ Len(t) = Len(s) + 1
  /\ t[Len(s) + 1] = a
  /\ \A i \in DOMAIN s : t[i] = s[i]

(* A handler answers, or its send fails.                                    *)
LEMMA ReplyTyped ==
  ASSUME TypeOK, NEW a \in AnswerType, Reply(a)
  PROVE  /\ running' \in BOOLEAN /\ answers' \in Seq(AnswerType)
         /\ answers' = answers \/ Extends(answers', answers, a)
<1>1. running' \in BOOLEAN
  BY Zenon DEF Reply, TypeOK
<1>2. CASE answers' = answers
  BY <1>1, <1>2 DEF TypeOK
<1>3. CASE answers' = Append(answers, a)
  <2>1. /\ answers \in Seq(AnswerType)
        /\ Append(answers, a) \in Seq(AnswerType)
        /\ Len(Append(answers, a)) = Len(answers) + 1
        /\ Append(answers, a)[Len(answers) + 1] = a
        /\ \A i \in DOMAIN answers : Append(answers, a)[i] = answers[i]
    BY DEF TypeOK
  <2>2. /\ DOMAIN answers = 1..Len(answers) /\ Len(answers) \in Nat
        /\ DOMAIN answers' = 1..Len(answers')
    BY <2>1, <1>3 DEF TypeOK
  <2> QED BY <1>1, <1>3, <2>1, <2>2 DEF Extends
<1> QED BY <1>2, <1>3 DEF Reply

LEMMA AnswersTyped ==
  /\ TypeOK => Answer(1, Send_num) \in AnswerType
  /\ \A op \in {3, 5, 9, 254} : Answer(op, "none") \in AnswerType
  BY DEF TypeOK, Answer, AnswerType

(* Of n calls the next has number n + 1, and parities alternate.            *)
LEMMA Parity ==
  \A n \in Nat : /\ n % 2 \in {0, 1}
                 /\ n % 2 = 0 => (n + 1) % 2 = 1 /\ (n + 2) % 2 = 0
                 /\ n % 2 = 1 => (n + 1) % 2 = 0 /\ (n + 2) % 2 = 1
  OBVIOUS

(* What a handler of each kind does to the variables but for calls.         *)
LEMMA HandlerStep ==
  ASSUME TypeOK, NEW op, Command(op)
  PROVE  \/ UNCHANGED <<running, verify_ok, Send_num, answers>>
         \/ /\ verify_ok = 0 /\ UNCHANGED <<verify_ok, Send_num>>
            /\ Reply(Answer(1, Send_num))
         \/ /\ verify_ok = 0 /\ verify_ok' = 1 /\ Send_num' = "encrypted"
            /\ Reply(Answer(3, "none"))
         \/ /\ verify_ok = 1 /\ UNCHANGED <<verify_ok, Send_num>>
            /\ \E o \in {5, 9, 254} : Reply(Answer(o, "none"))
  BY Zenon DEF Command, prase_packet, deal_login_req, deal_verify_req, Ignored,
         send_video_start_resp, keep_connect, AudioStart, AudioEnd

LEMMA CallsStep ==
  ASSUME NEW op, Command(op)
  PROVE  \/ UNCHANGED <<record_state, calls>>
         \/ AudioStart \/ AudioEnd
  BY Zenon DEF Command, prase_packet, deal_login_req, deal_verify_req, Ignored,
         send_video_start_resp, keep_connect

LEMMA CommandTypeOK ==
  ASSUME TypeOK, NEW op \in Opcodes, Command(op)
  PROVE  TypeOK'
<1>1. asked' \in Seq(Opcodes)
  BY DEF Command, TypeOK
<1>2. running' \in BOOLEAN /\ answers' \in Seq(AnswerType)
  <2>1. CASE UNCHANGED <<running, answers>>
    BY <2>1 DEF TypeOK
  <2>2. CASE Reply(Answer(1, Send_num))
    BY <2>2, AnswersTyped, ReplyTyped
  <2>3. ASSUME NEW o \in {3, 5, 9, 254}, Reply(Answer(o, "none"))
        PROVE  running' \in BOOLEAN /\ answers' \in Seq(AnswerType)
    BY <2>3, AnswersTyped, ReplyTyped
  <2> QED BY <2>1, <2>2, <2>3, HandlerStep
<1>3. verify_ok' \in {0, 1} /\ Send_num' \in {"plain", "encrypted"}
  BY HandlerStep DEF TypeOK
<1>4. /\ calls' \in Seq({"start_capture", "stop_capture"})
      /\ record_state' \in {0, 1}
  <2>1. calls \in Seq({"start_capture", "stop_capture"}) /\ record_state \in {0, 1}
    BY DEF TypeOK
  <2>2. CASE AudioStart
    <3>1. CASE record_state = 1
      BY <2>1, <2>2, <3>1 DEF AudioStart
    <3>2. CASE record_state = 0
      BY <2>1, <2>2, <3>2 DEF AudioStart
    <3> QED BY <2>1, <3>1, <3>2
  <2>3. CASE AudioEnd
    BY <2>1, <2>3 DEF AudioEnd
  <2> QED BY <2>1, <2>2, <2>3, CallsStep
<1> QED BY <1>1, <1>2, <1>3, <1>4 DEF TypeOK

(* Command 8 adds a start, after a stop if need be; command 10 a stop, if   *)
(* there is something to stop; no other handler adds anything.              *)
LEMMA CommandAlternates ==
  ASSUME TypeOK, StartStopAlternate, NEW op, Command(op)
  PROVE  StartStopAlternate'
<1>1. /\ Len(calls) \in Nat /\ DOMAIN calls = 1..Len(calls)
      /\ record_state \in {0, 1} /\ record_state = Len(calls) % 2
      /\ \A i \in DOMAIN calls :
           calls[i] = IF i % 2 = 1 THEN "start_capture" ELSE "stop_capture"
  BY DEF TypeOK, StartStopAlternate
<1>2. CASE UNCHANGED <<record_state, calls>>
  BY <1>2 DEF StartStopAlternate
<1>3. CASE AudioStart /\ record_state = 1
  <2>1. /\ Len(calls') = Len(calls) + 2 /\ record_state' = 1
        /\ DOMAIN calls' = 1..(Len(calls) + 2)
        /\ \A i \in DOMAIN calls : calls'[i] = calls[i]
        /\ calls'[Len(calls) + 1] = "stop_capture"
        /\ calls'[Len(calls) + 2] = "start_capture"
    BY <1>3 DEF AudioStart, TypeOK
  <2>2. (Len(calls) + 1) % 2 = 0 /\ (Len(calls) + 2) % 2 = 1
    BY <1>1, <1>3, Parity
  <2>3. \A i \in DOMAIN calls' :
          i \in DOMAIN calls \/ i = Len(calls) + 1 \/ i = Len(calls) + 2
    BY <2>1, <1>1
  <2> QED BY <2>1, <2>2, <2>3, <1>1 DEF StartStopAlternate
<1>4. CASE \/ AudioStart /\ record_state = 0
           \/ AudioEnd /\ record_state = 1
  <2> DEFINE call == IF record_state = 0 THEN "start_capture" ELSE "stop_capture"
  <2>1. calls' = Append(calls, call) /\ record_state' = 1 - record_state
    BY <1>4 DEF AudioStart, AudioEnd, TypeOK
  <2>2. /\ Len(calls') = Len(calls) + 1
        /\ DOMAIN calls' = 1..(Len(calls) + 1)
        /\ \A i \in DOMAIN calls : calls'[i] = calls[i]
        /\ calls'[Len(calls) + 1] = call
    BY <2>1 DEF TypeOK
  <2>3. (Len(calls) + 1) % 2 = 1 - record_state
    BY <1>1, Parity
  <2>4. \A i \in DOMAIN calls' : i \in DOMAIN calls \/ i = Len(calls) + 1
    BY <2>2, <1>1
  <2> QED BY <2>1, <2>2, <2>3, <2>4, <1>1 DEF StartStopAlternate
<1>5. CASE AudioEnd /\ record_state = 0
  <2>1. calls' = calls /\ record_state' = record_state
    BY <1>5 DEF AudioEnd
  <2> QED BY <2>1 DEF StartStopAlternate
<1> QED
  BY <1>1, <1>2, <1>3, <1>4, <1>5, CallsStep

(* Before the answer 3 nothing but 1 was sent; after it no handler is       *)
(* reached that sends a 1 or a 3.                                           *)
LEMMA CommandVerified ==
  ASSUME TypeOK, LogInOnly, VerifiedFirst, NEW op, Command(op)
  PROVE  LogInOnly' /\ VerifiedFirst'
<1>1. CASE UNCHANGED <<verify_ok, Send_num, answers>>
  BY <1>1 DEF LogInOnly, VerifiedFirst
<1>2. CASE /\ verify_ok = 0 /\ UNCHANGED <<verify_ok, Send_num>>
           /\ Reply(Answer(1, Send_num))
  <2>1. answers' = answers \/ Extends(answers', answers, Answer(1, "plain"))
    BY <1>2, AnswersTyped, ReplyTyped DEF LogInOnly
  <2> QED
    BY <2>1, <1>2 DEF LogInOnly, VerifiedFirst, Answer, Extends
<1>3. CASE /\ verify_ok = 0 /\ verify_ok' = 1
           /\ Reply(Answer(3, "none"))
  <2>1. answers' = answers \/ Extends(answers', answers, Answer(3, "none"))
    BY <1>3, AnswersTyped, ReplyTyped
  <2> QED
    BY <2>1, <1>3 DEF LogInOnly, VerifiedFirst, Answer, Extends
<1>4. CASE /\ verify_ok = 1 /\ UNCHANGED <<verify_ok, Send_num>>
           /\ \E o \in {5, 9, 254} : Reply(Answer(o, "none"))
  <2>1. PICK o \in {5, 9, 254} : Reply(Answer(o, "none"))
    BY <1>4
  <2>2. answers' = answers \/ Extends(answers', answers, Answer(o, "none"))
    BY <2>1, AnswersTyped, ReplyTyped
  <2> QED
    BY <2>2, <1>4 DEF LogInOnly, VerifiedFirst, Answer, Extends
<1> QED
  BY <1>1, <1>2, <1>3, <1>4, HandlerStep

CommandsIInv == TypeOK /\ LogInOnly /\ StartStopAlternate /\ VerifiedFirst

LEMMA CommandsInitIInv == CommandsInit => CommandsIInv
  BY DEF CommandsInit, CommandsIInv, TypeOK, LogInOnly, StartStopAlternate,
         VerifiedFirst

LEMMA CommandIInv ==
  ASSUME CommandsIInv, NEW op \in Opcodes, Command(op)
  PROVE  CommandsIInv'
  BY CommandTypeOK, CommandAlternates, CommandVerified DEF CommandsIInv

(* The end of the process leaves everything as it was.                      *)
LEMMA ExitCommandsIInv ==
  ASSUME CommandsIInv, running' \in BOOLEAN,
         UNCHANGED <<verify_ok, record_state, Send_num, asked, answers, calls>>
  PROVE  CommandsIInv'
  BY DEF CommandsIInv, TypeOK, LogInOnly, StartStopAlternate, VerifiedFirst

LEMMA CommandsStay ==
  ASSUME CommandsIInv, UNCHANGED commandVars
  PROVE  CommandsIInv'
  BY DEF CommandsIInv, commandVars, TypeOK, LogInOnly, StartStopAlternate,
         VerifiedFirst

-----------------------------------------------------------------------------
LinkIInv == /\ CommandsIInv /\ LinkTypeOK /\ LinkInv /\ GenuineOnly
            /\ BufferFits

(* What StreamsAssumption says of the stream.                               *)
LEMMA StreamTyped ==
  ASSUME stream \in Streams
  PROVE  /\ DOMAIN stream.units = 1..Len(stream.units)
         /\ Len(stream.units) \in DOMAIN stream.units
         /\ stream.units[1].at = 0
         /\ Size(stream) \in Nat
         /\ \A i \in DOMAIN stream.units :
              /\ stream.units[i].message \in BOOLEAN
              /\ stream.units[i].at \in Nat /\ stream.units[i].size \in Nat
              /\ EndOf(stream.units[i]) \in Nat
              /\ EndOf(stream.units[i]) =
                   IF stream.units[i].message
                   THEN stream.units[i].at + (PrefixLen + stream.units[i].size)
                   ELSE stream.units[i].at + stream.units[i].size
              /\ stream.units[i].at < EndOf(stream.units[i])
              /\ stream.units[i].message
                   => stream.units[i].at \in DOMAIN stream.heads
              /\ i + 1 \in DOMAIN stream.units
                   => stream.units[i + 1].at = EndOf(stream.units[i])
         /\ \A p \in DOMAIN stream.heads :
              /\ p \in Nat /\ stream.heads[p].text_len \in Int
              /\ stream.heads[p].op % 256 \in Opcodes
<1> DEFINE us == stream.units
<1>1. /\ us \in Seq(Unit) /\ us # << >>
      /\ \A i \in DOMAIN us :
           /\ us[i].at = IF i = 1 THEN 0 ELSE EndOf(us[i - 1])
           /\ us[i].message => us[i].at \in DOMAIN stream.heads
           /\ Length(us[i]) > 0
      /\ DOMAIN stream.heads \subseteq Nat
      /\ \A p \in DOMAIN stream.heads :
           /\ stream.heads[p] \in Header19
           /\ stream.heads[p].op % 256 \in Opcodes
  BY StreamsAssumption
<1> HIDE DEF us
<1>2. /\ DOMAIN us = 1..Len(us) /\ Len(us) \in Nat /\ Len(us) > 0
      /\ \A i \in DOMAIN us : us[i] \in Unit
  BY <1>1
<1>3. \A u \in Unit :
        /\ u.message \in BOOLEAN /\ u.at \in Nat /\ u.size \in Nat
        /\ EndOf(u) \in Nat
        /\ EndOf(u) = IF u.message THEN u.at + (PrefixLen + u.size)
                                   ELSE u.at + u.size
        /\ Length(u) > 0 => u.at < EndOf(u)
  BY DEF Unit, EndOf, Length, PrefixLen
<1>4. /\ 1 \in DOMAIN us /\ Len(us) \in DOMAIN us
      /\ \A i \in DOMAIN us :
           i + 1 \in DOMAIN us => i + 1 # 1 /\ (i + 1) - 1 = i
  BY <1>2
<1>5. us[1].at = 0
  BY <1>1, <1>4
<1>6. \A i \in DOMAIN us : i + 1 \in DOMAIN us => us[i + 1].at = EndOf(us[i])
  BY <1>1, <1>4
<1>7. Size(stream) \in Nat
  BY <1>2, <1>3, <1>4 DEF Size, us
<1>8. \A h \in Header19 : h.text_len \in Int
  BY DEF Header19
<1> QED
  BY <1>1, <1>2, <1>3, <1>4, <1>5, <1>6, <1>7, <1>8 DEF us

LEMMA WantedTyped ==
  ASSUME LinkTypeOK
  PROVE  Wanted \in Int
<1>1. pc # "sync" => place \in DOMAIN stream.heads
  BY DEF LinkTypeOK
<1> QED
  BY <1>1, StreamTyped DEF Wanted, LinkTypeOK, SyncLen, PrefixLen

-----------------------------------------------------------------------------
(* Where the server reads, as long as the client sends harmless units.      *)

(* Behind a unit the next one begins, or the stream ends.                   *)
LEMMA UnitEnds ==
  ASSUME stream \in Streams, NEW i \in DOMAIN stream.units
  PROVE  EndOf(stream.units[i]) = Size(stream) \/ Inside(EndOf(stream.units[i]))
<1>1. CASE i = Len(stream.units)
  BY <1>1 DEF Size
<1>2. CASE i # Len(stream.units)
  <2>1. i + 1 \in DOMAIN stream.units
    BY <1>2, StreamTyped
  <2>2. stream.units[i + 1].at = EndOf(stream.units[i])
    BY <2>1, StreamTyped
  <2> QED BY <2>1, <2>2 DEF Inside
<1> QED BY <1>1, <1>2

LEMMA StreamBegins ==
  ASSUME stream \in Streams
  PROVE  Inside(0)
<1>1. 1 \in DOMAIN stream.units /\ stream.units[1].at = 0
  BY StreamTyped
<1> QED BY <1>1 DEF Inside

(* No head stands where an aligned read finds dropped bytes.                *)
LEMMA NoneDropped ==
  ASSUME NEW s, NEW u, NEW start, NEW p \in DOMAIN s.heads,
         DroppedFrom(s, u, start)
  PROVE  ~Dropping(u, start, p)
  BY DEF DroppedFrom, Dropping

(* So a head found by a read inside a unit is genuine.                      *)
LEMMA HeadInside ==
  ASSUME stream \in Streams, NEW p \in DOMAIN stream.heads, Inside(p)
  PROVE  Genuine(p)
<1>1. PICK i \in DOMAIN stream.units :
        \/ p = stream.units[i].at
        \/ ~stream.units[i].message
           /\ Dropping(stream.units[i], stream.units[i].at, p)
        \/ /\ stream.units[i].message
           /\ stream.heads[stream.units[i].at].text_len > MaxText
           /\ Dropping(stream.units[i], stream.units[i].at + PrefixLen, p)
  BY DEF Inside
<1> DEFINE u == stream.units[i]
<1>2. /\ u.at \in Nat /\ u.size \in Nat /\ u.message \in BOOLEAN /\ p \in Nat
      /\ u.at < EndOf(u) /\ EndOf(u) \in Nat
  BY StreamTyped
<1>3. u.at <= p
  BY <1>1, <1>2 DEF Dropping, PrefixLen
<1>4. CASE ~Harmless(stream, u)
  BY <1>3, <1>4 DEF Genuine
<1>5. CASE u.message /\ p = u.at
  BY <1>5 DEF Genuine
<1>6. CASE ~u.message /\ Harmless(stream, u)
  <2>1. DroppedFrom(stream, u, u.at)
    BY <1>6 DEF Harmless, Proper, Skipped
  <2>2. p = u.at => Dropping(u, u.at, p)
    BY <1>2 DEF Dropping, SyncLen
  <2> QED BY <1>1, <1>6, <2>1, <2>2, NoneDropped
<1>7. CASE u.message /\ p # u.at /\ Harmless(stream, u)
  <2>1. /\ stream.heads[u.at].text_len > MaxText
        /\ Dropping(u, u.at + PrefixLen, p)
    BY <1>1, <1>7
  <2>2. ~Proper(stream, u)
    BY <1>2, <2>1 DEF Proper, MaxText, BufferLen
  <2>3. DroppedFrom(stream, u, u.at + PrefixLen)
    BY <1>7, <2>2 DEF Harmless, Skipped
  <2> QED BY <2>1, <2>3, NoneDropped
<1> QED BY <1>2, <1>4, <1>5, <1>6, <1>7

(* In bytes that are dropped four by four.                                  *)
LEMMA DroppingGoesOn ==
  ASSUME NEW u, NEW start \in Nat, NEW p \in Nat, EndOf(u) \in Nat,
         Dropping(u, start, p), (EndOf(u) - start) % SyncLen = 0
  PROVE  p + 4 = EndOf(u) \/ Dropping(u, start, p + 4)
  BY DEF Dropping, SyncLen

(* The read of four bytes that are no head is followed by one that is       *)
(* inside, too.                                                             *)
LEMMA DropInside ==
  ASSUME stream \in Streams, NEW p \in Nat, p \notin DOMAIN stream.heads,
         Inside(p), Clean(p + 4)
  PROVE  p + 4 = Size(stream) \/ Inside(p + 4)
<1>1. PICK i \in DOMAIN stream.units :
        \/ p = stream.units[i].at
        \/ ~stream.units[i].message
           /\ Dropping(stream.units[i], stream.units[i].at, p)
        \/ /\ stream.units[i].message
           /\ stream.heads[stream.units[i].at].text_len > MaxText
           /\ Dropping(stream.units[i], stream.units[i].at + PrefixLen, p)
  BY DEF Inside
<1> DEFINE u == stream.units[i]
<1>2. /\ u.at \in Nat /\ u.size \in Nat /\ u.message \in BOOLEAN
      /\ u.at < EndOf(u) /\ EndOf(u) \in Nat
      /\ u.message => u.at \in DOMAIN stream.heads
  BY StreamTyped
<1>3. u.at < p + 4
  BY <1>1, <1>2 DEF Dropping, PrefixLen
<1>4. Harmless(stream, u)
  BY <1>3 DEF Clean
<1>5. EndOf(u) = Size(stream) \/ Inside(EndOf(u))
  BY UnitEnds
<1>6. CASE ~u.message
  <2>1. (EndOf(u) - u.at) % SyncLen = 0
    BY <1>4, <1>6 DEF Harmless, Proper, Skipped, DroppedFrom
  <2>2. Dropping(u, u.at, p)
    BY <1>1, <1>2, <1>6 DEF Dropping, SyncLen
  <2>3. p + 4 = EndOf(u) \/ Dropping(u, u.at, p + 4)
    BY <1>2, <2>1, <2>2, DroppingGoesOn
  <2> QED BY <1>5, <1>6, <2>3 DEF Inside
<1>7. CASE u.message
  <2>1. /\ stream.heads[u.at].text_len > MaxText
        /\ Dropping(u, u.at + PrefixLen, p)
    BY <1>1, <1>2, <1>7
  <2>2. ~Proper(stream, u)
    BY <1>2, <2>1 DEF Proper, MaxText, BufferLen
  <2>3. (EndOf(u) - (u.at + PrefixLen)) % SyncLen = 0
    BY <1>4, <1>7, <2>2 DEF Harmless, Skipped, DroppedFrom
  <2>4. u.at + PrefixLen \in Nat
    BY <1>2 DEF PrefixLen
  <2>5. p + 4 = EndOf(u) \/ Dropping(u, u.at + PrefixLen, p + 4)
    BY <1>2, <2>1, <2>3, <2>4, DroppingGoesOn
  <2> QED BY <1>5, <1>7, <2>1, <2>5 DEF Inside
<1> QED BY <1>2, <1>6, <1>7

(* A genuine head behind which no harm has been done is that of a harmless  *)
(* message.                                                                 *)
LEMMA GenuineClean ==
  ASSUME stream \in Streams, NEW p \in Nat, NEW q \in Nat, p < q,
         Genuine(p), Clean(q)
  PROVE  \E i \in DOMAIN stream.units :
           /\ stream.units[i].message /\ stream.units[i].at = p
           /\ Harmless(stream, stream.units[i])
<1>1. \A i \in DOMAIN stream.units :
        stream.units[i].at <= p => Harmless(stream, stream.units[i])
  <2>1. \A i \in DOMAIN stream.units : stream.units[i].at \in Nat
    BY StreamTyped
  <2> QED BY <2>1 DEF Clean
<1>2. PICK i \in DOMAIN stream.units :
        stream.units[i].message /\ stream.units[i].at = p
  BY <1>1 DEF Genuine
<1> QED BY <1>1, <1>2

(* Behind the header of a message that is too long its text is dropped.     *)
LEMMA LongInside ==
  ASSUME stream \in Streams, NEW p \in DOMAIN stream.heads, Genuine(p),
         Clean(p + PrefixLen), TooLong(stream.heads[p].text_len)
  PROVE  p + PrefixLen = Size(stream) \/ Inside(p + PrefixLen)
<1>1. p \in Nat
  BY StreamTyped
<1>2. PICK i \in DOMAIN stream.units :
        /\ stream.units[i].message /\ stream.units[i].at = p
        /\ Harmless(stream, stream.units[i])
  BY <1>1, GenuineClean DEF PrefixLen
<1> DEFINE u == stream.units[i]
<1>3. u.size \in Nat /\ EndOf(u) = p + (PrefixLen + u.size)
  BY <1>2, StreamTyped
<1>4. ~Proper(stream, u)
  BY <1>2, <1>3 DEF Proper, TooLong, MaxText, BufferLen
<1>5. (EndOf(u) - (p + PrefixLen)) % SyncLen = 0
  BY <1>2, <1>4 DEF Harmless, Skipped, DroppedFrom
<1>6. EndOf(u) = Size(stream) \/ Inside(EndOf(u))
  BY UnitEnds
<1>7. CASE u.size = 0
  BY <1>1, <1>3, <1>6, <1>7 DEF PrefixLen
<1>8. CASE u.size # 0
  <2>1. Dropping(u, u.at + PrefixLen, p + PrefixLen)
    BY <1>1, <1>2, <1>3, <1>8 DEF Dropping, PrefixLen, SyncLen
  <2> QED BY <1>2, <2>1 DEF Inside, TooLong
<1> QED BY <1>7, <1>8

(* The text of a message that is read ends where the message ends.          *)
LEMMA TextInside ==
  ASSUME stream \in Streams, NEW p \in DOMAIN stream.heads, Genuine(p),
         ~TooLong(stream.heads[p].text_len), stream.heads[p].text_len \in Nat,
         NEW q \in Nat, q = p + PrefixLen + stream.heads[p].text_len, Clean(q)
  PROVE  q = Size(stream) \/ Inside(q)
<1>1. p \in Nat
  BY StreamTyped
<1>2. PICK i \in DOMAIN stream.units :
        /\ stream.units[i].message /\ stream.units[i].at = p
        /\ Harmless(stream, stream.units[i])
  BY <1>1, GenuineClean DEF PrefixLen
<1> DEFINE u == stream.units[i]
<1>3. u.size \in Nat /\ EndOf(u) = p + (PrefixLen + u.size)
  BY <1>2, StreamTyped
<1>4. Proper(stream, u)
  BY <1>2 DEF Harmless, Skipped, TooLong
<1>5. q = EndOf(u)
  BY <1>1, <1>2, <1>3, <1>4 DEF Proper, PrefixLen
<1> QED BY <1>5, UnitEnds

-----------------------------------------------------------------------------
(* With nothing executed in a step, what was executed is still genuine.     *)
LEMMA GenuineStays ==
  ASSUME GenuineOnly, UNCHANGED <<asked, stream, executed>>
  PROVE  GenuineOnly'
  BY DEF GenuineOnly, Genuine

LEMMA LinkInitIInv == LinkInit => LinkIInv
<1> SUFFICES ASSUME LinkInit PROVE LinkIInv
  OBVIOUS
<1>1. CommandsIInv
  BY CommandsInitIInv DEF LinkInit
<1>2. /\ stream \in Streams /\ pos = 0 /\ pc = "sync" /\ recv_len = 0
      /\ place = NoHead /\ overrun = FALSE /\ executed = << >> /\ asked = << >>
  BY DEF LinkInit, CommandsInit
<1>3. LinkTypeOK
  <2>1. << >> \in Seq(DOMAIN stream.heads)
    OBVIOUS
  <2>2. TypeOK
    BY <1>1 DEF CommandsIInv
  <2> QED BY <1>2, <2>1, <2>2 DEF LinkTypeOK
<1>4. ReadSoFar /\ ExecutedBefore /\ GenuineOnly /\ BufferFits
  BY <1>2, StreamTyped DEF ReadSoFar, ExecutedBefore, GenuineOnly, BufferFits
<1>5. Aligned
  BY <1>2, StreamBegins DEF Aligned
<1> QED BY <1>1, <1>3, <1>4, <1>5 DEF LinkIInv, LinkInv

(* More bytes of the same part.  Only a text can be too long for "buffer".  *)
LEMMA RecvIInv ==
  ASSUME LinkIInv, Recv
  PROVE  LinkIInv'
<1>1. PICK n \in {1, Wanted - recv_len} :
        /\ pos + n <= Size(stream)
        /\ pos' = pos + n /\ recv_len' = recv_len + n
        /\ overrun' = (overrun \/ recv_len + n > BufferLen)
  BY DEF Recv
<1>2. /\ n \in Nat /\ pos \in Nat /\ recv_len \in Nat /\ Wanted \in Int
      /\ recv_len + n <= Wanted
  BY WantedTyped DEF Recv, LinkIInv, LinkTypeOK
<1>3. /\ stream \in Streams /\ UNCHANGED <<stream, pc, place, executed, asked>>
      /\ pc \in {"sync", "header", "text"}
      /\ pc # "sync" => place \in DOMAIN stream.heads /\ place \in Nat
  BY StreamTyped DEF Recv, LinkIInv, LinkTypeOK, commandVars
<1>4. CommandsIInv' /\ GenuineOnly'
  BY GenuineStays, CommandsStay DEF Recv, LinkIInv, commandVars
<1>5. LinkTypeOK'
  BY <1>1, <1>2, <1>3, <1>4 DEF LinkIInv, LinkTypeOK, CommandsIInv
<1>6. ReadSoFar'
  <2>1. pos' <= Size(stream') /\ stream' = stream
    BY <1>1, <1>3
  <2>2. CASE pc = "sync"
    BY <1>1, <1>2, <1>3, <2>1, <2>2 DEF LinkIInv, LinkInv, ReadSoFar
  <2>3. CASE pc = "header"
    <3>1. pos = place + SyncLen + recv_len /\ place \in Nat
      BY <1>3, <2>3 DEF LinkIInv, LinkInv, ReadSoFar
    <3>2. pos' = place + SyncLen + recv_len'
      BY <1>1, <1>2, <3>1 DEF SyncLen
    <3> QED BY <1>3, <2>1, <2>3, <3>2 DEF ReadSoFar
  <2>4. CASE pc = "text"
    <3>1. /\ pos = place + PrefixLen + recv_len /\ place \in Nat
          /\ ~TooLong(stream.heads[place].text_len)
      BY <1>3, <2>4 DEF LinkIInv, LinkInv, ReadSoFar
    <3>2. pos' = place + PrefixLen + recv_len'
      BY <1>1, <1>2, <3>1 DEF PrefixLen
    <3> QED BY <1>3, <2>1, <2>4, <3>1, <3>2 DEF ReadSoFar, TooLong
  <2> QED BY <1>3, <2>2, <2>3, <2>4
<1>7. pos' - recv_len' = pos - recv_len
  BY <1>1, <1>2
<1>8. ExecutedBefore'
  BY <1>3, <1>7 DEF LinkIInv, LinkInv, ExecutedBefore, ReadFrom
<1>9. Aligned'
  BY <1>3, <1>7 DEF LinkIInv, LinkInv, Aligned, Clean, Inside, Genuine, Size
<1>10. BufferFits'
  <2>1. SUFFICES ASSUME InSync(stream), recv_len + n > BufferLen PROVE FALSE
    BY <1>1, <1>3 DEF LinkIInv, BufferFits, InSync
  <2>2. pc = "text"
    BY <1>2, <1>3, <2>1 DEF Wanted, SyncLen, PrefixLen, BufferLen
  <2>3. /\ Wanted = stream.heads[place].text_len
        /\ ~TooLong(stream.heads[place].text_len) /\ Genuine(place)
    BY <2>2 DEF Wanted, LinkIInv, LinkInv, ReadSoFar, Aligned
  <2>4. PICK i \in DOMAIN stream.units :
          stream.units[i].message /\ stream.units[i].at = place
    BY <2>1, <2>3 DEF Genuine, InSync
  <2>5. Proper(stream, stream.units[i])
    BY <2>1, <2>3, <2>4 DEF InSync, Harmless, Skipped, TooLong
  <2>6. stream.units[i].size \in Nat
    BY <1>3, StreamTyped
  <2> QED BY <1>2, <2>1, <2>3, <2>4, <2>5, <2>6 DEF Proper, BufferLen
<1> QED BY <1>4, <1>5, <1>6, <1>8, <1>9, <1>10 DEF LinkIInv, LinkInv

LEMMA LinkStays ==
  ASSUME LinkInv, BufferFits, UNCHANGED <<asked, linkVars>>
  PROVE  LinkInv' /\ BufferFits'
<1> USE DEF linkVars
<1>1. ReadSoFar'
  BY DEF LinkInv, ReadSoFar, TooLong, Size
<1>2. ExecutedBefore'
  BY DEF LinkInv, ExecutedBefore, ReadFrom
<1>3. Aligned'
  BY DEF LinkInv, Aligned, Clean, Inside, Genuine, Size
<1>4. BufferFits'
  BY DEF BufferFits, InSync
<1> QED BY <1>1, <1>2, <1>3, <1>4 DEF LinkInv

LEMMA ExitIInv ==
  ASSUME LinkIInv, Exit
  PROVE  LinkIInv'
<1>1. running' \in BOOLEAN
  BY DEF Exit
<1>2. CommandsIInv'
  BY <1>1, ExitCommandsIInv DEF Exit, LinkIInv
<1>3. LinkInv' /\ BufferFits' /\ GenuineOnly'
  BY LinkStays, GenuineStays DEF Exit, LinkIInv, linkVars
<1>4. LinkTypeOK'
  BY <1>2 DEF Exit, LinkIInv, LinkTypeOK, linkVars, CommandsIInv
<1> QED BY <1>2, <1>3, <1>4 DEF LinkIInv

(* Four bytes inside a unit are the head of a message, or dropped.          *)
LEMMA SyncIInv ==
  ASSUME LinkIInv, Sync
  PROVE  LinkIInv'
<1>1. CommandsIInv' /\ GenuineOnly'
  BY GenuineStays, CommandsStay DEF Sync, LinkIInv, commandVars
<1>2. /\ stream \in Streams /\ pos \in Nat /\ recv_len = 4 /\ pc = "sync"
      /\ pos <= Size(stream) /\ pos >= 4 /\ Size(stream) \in Nat
      /\ place = NoHead
      /\ UNCHANGED <<stream, pos, overrun, executed, asked>> /\ recv_len' = 0
  BY StreamTyped
     DEF Sync, LinkIInv, LinkInv, LinkTypeOK, ReadSoFar, SyncLen, commandVars
<1> DEFINE p == pos - 4
<1>3. p \in Nat /\ p + 4 = pos /\ p # Size(stream)
  BY <1>2
<1>4. Clean(p) => Inside(p)
  BY <1>2, <1>3 DEF LinkIInv, LinkInv, Aligned
<1>5. BufferFits'
  BY <1>2 DEF LinkIInv, BufferFits, InSync
<1>6. /\ Len(asked) = Len(executed)
      /\ \A k \in DOMAIN executed :
           /\ executed[k] \in DOMAIN stream.heads
           /\ stream.heads[executed[k]].text_len >= 0
           /\ executed[k] + PrefixLen + stream.heads[executed[k]].text_len <= p
  BY <1>2 DEF LinkIInv, LinkInv, LinkTypeOK, ExecutedBefore, ReadFrom
<1>7. CASE HeadAt(p)
  <2>1. pc' = "header" /\ place' = p /\ p \in DOMAIN stream.heads
    BY <1>7 DEF Sync, HeadAt, SyncLen
  <2>2. LinkTypeOK'
    BY <1>1, <1>2, <2>1 DEF LinkIInv, LinkTypeOK, CommandsIInv
  <2>3. ReadSoFar'
    BY <1>2, <1>3, <2>1 DEF ReadSoFar, SyncLen, Size
  <2>4. ExecutedBefore'
    BY <1>2, <1>6, <2>1 DEF ExecutedBefore, ReadFrom
  <2>5. Genuine(p)
    <3>1. CASE Inside(p)
      BY <1>2, <2>1, <3>1, HeadInside
    <3>2. CASE ~Clean(p)
      <4>1. PICK i \in DOMAIN stream.units :
              /\ stream.units[i].at < p
              /\ ~Harmless(stream, stream.units[i])
        BY <3>2 DEF Clean
      <4>2. stream.units[i].at \in Nat
        BY <1>2, StreamTyped
      <4> QED BY <1>3, <4>1, <4>2 DEF Genuine
    <3> QED BY <1>4, <3>1, <3>2
  <2>6. Aligned'
    BY <1>2, <2>1, <2>5 DEF Aligned, Genuine
  <2> QED BY <1>1, <1>5, <2>2, <2>3, <2>4, <2>6 DEF LinkIInv, LinkInv
<1>8. CASE ~HeadAt(p)
  <2>1. pc' = "sync" /\ place' = place /\ p \notin DOMAIN stream.heads
    BY <1>2, <1>8 DEF Sync, HeadAt, SyncLen
  <2>2. LinkTypeOK'
    BY <1>1, <1>2, <2>1 DEF LinkIInv, LinkTypeOK, CommandsIInv
  <2>3. ReadSoFar'
    BY <1>2, <2>1 DEF ReadSoFar, Size
  <2>4. \A k \in DOMAIN executed :
          executed[k] \in Nat /\ stream.heads[executed[k]].text_len \in Int
    BY <1>2, <1>6, StreamTyped
  <2>5. \A k \in DOMAIN executed :
          executed[k] + PrefixLen + stream.heads[executed[k]].text_len <= pos - 0
    <3> SUFFICES ASSUME NEW k \in DOMAIN executed
                 PROVE  executed[k] + PrefixLen
                          + stream.heads[executed[k]].text_len <= pos - 0
      OBVIOUS
    <3>1. executed[k] + PrefixLen + stream.heads[executed[k]].text_len <= p
      BY <1>6
    <3>2. executed[k] \in Nat /\ stream.heads[executed[k]].text_len \in Int
      BY <2>4
    <3> QED BY <1>2, <3>1, <3>2 DEF PrefixLen
  <2>6. ExecutedBefore'
    BY <1>2, <1>6, <2>1, <2>5 DEF ExecutedBefore, ReadFrom
  <2>7. ASSUME Clean(pos) PROVE pos = Size(stream) \/ Inside(pos)
    <3>1. \A i \in DOMAIN stream.units : stream.units[i].at \in Nat
      BY <1>2, StreamTyped
    <3>2. Clean(p)
      BY <1>2, <2>7, <3>1 DEF Clean
    <3>3. Inside(p)
      BY <1>4, <3>2
    <3> HIDE DEF p
    <3>4. Clean(p + 4)
      BY <1>3, <2>7
    <3> QED BY <1>2, <1>3, <2>1, <3>3, <3>4, DropInside
  <2>8. Aligned'
    <3>1. pos' - recv_len' = pos
      BY <1>2
    <3> QED BY <1>2, <2>1, <2>7, <3>1 DEF Aligned, Clean, Inside, Size
  <2> QED BY <1>1, <1>5, <2>2, <2>3, <2>6, <2>8 DEF LinkIInv, LinkInv
<1> QED BY <1>7, <1>8

(* The header has been read: of a text that is dropped or of one that is    *)
(* read.                                                                    *)
LEMMA HeaderIInv ==
  ASSUME LinkIInv, Header
  PROVE  LinkIInv'
<1>1. CommandsIInv' /\ GenuineOnly'
  BY GenuineStays, CommandsStay DEF Header, LinkIInv, commandVars
<1>2. /\ stream \in Streams /\ pc = "header" /\ recv_len = 19 /\ recv_len' = 0
      /\ UNCHANGED <<stream, pos, overrun, executed, asked>>
      /\ pos = place + SyncLen + recv_len /\ pos <= Size(stream)
      /\ place \in DOMAIN stream.heads /\ Genuine(place)
  BY DEF Header, LinkIInv, LinkInv, LinkTypeOK, ReadSoFar, Aligned, SyncLen,
         PrefixLen, commandVars
<1>3. /\ place \in Nat /\ stream.heads[place].text_len \in Int
      /\ Size(stream) \in Nat
  BY <1>2, StreamTyped
<1>4. pos = place + PrefixLen /\ pos \in Nat
  BY <1>2, <1>3 DEF SyncLen, PrefixLen
<1>5. BufferFits'
  BY <1>2 DEF LinkIInv, BufferFits, InSync
<1>6. /\ Len(asked) = Len(executed)
      /\ \A k \in DOMAIN executed :
           /\ executed[k] \in DOMAIN stream.heads
           /\ stream.heads[executed[k]].text_len >= 0
           /\ executed[k] + PrefixLen + stream.heads[executed[k]].text_len
                <= place
  BY <1>2 DEF LinkIInv, LinkInv, LinkTypeOK, ExecutedBefore, ReadFrom
<1>7. CASE TooLong(stream.heads[place].text_len)
  <2>1. pc' = "sync" /\ place' = NoHead /\ pos' - recv_len' = pos
    BY <1>2, <1>4, <1>7 DEF Header
  <2>2. LinkTypeOK'
    BY <1>1, <1>2, <1>4, <2>1 DEF LinkIInv, LinkTypeOK, CommandsIInv
  <2>3. ReadSoFar'
    BY <1>2, <1>4, <2>1 DEF ReadSoFar, Size
  <2>4. ASSUME NEW k \in DOMAIN executed
        PROVE  executed[k] + PrefixLen + stream.heads[executed[k]].text_len
                 <= pos
    <3>1. executed[k] + PrefixLen + stream.heads[executed[k]].text_len <= place
      BY <1>6
    <3>2. executed[k] \in Nat /\ stream.heads[executed[k]].text_len \in Int
      BY <1>2, <1>6, StreamTyped
    <3> QED BY <1>3, <1>4, <3>1, <3>2 DEF PrefixLen
  <2>5. ExecutedBefore'
    BY <1>2, <1>6, <2>1, <2>4 DEF ExecutedBefore, ReadFrom
  <2>6. Clean(pos) => pos = Size(stream) \/ Inside(pos)
    BY <1>2, <1>4, <1>7, LongInside
  <2>7. Aligned'
    BY <1>2, <2>1, <2>6 DEF Aligned, Clean, Inside, Size
  <2> QED BY <1>1, <1>5, <2>2, <2>3, <2>5, <2>7 DEF LinkIInv, LinkInv
<1>8. CASE ~TooLong(stream.heads[place].text_len)
  <2>1. pc' = "text" /\ place' = place
    BY <1>8 DEF Header
  <2>2. LinkTypeOK'
    BY <1>1, <1>2, <1>4, <2>1 DEF LinkIInv, LinkTypeOK, CommandsIInv
  <2>3. ReadSoFar'
    BY <1>2, <1>3, <1>4, <1>8, <2>1 DEF ReadSoFar, Size, PrefixLen, TooLong
  <2>4. ExecutedBefore'
    BY <1>2, <1>6, <2>1 DEF ExecutedBefore, ReadFrom
  <2>5. Aligned'
    BY <1>2, <2>1 DEF Aligned, Genuine
  <2> QED BY <1>1, <1>5, <2>2, <2>3, <2>4, <2>5 DEF LinkIInv, LinkInv
<1> QED BY <1>7, <1>8

(* The command is executed: it is behind all that was executed before.      *)
LEMMA TextIInv ==
  ASSUME LinkIInv, Text
  PROVE  LinkIInv'
<1>1. /\ pc = "text" /\ pc' = "sync" /\ recv_len' = 0 /\ place' = NoHead
      /\ UNCHANGED <<stream, pos, overrun>>
      /\ executed' = Append(executed, place)
      /\ recv_len = stream.heads[place].text_len
      /\ Command(stream.heads[place].op % 256)
  BY DEF Text, Wanted
<1>2. /\ stream \in Streams /\ place \in DOMAIN stream.heads /\ Genuine(place)
      /\ pos = place + PrefixLen + recv_len /\ pos <= Size(stream)
      /\ ~TooLong(stream.heads[place].text_len)
      /\ recv_len \in Nat /\ pos \in Nat
      /\ executed \in Seq(DOMAIN stream.heads) /\ asked \in Seq(Opcodes)
      /\ Len(asked) = Len(executed)
  BY <1>1
     DEF LinkIInv, LinkInv, LinkTypeOK, TypeOK, ReadSoFar, ExecutedBefore, Aligned
<1>3. /\ place \in Nat /\ stream.heads[place].text_len \in Nat
      /\ stream.heads[place].op % 256 \in Opcodes /\ Size(stream) \in Nat
  BY <1>1, <1>2, StreamTyped
<1>4. CommandsIInv'
  BY <1>1, <1>3, CommandIInv DEF LinkIInv
<1>5. asked' = Append(asked, stream.heads[place].op % 256)
  BY <1>1 DEF Command
<1>6. Extends(executed', executed, place) /\ executed' \in Seq(DOMAIN stream.heads)
  BY <1>1, <1>2 DEF Extends
<1>7. Extends(asked', asked, stream.heads[place].op % 256)
  BY <1>5, <1>2, <1>3 DEF Extends
<1>8. LinkTypeOK'
  BY <1>1, <1>2, <1>4, <1>6 DEF LinkIInv, LinkTypeOK, CommandsIInv
<1>9. ReadSoFar'
  BY <1>1, <1>2 DEF ReadSoFar, Size
<1>10. ASSUME NEW k \in DOMAIN executed
       PROVE  /\ executed[k] \in Nat /\ stream.heads[executed[k]].text_len \in Nat
              /\ executed[k] + PrefixLen + stream.heads[executed[k]].text_len
                   <= place
              /\ Genuine(executed[k])
              /\ asked[k] = stream.heads[executed[k]].op % 256
  <2>1. executed[k] \in DOMAIN stream.heads
    BY <1>2
  <2>2. stream.heads[executed[k]].text_len >= 0
    BY DEF LinkIInv, LinkInv, ExecutedBefore
  <2>3. executed[k] + PrefixLen + stream.heads[executed[k]].text_len <= place
    BY <1>1 DEF LinkIInv, LinkInv, ExecutedBefore, ReadFrom
  <2>4. Genuine(executed[k]) /\ asked[k] = stream.heads[executed[k]].op % 256
    BY DEF LinkIInv, GenuineOnly
  <2>5. executed[k] \in Nat /\ stream.heads[executed[k]].text_len \in Int
    BY <1>2, <2>1, StreamTyped
  <2> QED BY <2>2, <2>3, <2>4, <2>5
<1>11. /\ \A k \in DOMAIN executed :
            /\ executed'[k] = executed[k] /\ asked'[k] = asked[k]
            /\ k < Len(executed) + 1
       /\ executed'[Len(executed) + 1] = place
       /\ asked'[Len(executed) + 1] = stream.heads[place].op % 256
       /\ \A k \in DOMAIN executed' :
            k \in DOMAIN executed \/ k = Len(executed) + 1
       /\ Len(executed) \in Nat /\ DOMAIN executed = 1..Len(executed)
       /\ Len(asked') = Len(executed')
  BY <1>2, <1>6, <1>7 DEF Extends
<1>12. ExecutedBefore'
  <2>1. ASSUME NEW k \in DOMAIN executed'
        PROVE  /\ stream.heads[executed'[k]].text_len >= 0
               /\ executed'[k] + PrefixLen
                    + stream.heads[executed'[k]].text_len <= pos - 0
    <3>1. CASE k \in DOMAIN executed
      <4>1. executed'[k] = executed[k]
        BY <3>1, <1>11
      <4>2. /\ executed[k] \in Nat
            /\ stream.heads[executed[k]].text_len \in Nat
            /\ executed[k] + PrefixLen + stream.heads[executed[k]].text_len
                 <= place
        BY <3>1, <1>10
      <4> QED BY <4>1, <4>2, <1>2, <1>3 DEF PrefixLen
    <3>2. CASE k = Len(executed) + 1
      BY <3>2, <1>1, <1>2, <1>3, <1>11 DEF PrefixLen
    <3> QED BY <3>1, <3>2, <1>11
  <2> QED BY <2>1, <1>1, <1>11 DEF ExecutedBefore, ReadFrom
<1>13. GenuineOnly'
  <2>1. \A i, j \in DOMAIN executed :
          i < j => executed[i] + PrefixLen
                     + stream.heads[executed[i]].text_len <= executed[j]
    BY DEF LinkIInv, GenuineOnly
  <2>2. ASSUME NEW i \in DOMAIN executed', NEW j \in DOMAIN executed', i < j
        PROVE  executed'[i] + PrefixLen
                 + stream.heads[executed'[i]].text_len <= executed'[j]
    <3>1. i \in DOMAIN executed
      BY <2>2, <1>11
    <3>2. CASE j \in DOMAIN executed
      BY <2>1, <2>2, <3>1, <3>2, <1>11
    <3>3. CASE j = Len(executed) + 1
      BY <3>1, <3>3, <1>10, <1>11
    <3> QED BY <3>2, <3>3, <1>11
  <2>3. ASSUME NEW i \in DOMAIN executed'
        PROVE  /\ Genuine(executed'[i])
               /\ asked'[i] = stream.heads[executed'[i]].op % 256
    <3>1. CASE i \in DOMAIN executed
      BY <3>1, <1>10, <1>11
    <3>2. CASE i = Len(executed) + 1
      BY <3>2, <1>2, <1>11
    <3> QED BY <3>1, <3>2, <1>11
  <2> QED BY <2>2, <2>3, <1>1 DEF GenuineOnly, Genuine
<1>14. Aligned'
  <2>1. Clean(pos) => pos = Size(stream) \/ Inside(pos)
    BY <1>1, <1>2, <1>3, TextInside
  <2>2. pos' - recv_len' = pos
    BY <1>1, <1>2
  <2> QED BY <1>1, <2>1, <2>2 DEF Aligned, Clean, Inside, Size
<1>15. BufferFits'
  BY <1>1 DEF LinkIInv, BufferFits, InSync
<1> QED BY <1>4, <1>8, <1>9, <1>12, <1>13, <1>14, <1>15 DEF LinkIInv, LinkInv

LEMMA LinkNextIInv == LinkIInv /\ [LinkNext]_vars => LinkIInv'
<1> SUFFICES ASSUME LinkIInv, [LinkNext]_vars PROVE LinkIInv'
  OBVIOUS
<1>1. CASE UNCHANGED vars
  <2>1. CommandsIInv' /\ LinkTypeOK'
    BY <1>1, CommandsStay
       DEF vars, commandVars, linkVars, LinkIInv, LinkTypeOK, CommandsIInv
  <2>2. LinkInv' /\ BufferFits' /\ GenuineOnly'
    BY <1>1, LinkStays, GenuineStays DEF vars, commandVars, linkVars, LinkIInv
  <2> QED BY <2>1, <2>2 DEF LinkIInv
<1> QED
  BY <1>1, RecvIInv, ExitIInv, SyncIInv, HeaderIInv, TextIInv DEF LinkNext

THEOREM LinkInvariance == LinkSpec => []LinkIInv
  BY LinkInitIInv, LinkNextIInv, PTL DEF LinkSpec

(* For every stream, with "MO_O" anywhere in it, and however recv cuts it   *)
(* up: no byte is part of two commands, each command has the low byte of    *)
(* the opcode behind its own head, and as long as the client has sent       *)
(* harmless units only, it is a message that the client sent as one.        *)
THEOREM GenuineOnlyHolds == LinkSpec => []GenuineOnly
  BY LinkInvariance, PTL DEF LinkIInv

(* No client that keeps its texts to a hundred bytes makes the server write *)
(* behind the end of "buffer", whatever its texts say.                      *)
THEOREM BufferFitsHolds == LinkSpec => []BufferFits
  BY LinkInvariance, PTL DEF LinkIInv

(* The handlers of 8 and 10 start and stop the recorder in turn.            *)
THEOREM StartStopAlternateHolds == LinkSpec => []StartStopAlternate
  BY LinkInvariance, PTL DEF LinkIInv, CommandsIInv

(* Nothing but log-in is answered before a command 2, and no log-in after.  *)
THEOREM VerifiedFirstHolds == LinkSpec => []VerifiedFirst
  BY LinkInvariance, PTL DEF LinkIInv, CommandsIInv

-----------------------------------------------------------------------------
SessionIInv == /\ CommandsIInv /\ SessionTypeOK /\ BacklogWaits /\ FlagCounts
               /\ CameraAfterData /\ AudioAfterData

LEMMA StepNames ==
  /\ DOMAIN Steps = 1..7 /\ Len(Steps) = 7
  /\ Steps[1] = "av_command1" /\ Steps[2] = "av_command2"
  /\ Steps[3] = "audio_data" /\ Steps[4] = "head" /\ Steps[5] = "zeros"
  /\ Steps[6] = "timeout" /\ Steps[7] = "post"
  BY DEF Steps

(* All is prepared but for the post, or with it.                            *)
LEMMA PreparedMeans ==
  /\ Prepared <=> flag = 3 /\ accepting \in {"accept", "post"}
  /\ Prepared => Done("av_command2") /\ Done("audio_data") /\ Done("head")
  BY StepNames DEF Prepared, Done

LEMMA PreparedMeansNext ==
  Prepared' <=> flag' = 3 /\ accepting' \in {"accept", "post"}
  BY StepNames DEF Prepared, Done

LEMMA ClientsStay ==
  ASSUME BacklogWaits, FlagCounts,
         UNCHANGED <<backlog, role, current_client_address, flag, accepting>>
  PROVE  BacklogWaits' /\ FlagCounts'
  BY DEF BacklogWaits, FlagCounts, With

LEMMA SendersStay ==
  ASSUME CameraAfterData, AudioAfterData,
         UNCHANGED <<record_state, flag, accepting, senderVars>>
  PROVE  CameraAfterData' /\ AudioAfterData'
  BY PreparedMeans, PreparedMeansNext
     DEF CameraAfterData, AudioAfterData, senderVars

LEMMA SessionInitIInv == ServerInit => SessionIInv
<1> SUFFICES ASSUME ServerInit PROVE SessionIInv
  OBVIOUS
<1> USE DEF ServerInit
<1>1. CommandsIInv
  BY CommandsInitIInv
<1>2. SessionTypeOK
  <2>1. role \in [Conns -> Roles]
    BY DEF Roles
  <2>2. /\ open \in [Conns -> BOOLEAN] /\ gone \in [Conns -> BOOLEAN]
        /\ video \in BOOLEAN /\ early \in BOOLEAN
    BY Zenon
  <2>3. backlog \in Seq(Conns) /\ flag \in 1..3
    OBVIOUS
  <2> QED BY <1>1, <2>1, <2>2, <2>3 DEF SessionTypeOK, CommandsIInv
<1>3. BacklogWaits /\ CameraAfterData /\ AudioAfterData
  BY <1>1 DEF BacklogWaits, CameraAfterData, AudioAfterData, CommandsInit
<1>4. FlagCounts
  BY DEF FlagCounts, With
<1> QED BY <1>1, <1>2, <1>3, <1>4 DEF SessionIInv

LEMMA RestartIInv ==
  ASSUME SessionIInv, Restart
  PROVE  SessionIInv'
<1> USE DEF Restart
<1>1. CommandsIInv'
  BY DEF CommandsIInv, TypeOK, LogInOnly, StartStopAlternate, VerifiedFirst
<1>2. SessionTypeOK'
  <2>1. role' \in [Conns -> Roles]
    BY DEF Roles
  <2>2. /\ open' \in [Conns -> BOOLEAN] /\ gone' \in [Conns -> BOOLEAN]
        /\ video' \in BOOLEAN /\ early' \in BOOLEAN
    BY Zenon
  <2>3. backlog' \in Seq(Conns) /\ flag' \in 1..3
    OBVIOUS
  <2> QED BY <1>1, <2>1, <2>2, <2>3 DEF SessionTypeOK, CommandsIInv
<1>3. BacklogWaits' /\ CameraAfterData' /\ AudioAfterData'
  BY DEF BacklogWaits, CameraAfterData, AudioAfterData
<1>4. FlagCounts'
  BY DEF FlagCounts, With
<1> QED BY <1>1, <1>2, <1>3, <1>4 DEF SessionIInv

(* A connection that is new to the server joins those that wait.            *)
LEMMA ConnectIInv ==
  ASSUME SessionIInv, NEW c \in Conns, Connect(c)
  PROVE  SessionIInv'
<1> USE DEF Connect
<1>1. CommandsIInv' /\ CameraAfterData' /\ AudioAfterData'
  BY CommandsStay, SendersStay DEF SessionIInv, commandVars
<1>2. /\ backlog \in Seq(Conns) /\ role \in [Conns -> Roles]
      /\ role[c] = "none"
  BY DEF SessionIInv, SessionTypeOK
<1>3. SessionTypeOK'
  BY <1>1, <1>2 DEF SessionIInv, SessionTypeOK, CommandsIInv, Roles, senderVars
<1>4. BacklogWaits'
  <2>1. Extends(backlog', backlog, c)
    BY <1>2 DEF Extends
  <2>2. \A i \in DOMAIN backlog : backlog[i] # c /\ backlog[i] \in Conns
    BY <1>2 DEF SessionIInv, BacklogWaits
  <2>3. \A i \in DOMAIN backlog' : role'[backlog'[i]] = "backlog"
    BY <1>2, <2>1, <2>2 DEF SessionIInv, BacklogWaits, Extends
  <2>4. \A i, j \in DOMAIN backlog' : backlog'[i] = backlog'[j] => i = j
    BY <2>1, <2>2 DEF SessionIInv, BacklogWaits, Extends
  <2> QED BY <2>3, <2>4 DEF BacklogWaits
<1>5. \A r \in {"control", "data", "unused"} : With(r)' = With(r)
  BY <1>2 DEF With
<1>6. FlagCounts'
  BY <1>2, <1>5 DEF SessionIInv, FlagCounts
<1> QED BY <1>1, <1>3, <1>4, <1>6 DEF SessionIInv

LEMMA ClientIInv ==
  ASSUME SessionIInv, NEW c \in Conns, Close(c) \/ Vanish(c)
  PROVE  SessionIInv'
<1>1. /\ CommandsIInv' /\ CameraAfterData' /\ AudioAfterData'
      /\ BacklogWaits' /\ FlagCounts'
  BY CommandsStay, SendersStay, ClientsStay
     DEF SessionIInv, Close, Vanish, commandVars
<1>2. SessionTypeOK'
  BY <1>1
     DEF SessionIInv, SessionTypeOK, CommandsIInv, Close, Vanish, senderVars
<1> QED BY <1>1, <1>2 DEF SessionIInv

(* The first that waits is taken up; the others wait on.                    *)
LEMMA TakenUp ==
  ASSUME SessionIInv, NEW c \in Conns, Accepting(c),
         NEW as \in Roles, Accepted(c, as)
  PROVE  /\ CommandsIInv' /\ BacklogWaits' /\ backlog' \in Seq(Conns)
         /\ role' \in [Conns -> Roles] /\ role[c] = "backlog"
         /\ \A d \in Conns : role'[d] = IF d = c THEN as ELSE role[d]
         /\ \A r \in Roles \ {"backlog"} :
              With(r)' = IF r = as THEN With(r) \cup {c} ELSE With(r)
         /\ c \notin With("control") \cup With("data") \cup With("unused")
<1> USE DEF Accepting, Accepted
<1>1. CommandsIInv'
  BY CommandsStay DEF SessionIInv
<1>2. /\ backlog \in Seq(Conns) /\ backlog # << >> /\ c = Head(backlog)
      /\ role \in [Conns -> Roles] /\ backlog' = Tail(backlog)
  BY DEF SessionIInv, SessionTypeOK
<1>3. /\ Len(backlog) \in Nat /\ Len(backlog) > 0 /\ c = backlog[1]
      /\ DOMAIN backlog = 1..Len(backlog)
      /\ backlog' \in Seq(Conns)
      /\ DOMAIN backlog' = 1..(Len(backlog) - 1)
      /\ \A i \in DOMAIN backlog' : backlog'[i] = backlog[i + 1]
  BY <1>2
<1>4. role[c] = "backlog"
  BY <1>3 DEF SessionIInv, BacklogWaits
<1>5. \A d \in Conns : role'[d] = IF d = c THEN as ELSE role[d]
  BY <1>2
<1>6. \A i \in DOMAIN backlog' : /\ i + 1 \in DOMAIN backlog
                                /\ backlog'[i] # c /\ backlog'[i] \in Conns
  BY <1>3 DEF SessionIInv, BacklogWaits
<1>7. BacklogWaits'
  <2>1. ASSUME NEW i \in DOMAIN backlog'
        PROVE  role'[backlog'[i]] = "backlog"
    <3>1. role'[backlog'[i]] = role[backlog'[i]]
      BY <1>5, <1>6
    <3>2. i + 1 \in DOMAIN backlog /\ backlog'[i] = backlog[i + 1]
      BY <1>3, <1>6
    <3> QED BY <3>1, <3>2 DEF SessionIInv, BacklogWaits
  <2>2. ASSUME NEW i \in DOMAIN backlog', NEW j \in DOMAIN backlog',
               backlog'[i] = backlog'[j]
        PROVE  i = j
    <3>1. /\ i + 1 \in DOMAIN backlog /\ j + 1 \in DOMAIN backlog
          /\ backlog[i + 1] = backlog[j + 1]
      BY <1>3, <1>6, <2>2
    <3>2. i + 1 = j + 1
      BY <3>1 DEF SessionIInv, BacklogWaits
    <3> QED BY <3>2, <1>3
  <2> QED BY <2>1, <2>2 DEF BacklogWaits
<1>8. \A r \in Roles \ {"backlog"} :
        With(r)' = IF r = as THEN With(r) \cup {c} ELSE With(r)
  BY <1>4, <1>5 DEF With
<1> QED BY <1>1, <1>2, <1>3, <1>4, <1>5, <1>7, <1>8 DEF With

LEMMA RoleNames ==
  {"none", "backlog", "control", "data", "rejected", "unused"} = Roles
  BY DEF Roles

LEMMA RejectIInv ==
  ASSUME SessionIInv, NEW c \in Conns, Reject(c)
  PROVE  SessionIInv'
<1>1. Accepting(c) /\ Accepted(c, "rejected") /\ "rejected" \in Roles
  BY DEF Reject, Roles
<1>2. /\ CommandsIInv' /\ BacklogWaits' /\ backlog' \in Seq(Conns)
      /\ role' \in [Conns -> Roles]
      /\ \A d \in Conns : role'[d] = IF d = c THEN "rejected" ELSE role[d]
      /\ \A r \in {"control", "data", "unused"} : With(r)' = With(r)
  BY <1>1, TakenUp, RoleNames
<1>3. UNCHANGED <<current_client_address, flag, accepting, commandVars, open,
                  gone, senderVars>>
  BY DEF Reject, Accepted
<1>4. CameraAfterData' /\ AudioAfterData'
  BY <1>3, SendersStay DEF SessionIInv, commandVars
<1>5. SessionTypeOK'
  BY <1>2, <1>3 DEF SessionIInv, SessionTypeOK, CommandsIInv, senderVars
<1>6. FlagCounts'
  BY <1>2, <1>3 DEF SessionIInv, FlagCounts
<1> QED BY <1>2, <1>4, <1>5, <1>6 DEF SessionIInv

(* The first connection makes its client the one that is served.            *)
LEMMA AcceptControlIInv ==
  ASSUME SessionIInv, NEW c \in Conns, AcceptControl(c)
  PROVE  SessionIInv'
<1>1. Accepting(c) /\ Accepted(c, "control") /\ "control" \in Roles /\ flag = 1
  BY DEF AcceptControl, Roles
<1>2. /\ CommandsIInv' /\ BacklogWaits' /\ backlog' \in Seq(Conns)
      /\ role' \in [Conns -> Roles]
      /\ \A d \in Conns : role'[d] = IF d = c THEN "control" ELSE role[d]
      /\ With("control")' = With("control") \cup {c}
      /\ With("data")' = With("data")
  BY <1>1, TakenUp, RoleNames
<1>3. /\ UNCHANGED <<accepting, commandVars, open, gone, senderVars>>
      /\ flag' = 2 /\ current_client_address' = AddressOf[c]
      /\ accepting = "accept"
  BY DEF AcceptControl, Accepted, Accepting
<1>4. start_camera = 0 /\ ~video /\ ~Prepared
  BY <1>1, PreparedMeans DEF SessionIInv, CameraAfterData, SessionTypeOK
<1>5. CameraAfterData' /\ AudioAfterData'
  BY <1>3, <1>4
     DEF SessionIInv, CameraAfterData, AudioAfterData, senderVars, commandVars
<1>6. SessionTypeOK'
  BY <1>2, <1>3 DEF SessionIInv, SessionTypeOK, CommandsIInv, senderVars
<1>7. FlagCounts'
  <2>1. /\ \A d \in Conns : role[d] \notin {"control", "data", "unused"}
        /\ With("control") = {} /\ With("data") = {}
    BY <1>1 DEF SessionIInv, FlagCounts, With
  <2>2. With("control")' = {c} /\ With("data")' = {}
    BY <1>2, <2>1
  <2>3. AddressOf[c] # NoAddress
    BY AddressAssumption
  <2> QED BY <1>2, <1>3, <2>1, <2>2, <2>3 DEF FlagCounts
<1> QED BY <1>2, <1>5, <1>6, <1>7 DEF SessionIInv

(* A connection of the client that is served: its data connection.          *)
LEMMA AcceptDataIInv ==
  ASSUME SessionIInv, NEW c \in Conns, AcceptData(c)
  PROVE  SessionIInv'
<1>1. Accepting(c) /\ Accepted(c, "data") /\ "data" \in Roles /\ flag = 2
  BY DEF AcceptData, Roles
<1>2. /\ CommandsIInv' /\ BacklogWaits' /\ backlog' \in Seq(Conns)
      /\ role' \in [Conns -> Roles]
      /\ \A d \in Conns : role'[d] = IF d = c THEN "data" ELSE role[d]
      /\ With("data")' = With("data") \cup {c}
      /\ With("control")' = With("control")
  BY <1>1, TakenUp, RoleNames
<1>3. /\ UNCHANGED <<current_client_address, commandVars, open, gone, senderVars>>
      /\ flag' = 3 /\ accepting' = "av_command1"
      /\ Ours(c)
  BY StepNames DEF AcceptData, Accepted
<1>4. start_camera = 0 /\ ~video /\ ~Prepared
  BY <1>1, PreparedMeans DEF SessionIInv, CameraAfterData, SessionTypeOK
<1>5. CameraAfterData' /\ AudioAfterData'
  BY <1>3, <1>4
     DEF SessionIInv, CameraAfterData, AudioAfterData, senderVars, commandVars
<1>6. SessionTypeOK'
  <2>1. \E i \in DOMAIN Steps : accepting' = Steps[i]
    BY <1>3, StepNames
  <2> QED
    BY <1>2, <1>3, <2>1 DEF SessionIInv, SessionTypeOK, CommandsIInv, senderVars
<1>7. FlagCounts'
  <2>1. /\ current_client_address # NoAddress /\ With("data") = {}
        /\ \E d \in Conns : With("control") = {d}
        /\ \A d \in Conns : role[d] \in {"control", "data", "unused"} =>
                            AddressOf[d] = current_client_address
    BY <1>1 DEF SessionIInv, FlagCounts
  <2>2. AddressOf[c] = current_client_address
    BY <1>3, <2>1 DEF Ours
  <2>3. With("data")' = {c}
    BY <1>2, <2>1
  <2> QED BY <1>2, <1>3, <2>1, <2>2, <2>3 DEF FlagCounts
<1> QED BY <1>2, <1>5, <1>6, <1>7 DEF SessionIInv

LEMMA AcceptMoreIInv ==
  ASSUME SessionIInv, NEW c \in Conns, AcceptMore(c)
  PROVE  SessionIInv'
<1>1. Accepting(c) /\ Accepted(c, "unused") /\ "unused" \in Roles /\ flag = 3
  BY DEF AcceptMore, Roles
<1>2. /\ CommandsIInv' /\ BacklogWaits' /\ backlog' \in Seq(Conns)
      /\ role' \in [Conns -> Roles]
      /\ \A d \in Conns : role'[d] = IF d = c THEN "unused" ELSE role[d]
      /\ With("control")' = With("control") /\ With("data")' = With("data")
  BY <1>1, TakenUp, RoleNames
<1>3. /\ UNCHANGED <<current_client_address, flag, accepting, commandVars, open,
                     gone, senderVars>>
      /\ Ours(c)
  BY DEF AcceptMore, Accepted
<1>4. CameraAfterData' /\ AudioAfterData'
  BY <1>3, SendersStay DEF SessionIInv, commandVars
<1>5. SessionTypeOK'
  BY <1>2, <1>3 DEF SessionIInv, SessionTypeOK, CommandsIInv, senderVars
<1>6. FlagCounts'
  <2>1. /\ current_client_address # NoAddress
        /\ \E d \in Conns : With("control") = {d}
        /\ \E d \in Conns : With("data") = {d}
        /\ \A d \in Conns : role[d] \in {"control", "data", "unused"} =>
                            AddressOf[d] = current_client_address
    BY <1>1 DEF SessionIInv, FlagCounts
  <2>2. AddressOf[c] = current_client_address
    BY <1>3, <2>1 DEF Ours
  <2> QED BY <1>1, <1>2, <1>3, <2>1, <2>2 DEF FlagCounts
<1> QED BY <1>2, <1>4, <1>5, <1>6 DEF SessionIInv

-----------------------------------------------------------------------------
(* The end of the process.                                                  *)
LEMMA DiesIInv ==
  ASSUME SessionIInv, Dies, UNCHANGED netVars
  PROVE  SessionIInv'
<1>1. CommandsIInv'
  BY ExitCommandsIInv DEF Dies, SessionIInv
<1>2. BacklogWaits' /\ FlagCounts' /\ CameraAfterData' /\ AudioAfterData'
  BY ClientsStay, SendersStay DEF SessionIInv, Dies, netVars, senderVars
<1>3. SessionTypeOK'
  BY <1>1 DEF SessionIInv, SessionTypeOK, CommandsIInv, netVars
<1> QED BY <1>1, <1>2, <1>3 DEF SessionIInv

(* network() goes through its steps, the last of which starts the camera.   *)
LEMMA PrepareIInv ==
  ASSUME SessionIInv, Prepare
  PROVE  SessionIInv'
<1>1. PICK i \in 1..7 :
        /\ accepting = Steps[i]
        /\ accepting' = IF i = 7 THEN "accept" ELSE Steps[i + 1]
  BY StepNames DEF Prepare
<1>2. /\ UNCHANGED <<commandVars, clientVars, video, fault, early>>
      /\ start_camera' = start_camera + (IF accepting = "post" THEN 1 ELSE 0)
      /\ audio' = IF accepting = "zeros" /\ audio = "filled" THEN "wiped"
                  ELSE audio
  BY DEF Prepare
<1>3. accepting # "accept" /\ (i = 7 <=> accepting = "post")
  BY <1>1, StepNames
<1>4. CommandsIInv' /\ flag = 3
  BY <1>2, <1>3, CommandsStay DEF SessionIInv, FlagCounts
<1>5. start_camera = 0 /\ ~video
  BY <1>3 DEF SessionIInv, CameraAfterData, SessionTypeOK
<1>6. CameraAfterData'
  BY <1>1, <1>2, <1>3, <1>4, <1>5 DEF CameraAfterData, clientVars
<1>7. AudioAfterData'
  <2>1. CASE accepting = "post"
    BY <2>1, <1>1, <1>2, <1>3, <1>4, PreparedMeans, PreparedMeansNext
       DEF SessionIInv, AudioAfterData, clientVars, commandVars
  <2>2. CASE accepting # "post"
    <3>1. ~Prepared
      BY <2>2, <1>3, PreparedMeans
    <3> QED
      BY <3>1, <1>2, <1>3, PreparedMeansNext
         DEF SessionIInv, AudioAfterData, clientVars, commandVars
  <2> QED BY <2>1, <2>2
<1>8. SessionTypeOK'
  <2>1. accepting' = "accept" \/ \E j \in DOMAIN Steps : accepting' = Steps[j]
    <3>1. i # 7 => i + 1 \in DOMAIN Steps
      BY StepNames
    <3> QED BY <1>1, <3>1
  <2>2. start_camera' \in {0, 1}
    BY <1>2, <1>5
  <2> QED
    BY <2>1, <2>2, <1>2, <1>4
       DEF SessionIInv, SessionTypeOK, CommandsIInv, clientVars
<1>9. BacklogWaits' /\ FlagCounts'
  BY <1>2, <1>4 DEF SessionIInv, BacklogWaits, FlagCounts, clientVars, With
<1> QED BY <1>4, <1>6, <1>7, <1>8, <1>9 DEF SessionIInv

LEMMA CameraStartsIInv ==
  ASSUME SessionIInv, CameraStarts
  PROVE  SessionIInv'
<1> USE DEF CameraStarts
<1>1. CommandsIInv' /\ BacklogWaits' /\ FlagCounts'
  BY CommandsStay, ClientsStay DEF SessionIInv, clientVars
<1>2. start_camera = 1 /\ start_camera' = 0
  BY DEF SessionIInv, CameraAfterData, SessionTypeOK
<1>3. CameraAfterData'
  BY <1>2 DEF SessionIInv, CameraAfterData, clientVars
<1>4. AudioAfterData'
  BY PreparedMeans, PreparedMeansNext
     DEF SessionIInv, AudioAfterData, clientVars, commandVars
<1>5. SessionTypeOK'
  BY <1>1, <1>2 DEF SessionIInv, SessionTypeOK, CommandsIInv, clientVars
<1> QED BY <1>1, <1>3, <1>4, <1>5 DEF SessionIInv

(* A command; if it starts the recorder too early, that is remembered.      *)
LEMMA ControlIInv ==
  ASSUME SessionIInv, NEW c \in Conns, Control(c)
  PROVE  SessionIInv'
<1> USE DEF Control
<1>1. CommandsIInv' /\ BacklogWaits' /\ FlagCounts'
  BY CommandIInv, ClientsStay DEF SessionIInv, clientVars
<1>2. CameraAfterData'
  BY DEF SessionIInv, CameraAfterData, clientVars
<1>3. AudioAfterData'
  <2>1. early' = (early \/ (record_state' = 1 /\ ~Prepared))
    OBVIOUS
  <2>2. Prepared' <=> Prepared
    BY PreparedMeans, PreparedMeansNext DEF clientVars
  <2>3. audio' = audio /\ fault' = fault
    OBVIOUS
  <2> QED BY <2>1, <2>2, <2>3 DEF SessionIInv, AudioAfterData
<1>4. SessionTypeOK'
  <2>1. early' \in BOOLEAN
    BY Zenon
  <2> QED
    BY <2>1, <1>1 DEF SessionIInv, SessionTypeOK, CommandsIInv, clientVars
<1> QED BY <1>1, <1>2, <1>3, <1>4 DEF SessionIInv

(* The audio sender: the header it fills is there, unless audio was started *)
(* too early.                                                               *)
LEMMA AudioStep ==
  ASSUME SessionIInv, running' \in BOOLEAN,
         UNCHANGED <<verify_ok, record_state, Send_num, asked, answers, calls,
                     clientVars, accepting, start_camera, video, early>>,
         audio' \in {"idle", "buffer", "text_len", "filled", audio},
         audio' # "idle" => early \/ Prepared,
         fault' \in {"none", "crash", "mangled"}, fault' # "none" => early
  PROVE  SessionIInv'
<1>1. CommandsIInv' /\ BacklogWaits' /\ FlagCounts'
  BY ExitCommandsIInv, ClientsStay DEF SessionIInv, clientVars
<1>2. CameraAfterData'
  BY DEF SessionIInv, CameraAfterData, clientVars
<1>3. Prepared' <=> Prepared
  BY PreparedMeans, PreparedMeansNext DEF clientVars
<1>4. AudioAfterData'
  BY <1>3 DEF SessionIInv, AudioAfterData
<1>5. SessionTypeOK'
  BY <1>1 DEF SessionIInv, SessionTypeOK, CommandsIInv, clientVars
<1> QED BY <1>1, <1>2, <1>4, <1>5 DEF SessionIInv

LEMMA AudioIInv ==
  ASSUME SessionIInv, GetBuffer \/ Audio
  PROVE  SessionIInv'
<1> USE DEF commandVars
<1>1. /\ running \in BOOLEAN /\ AudioAfterData
      /\ audio \in {"idle", "buffer", "text_len", "filled", "wiped"}
      /\ fault \in {"none", "crash", "mangled"}
      /\ fault # "none" => early
  BY DEF SessionIInv, SessionTypeOK, CommandsIInv, TypeOK, AudioAfterData
<1>2. CASE GetBuffer
  BY <1>1, <1>2, AudioStep DEF GetBuffer, AudioAfterData
<1>3. ASSUME NEW at \in {"buffer", "text_len"}, NEW to \in {"text_len", "filled"},
             NEW pointer, FillHeader(at, to, pointer)
      PROVE  SessionIInv'
  BY <1>1, <1>3, AudioStep DEF FillHeader, AudioAfterData
<1>4. ASSUME NEW at \in {"buffer", "text_len"},
             NEW pointer \in {"av_command2", "audio_data"}, Crash(at, pointer)
      PROVE  SessionIInv'
  <2>1. early
    BY <1>1, <1>4, PreparedMeans DEF Crash, AudioAfterData
  <2> QED BY <2>1, <1>1, <1>4, AudioStep DEF Crash, Dies
<1>5. CASE SendHeader
  <2>1. ~(audio = "filled" /\ Done("head")) => early
    BY <1>1, <1>5, PreparedMeans DEF SendHeader, AudioAfterData
  <2> QED BY <2>1, <1>1, <1>5, AudioStep DEF SendHeader
<1> QED BY <1>2, <1>3, <1>4, <1>5 DEF Audio

LEMMA SessionNextIInv == SessionIInv /\ [SessionNext]_sessionVars => SessionIInv'
<1> SUFFICES ASSUME SessionIInv, [SessionNext]_sessionVars PROVE SessionIInv'
  OBVIOUS
<1>1. CASE UNCHANGED sessionVars
  <2>1. /\ CommandsIInv' /\ BacklogWaits' /\ FlagCounts'
        /\ CameraAfterData' /\ AudioAfterData'
    BY <1>1, CommandsStay, ClientsStay, SendersStay
       DEF SessionIInv, sessionVars, netVars, commandVars, senderVars
  <2> QED
    BY <1>1, <2>1
       DEF SessionIInv, sessionVars, netVars, SessionTypeOK, CommandsIInv
<1>2. CASE Client
  BY <1>2, ConnectIInv, ClientIInv DEF Client
<1>3. CASE Network
  BY <1>3, RejectIInv, AcceptControlIInv, AcceptDataIInv, AcceptMoreIInv,
     PrepareIInv DEF Network
<1>4. CASE Ends
  BY <1>4, DiesIInv DEF Ends, SendFails, ControlClosed
<1> QED
  BY <1>1, <1>2, <1>3, <1>4, CameraStartsIInv, RestartIInv, AudioIInv,
     ControlIInv DEF SessionNext

THEOREM SessionInvariance == SessionSpec => []SessionIInv
  BY SessionInitIInv, SessionNextIInv, PTL DEF SessionSpec

(* In every state the variables have their types; the camera's semaphore    *)
(* never exceeds 1.                                                         *)
THEOREM SessionTypeCorrect == SessionSpec => []SessionTypeOK
  BY SessionInvariance, PTL DEF SessionIInv

LEMMA OneClientFollows == SessionIInv => OneClient
<1> SUFFICES ASSUME SessionIInv PROVE OneClient
  OBVIOUS
<1>1. FlagCounts
  BY DEF SessionIInv
<1>2. \A c, d \in With("control") \cup With("data") \cup With("unused") :
        AddressOf[c] = AddressOf[d]
  BY <1>1 DEF FlagCounts, With
<1>3. ASSUME NEW S, S = {} \/ \E c : S = {c}
      PROVE  Cardinality(S) <= 1
  <2>1. Cardinality({}) = 0
    BY FS_EmptySet
  <2>2. CASE S = {}
    BY <2>1, <2>2
  <2>3. ASSUME NEW c, S = {c} PROVE Cardinality(S) <= 1
    <3>1. Cardinality({c}) = 1
      BY Zenon, FS_Singleton
    <3>2. Cardinality(S) = 1
      BY Zenon, <3>1, <2>3
    <3> QED BY <3>2
  <2> QED BY <1>3, <2>2, <2>3
<1>4. With("control") = {} \/ \E c : With("control") = {c}
  BY <1>1 DEF FlagCounts, With
<1>5. With("data") = {} \/ \E c : With("data") = {c}
  BY <1>1 DEF FlagCounts
<1>6. With("data") # {} => With("control") # {}
  BY <1>1 DEF FlagCounts
<1> QED BY <1>2, <1>3, <1>4, <1>5, <1>6 DEF OneClient

(* For every number of connections and addresses: one client is served at a *)
(* time, with one control and at most one data connection.                  *)
THEOREM OneClientHolds == SessionSpec => []OneClient
  BY SessionInvariance, OneClientFollows, PTL

(* The camera starts once, when the data connection is all prepared; audio  *)
(* meets an unprepared header only if it was asked for too early.           *)
THEOREM SendersPreparedHolds == SessionSpec => []SendersPrepared
<1>1. SessionIInv => SendersPrepared
  <2> SUFFICES ASSUME SessionIInv PROVE SendersPrepared
    OBVIOUS
  <2>1. start_camera \in {0, 1} /\ (fault # "none" => early)
    BY DEF SessionIInv, SessionTypeOK, AudioAfterData
  <2>2. start_camera > 0 \/ video => /\ flag = 3 /\ accepting = "accept"
                                     /\ (start_camera > 0 => ~video)
    BY <2>1 DEF SessionIInv, CameraAfterData
  <2>3. flag = 3 => With("data") # {}
    BY DEF SessionIInv, FlagCounts
  <2> QED BY <2>1, <2>2, <2>3, PreparedMeans DEF SendersPrepared
<1> QED BY <1>1, SessionInvariance, PTL
=============================================================================
