--------------------------- MODULE MCControlLink ----------------------------
(* Small instances of ControlLink for TLC.                                  *)
EXTENDS ControlLink, TLC

Declares(op, n, size) == [message |-> TRUE, op |-> op, text_len |-> n,
                          size |-> size]
Message(op, n)  == Declares(op, n, n)
Stray(n)        == [message |-> FALSE, op |-> 0, text_len |-> 0, size |-> n]

Login  == Message(0, 16)
Verify == Message(2, 16)
Audio  == Message(8, 1)

Place(us) ==
  LET at[i \in 1..Len(us)] ==
        IF i = 1 THEN 0 ELSE at[i - 1] + Length(us[i - 1])
  IN  at

(* One unit follows the other.  "false" says where "MO_O" stands without a  *)
(* message, and what the bytes behind it would mean.                        *)
StreamOf(us, false) ==
  LET at     == Place(us)
      begins == {i \in DOMAIN us : us[i].message}
      true   == [p \in {at[i] : i \in begins} |->
                   LET i == CHOOSE i \in begins : at[i] = p
                   IN  [op |-> us[i].op, text_len |-> us[i].text_len]]
  IN  [units |-> [i \in DOMAIN us |-> [message |-> us[i].message,
                                      size |-> us[i].size, at |-> at[i]]],
       heads |-> true @@ false]

Plain(us) == StreamOf(us, << >>)

(* Sessions of the protocol; messages and stray bytes that are skipped; and *)
(* bytes that put the reads of four out of step, the last for good.         *)
Sessions == {
  <<Login, Verify, Message(4, 1), Message(255, 0), Audio>>,
  <<Verify, Audio, Message(10, 0), Audio, Message(264, 1)>>,
  <<Login, Login, Message(4, 1), Verify, Message(0, 16), Message(8, 0)>>,
  <<Verify, Declares(7, 204, 204), Audio, Stray(8), Message(10, 0)>>,
  <<Verify, Declares(7, 300, 4), Message(255, 0)>>,
  <<Verify, Audio, Declares(7, -1, 4), Message(255, 0)>>,
  <<Verify, Declares(8, 5, 4), Message(10, 0), Message(4, 1)>>,
  <<Verify, Message(7, 100), Message(7, 101), Audio>>,
  <<Stray(3), Verify, Audio, Stray(1), Message(255, 0)>> }

(* Every order of four of the commands that the recorder and the log-in     *)
(* depend on.                                                               *)
Orders == [1..4 -> {Message(0, 1), Message(2, 1), Message(8, 1), Message(10, 0)}]

(* A false head, which reads as a command 10 with so much text, at every    *)
(* place of these where "MO_O" can stand: in the unused bytes of a header,  *)
(* in a text, in one that is too long to be read, behind the end of one,    *)
(* and in stray bytes.                                                      *)
Hiding == {
  <<Message(2, 0), Message(8, 28), Message(255, 0)>>,
  <<Message(2, 0), Declares(8, 201, 28), Message(255, 0)>>,
  <<Message(2, 0), Declares(8, 4, 32), Message(255, 0)>>,
  <<Message(2, 0), Stray(28), Message(8, 0)>> }

Spelled(us, n) ==
  LET at     == Place(us)
      placed == {at[i] : i \in {j \in DOMAIN us : us[j].message}}
      size   == at[Len(us)] + Length(us[Len(us)])
      free   == {p \in 0..(size - SyncLen) :
                   \A q \in placed : p + SyncLen <= q \/ q + SyncLen <= p}
  IN  {StreamOf(us, p :> [op |-> 10, text_len |-> n]) : p \in free}

MCStreams == {Plain(us) : us \in Sessions \cup Orders}
             \cup UNION {Spelled(us, n) : us \in Hiding, n \in {1, 104}}

MCOpcodes == {0, 2, 4, 7, 8, 10, 255}
=============================================================================
