------------------------------ MODULE Commands ------------------------------
(***************************************************************************)
(* What the server does for each command of the client: prase_packet       *)
(* (network/prase_pkt.c) and the handlers it calls in network/network.c.   *)
(* Commands come one after the other, on the control connection; a handler *)
(* runs to its end before the next command is read.  A send that fails     *)
(* ends the process.  (The frame interval of command 7 is in Camera.)      *)
(***************************************************************************)
EXTENDS Integers, Sequences

CONSTANT Opcodes   \* the opcodes that clients send

ASSUME OpcodesAssumption == Opcodes \subseteq Nat

VARIABLES
  running,       \* the process has not called exit
  verify_ok,     \* the global: command 2 has been executed
  record_state,  \* the global: the recorder has been started
  Send_num,      \* the camera's challenge: "plain", or encrypted in place
  asked,         \* history: the commands, oldest first
  answers,       \* history: what the client was sent
  calls          \* history: start_capture and stop_capture

commandVars == <<running, verify_ok, record_state, Send_num, asked, answers,
                 calls>>

CommandsInit ==
  /\ running = TRUE
  /\ verify_ok = 0
  /\ record_state = 0
  /\ Send_num = "plain"
  /\ asked = << >> /\ answers = << >> /\ calls = << >>

Answer(op, challenge) == [op |-> op, challenge |-> challenge]

(* send works, or fails and the process exits.                              *)
Reply(a) == \/ answers' = Append(answers, a) /\ UNCHANGED running
            \/ UNCHANGED answers /\ running' = FALSE

(* Command 0: the answer 1 carries the client's challenge, encrypted, and   *)
(* the camera's own.                                                        *)
deal_login_req ==
  /\ Reply(Answer(1, Send_num))
  /\ UNCHANGED <<verify_ok, record_state, Send_num, calls>>

(* Command 2: the camera encrypts its challenge, in place, for comparison;  *)
(* the result of the comparison is overwritten: it is always 0, success.    *)
deal_verify_req ==
  /\ Send_num' = "encrypted"
  /\ verify_ok' = 1
  /\ Reply(Answer(3, "none"))
  /\ UNCHANGED <<record_state, calls>>

send_video_start_resp ==
  /\ Reply(Answer(5, "none"))
  /\ UNCHANGED <<verify_ok, record_state, Send_num, calls>>

keep_connect ==
  /\ Reply(Answer(254, "none"))
  /\ UNCHANGED <<verify_ok, record_state, Send_num, calls>>

(* Wrong: a working recorder is not stopped first.                          *)
WrongAudioStart ==
  /\ record_state' = 1
  /\ calls' = Append(calls, "start_capture")
  /\ Reply(Answer(9, "none"))
  /\ UNCHANGED <<verify_ok, Send_num>>

(* Command 8: the recorder is stopped if it works, then started; only then  *)
(* does enable_audio_send answer.                                           *)
AudioStart ==
  /\ record_state' = 1
  /\ calls' = calls \o (IF record_state = 1
                        THEN <<"stop_capture", "start_capture">>
                        ELSE <<"start_capture">>)
  /\ Reply(Answer(9, "none"))
  /\ UNCHANGED <<verify_ok, Send_num>>

(* Command 10.                                                              *)
AudioEnd ==
  /\ record_state' = 0
  /\ calls' = IF record_state = 1 THEN Append(calls, "stop_capture") ELSE calls
  /\ UNCHANGED <<running, verify_ok, Send_num, answers>>

(* Commands 7 and those that do nothing.                                    *)
Ignored ==
  UNCHANGED <<running, verify_ok, record_state, Send_num, answers, calls>>

(* Wrong: logging in is possible at any time.                               *)
Wrongprase_packet(op) ==
  \/ op = 0 /\ deal_login_req
  \/ op = 2 /\ deal_verify_req
  \/ verify_ok = 0 /\ op \notin {0, 2} /\ Ignored
  \/ verify_ok = 1 /\ op = 4   /\ send_video_start_resp
  \/ verify_ok = 1 /\ op = 255 /\ keep_connect
  \/ verify_ok = 1 /\ op = 8   /\ AudioStart
  \/ verify_ok = 1 /\ op = 10  /\ AudioEnd
  \/ verify_ok = 1 /\ op \notin {0, 2, 4, 255, 8, 10} /\ Ignored

(* Before verification only 0 and 2 are executed, after it only the others. *)
prase_packet(op) ==
  \/ verify_ok = 0 /\ op = 0   /\ deal_login_req
  \/ verify_ok = 0 /\ op = 2   /\ deal_verify_req
  \/ verify_ok = 0 /\ op \notin {0, 2} /\ Ignored
  \/ verify_ok = 1 /\ op = 4   /\ send_video_start_resp
  \/ verify_ok = 1 /\ op = 255 /\ keep_connect
  \/ verify_ok = 1 /\ op = 8   /\ AudioStart
  \/ verify_ok = 1 /\ op = 10  /\ AudioEnd
  \/ verify_ok = 1 /\ op \notin {4, 255, 8, 10} /\ Ignored

Command(op) ==
  /\ running
  /\ asked' = Append(asked, op)
  /\ prase_packet(op)

-----------------------------------------------------------------------------
AnswerType == [op: {1, 3, 5, 9, 254}, challenge: {"plain", "encrypted", "none"}]

TypeOK ==
  /\ running \in BOOLEAN
  /\ verify_ok \in {0, 1}
  /\ record_state \in {0, 1}
  /\ Send_num \in {"plain", "encrypted"}
  /\ asked \in Seq(Opcodes)
  /\ answers \in Seq(AnswerType)
  /\ calls \in Seq({"start_capture", "stop_capture"})

(* Before a command 2 nothing but answers 1 has gone out.                   *)
LogInOnly ==
  verify_ok = 0 => /\ Send_num = "plain"
                   /\ \A i \in DOMAIN answers : answers[i].op = 1

(* The recorder is started and stopped in turn, whatever the client asks    *)
(* for, and record_state says which was last: what EnableBufferQueue and    *)
(* DisableBufferQueue rely on.                                              *)
StartStopAlternate ==
  /\ \A i \in DOMAIN calls :
        calls[i] = IF i % 2 = 1 THEN "start_capture" ELSE "stop_capture"
  /\ record_state = Len(calls) % 2

(* The recorder and the video are out of reach until a command 2: no answer *)
(* but 1 comes before the answer 3, no 1 after it, and there is one 3.  So  *)
(* encrypting the camera's challenge in place never shows: each time the    *)
(* client logs in the challenge goes out in the clear.                      *)
VerifiedFirst ==
  \A i, j \in DOMAIN answers :
    /\ answers[i].op = 3 /\ i < j => answers[j].op \notin {1, 3}
    /\ answers[i].op # 1 /\ answers[j].op = 3 => j <= i
    /\ answers[i].op = 1 => answers[i].challenge = "plain"
=============================================================================
