------------------------------- MODULE Adpcm --------------------------------
(***************************************************************************)
(* adpcm_coder (audio/adpcm.c), and what audio_send (audio/record.c) does  *)
(* with it: a session starts from the state {0, 0}; a buffer of samples is *)
(* coded to a packet, half a byte for a sample, and behind the packet      *)
(* comes the state that the coder had before it, so that the client can    *)
(* decode it by itself.  The client's decoder is the one of the standard.  *)
(***************************************************************************)
EXTENDS Integers, Sequences

CONSTANTS
  Samples,       \* what the microphone delivers
  Len2,          \* the number of samples in a buffer: its bytes, halved
  MaxPackets     \* how many packets are followed

(* A sample has 16 bits, of which one is the sign.                          *)
Short == {n \in Int : n >= -32768 /\ n <= 32767}

ASSUME SamplesAssumption == Samples \subseteq Short
ASSUME Len2Assumption    == Len2 \in Nat \ {0}

VARIABLES
  state,         \* the coder's: valprev, index
  header,        \* the state that goes with the packet
  bufferstep,    \* the next half byte is the high one
  outputbuffer,  \* the high one
  outdata,       \* the bytes of the packet
  left,          \* how many samples of the buffer are still to be coded
  packets,       \* how many packets there have been
  codes,         \* history: the codes of the packet
  decoder        \* the state of a client that has just these codes

packetVars == <<header, bufferstep, outputbuffer, outdata, left, packets>>
vars       == <<state, packetVars, codes, decoder>>

indexTable == <<-1, -1, -1, -1, 2, 4, 6, 8, -1, -1, -1, -1, 2, 4, 6, 8>>

stepsizeTable == <<
  7, 8, 9, 10, 11, 12, 13, 14, 16, 17,
  19, 21, 23, 25, 28, 31, 34, 37, 41, 45,
  50, 55, 60, 66, 73, 80, 88, 97, 107, 118,
  130, 143, 157, 173, 190, 209, 230, 253, 279, 307,
  337, 371, 408, 449, 494, 544, 598, 658, 724, 796,
  876, 963, 1060, 1166, 1282, 1411, 1552, 1707, 1878, 2066,
  2272, 2499, 2749, 3024, 3327, 3660, 4026, 4428, 4871, 5358,
  5894, 6484, 7132, 7845, 8630, 9493, 10442, 11487, 12635, 13899,
  15289, 16818, 18500, 20350, 22385, 24623, 27086, 29794, 32767 >>

StepSize(index) == stepsizeTable[index + 1]

Clamp(n, low, high) == IF n < low THEN low ELSE IF n > high THEN high ELSE n

ClampShort(n) == Clamp(n, -32768, 32767)

Start == [valprev |-> 0, index |-> 0]

-----------------------------------------------------------------------------
(* Step 2: bit by bit, diff is compared with what is left of the step.      *)
Bits(diff, step) ==
  LET b4 == IF diff >= step THEN 1 ELSE 0
      d2 == IF b4 = 1 THEN diff - step ELSE diff
      b2 == IF d2 >= step \div 2 THEN 1 ELSE 0
      d1 == IF b2 = 1 THEN d2 - step \div 2 ELSE d2
      b1 == IF d1 >= step \div 4 THEN 1 ELSE 0
  IN  <<b4, b2, b1>>

Magnitude(b) == 4 * b[1] + 2 * b[2] + b[3]

(* Wrong: the step is not halved before it is added.                        *)
WrongVpdiff(b, step) == step \div 8 + (IF b[1] = 1 THEN step ELSE 0)
                                    + (IF b[2] = 1 THEN step ELSE 0)
                                    + (IF b[3] = 1 THEN step \div 4 ELSE 0)

vpdiff(b, step) == step \div 8 + (IF b[1] = 1 THEN step ELSE 0)
                               + (IF b[2] = 1 THEN step \div 2 ELSE 0)
                               + (IF b[3] = 1 THEN step \div 4 ELSE 0)

(* Steps 3 and 4.                                                           *)
Predicted(valpred, sign, v) ==
  ClampShort(IF sign = 8 THEN valpred - v ELSE valpred + v)

(* Steps 1, 2 and 5: sign and magnitude.                                    *)
Sign(val, s) == IF val - s.valprev < 0 THEN 8 ELSE 0
Diff(val, s) == IF val - s.valprev < 0 THEN s.valprev - val ELSE val - s.valprev
Code(val, s) == Sign(val, s) + Magnitude(Bits(Diff(val, s), StepSize(s.index)))

(* The coder's state after a sample.                                        *)
Coded(val, s) ==
  LET v == vpdiff(Bits(Diff(val, s), StepSize(s.index)), StepSize(s.index))
  IN  [valprev |-> Predicted(s.valprev, Sign(val, s), v),
       index   |-> Clamp(s.index + indexTable[Code(val, s) + 1], 0, 88)]

(* The decoder of the standard: what a code means, when the state is s.     *)
Decoded(code, s) ==
  LET m == code % 8
      v == StepSize(s.index) \div 8
           + (IF m \div 4 = 1 THEN StepSize(s.index) ELSE 0)
           + (IF (m \div 2) % 2 = 1 THEN StepSize(s.index) \div 2 ELSE 0)
           + (IF m % 2 = 1 THEN StepSize(s.index) \div 4 ELSE 0)
  IN  [valprev |-> ClampShort(IF code >= 8 THEN s.valprev - v ELSE s.valprev + v),
       index   |-> Clamp(s.index + indexTable[code + 1], 0, 88)]

-----------------------------------------------------------------------------
Init ==
  /\ state = Start /\ header = Start
  /\ bufferstep = TRUE /\ outputbuffer = 0 /\ outdata = << >>
  /\ left = 0 /\ packets = 0
  /\ codes = << >> /\ decoder = Start

(* SOCKET_INIT: a session starts, at a packet's end.                        *)
SocketInit ==
  /\ left = 0
  /\ state' = Start
  /\ UNCHANGED <<packetVars, codes, decoder>>

(* Wrong: the client is told the state that every session starts from.      *)
WrongStartPacket ==
  /\ left = 0 /\ packets < MaxPackets
  /\ header' = Start
  /\ bufferstep' = TRUE /\ outdata' = << >>
  /\ left' = Len2 /\ packets' = packets + 1
  /\ codes' = << >> /\ decoder' = header'
  /\ UNCHANGED <<state, outputbuffer>>

(* audio_send has a buffer: the state is saved, then adpcm_coder called.    *)
(* The client starts to decode from it.                                     *)
StartPacket ==
  /\ left = 0 /\ packets < MaxPackets
  /\ header' = state
  /\ bufferstep' = TRUE /\ outdata' = << >>
  /\ left' = Len2 /\ packets' = packets + 1
  /\ codes' = << >> /\ decoder' = header'
  /\ UNCHANGED <<state, outputbuffer>>

(* Wrong: the first sample is put into the low half of the byte.            *)
WrongOutput(code) ==
  /\ bufferstep' = ~bufferstep
  /\ IF bufferstep
     THEN outputbuffer' = code /\ UNCHANGED outdata
     ELSE outdata' = Append(outdata, code * 16 + outputbuffer)
          /\ UNCHANGED outputbuffer

(* Step 6; and, after the loop, the last half byte if it is still there.    *)
Output(code) ==
  /\ bufferstep' = ~bufferstep
  /\ IF bufferstep
     THEN /\ outputbuffer' = code * 16
          /\ outdata' = IF left = 1 THEN Append(outdata, code * 16) ELSE outdata
     ELSE /\ outdata' = Append(outdata, code + outputbuffer)
          /\ UNCHANGED outputbuffer

(* One turn of adpcm_coder's loop.                                          *)
Sample(val) ==
  /\ left > 0
  /\ Output(Code(val, state))
  /\ state' = Coded(val, state)
  /\ left' = left - 1
  /\ codes' = Append(codes, Code(val, state))
  /\ decoder' = Decoded(Code(val, state), decoder)
  /\ UNCHANGED <<header, packets>>

Next == SocketInit \/ StartPacket \/ \E val \in Samples : Sample(val)

Spec == Init /\ [][Next]_vars

-----------------------------------------------------------------------------
State == [valprev: Short, index: 0..88]

TypeOK ==
  /\ state \in State /\ header \in State /\ decoder \in State
  /\ bufferstep \in BOOLEAN /\ outputbuffer \in 0..255
  /\ outdata \in Seq(0..255)
  /\ left \in 0..Len2
  /\ packets \in Nat
  /\ codes \in Seq(0..15)

(* A client that decodes a packet by itself, from the state that comes with *)
(* it, is where the coder is when it starts and after every sample, the     *)
(* last one too: whatever was sent before, and whenever the coder was reset,*)
(* the two never drift apart, not at the ends of the range or of the tables.*)
Tracks == [][left' # left => decoder' = state']_vars

(* The bytes of a packet are its codes in order, the first one on top.      *)
Packed ==
  left = 0 =>
    /\ Len(outdata) = (Len(codes) + 1) \div 2
    /\ \A k \in DOMAIN codes :
         codes[k] = IF k % 2 = 1 THEN outdata[(k + 1) \div 2] \div 16
                                 ELSE outdata[k \div 2] % 16

(* What is decoded follows the sound: unless the step is too small for the  *)
(* difference, the error is at most an eighth of the step, and two.         *)
Follows ==
  [][\A val \in Samples :
       LET step == StepSize(state.index)
           e    == val - state'.valprev
       IN  Sample(val) /\ Diff(val, state) < 2 * step
             => e <= step \div 8 + 2 /\ -e <= step \div 8 + 2]_vars
=============================================================================
