---------------------------- MODULE AdpcmProofs -----------------------------
(***************************************************************************)
(* Proofs about Adpcm, for every set of samples and every size of a        *)
(* buffer: types, and with them the absence of overflow and of an index    *)
(* outside the tables; that a client which decodes a packet by itself      *)
(* tracks the coder; and that what it hears follows the sound.             *)
(***************************************************************************)
EXTENDS Adpcm, TLAPS

-----------------------------------------------------------------------------
(* The tables: what the coder may look up.                                  *)
LEMMA StepSizes ==
  ASSUME NEW index \in 0..88
  PROVE  StepSize(index) \in Nat /\ StepSize(index) >= 7
<1>1. \A i \in 1..89 : stepsizeTable[i] \in Nat
  BY SMTT(60) DEF stepsizeTable
<1>2. \A i \in 1..89 : stepsizeTable[i] >= 7
  BY SMTT(60) DEF stepsizeTable
<1>3. index + 1 \in 1..89
  OBVIOUS
<1> QED
  BY <1>1, <1>2, <1>3, Zenon DEF StepSize

LEMMA IndexSteps ==
  ASSUME NEW code \in 0..15
  PROVE  indexTable[code + 1] \in Int
<1>1. \A i \in 1..16 : indexTable[i] \in Int
  BY SMTT(30) DEF indexTable
<1> QED
  BY <1>1

-----------------------------------------------------------------------------
(* The three bits of the magnitude can be told apart in the code.           *)
LEMMA CodeBits ==
  ASSUME NEW b4 \in {0, 1}, NEW b2 \in {0, 1}, NEW b1 \in {0, 1},
         NEW sign \in {0, 8},
         NEW code, code = sign + (4 * b4 + 2 * b2 + b1)
  PROVE  /\ code \in 0..15
         /\ (code >= 8) <=> (sign = 8)
         /\ (code % 8) \div 4 = b4
         /\ ((code % 8) \div 2) % 2 = b2
         /\ (code % 8) % 2 = b1
<1>1. CASE sign = 0
  BY <1>1
<1>2. CASE sign = 8
  BY <1>2
<1> QED
  BY <1>1, <1>2

LEMMA BitsShape ==
  ASSUME NEW diff \in Int, NEW step \in Int
  PROVE  \E b4, b2, b1 \in {0, 1} : Bits(diff, step) = <<b4, b2, b1>>
BY DEF Bits

LEMMA SignDiff ==
  ASSUME NEW val \in Int, NEW s \in State
  PROVE  /\ s.valprev \in Int
         /\ Sign(val, s) \in {0, 8}
         /\ Diff(val, s) \in Nat
BY DEF State, Short, Sign, Diff

(* A sample's code, and the coder's state after it, have their types: the   *)
(* prediction stays in 16 bits, the next look-up within the table.          *)
LEMMA CodedType ==
  ASSUME NEW val \in Int, NEW s \in State
  PROVE  Code(val, s) \in 0..15 /\ Coded(val, s) \in State
<1> DEFINE step == StepSize(s.index)
           v    == vpdiff(Bits(Diff(val, s), step), step)
           sign == Sign(val, s)
<1>1. s.index \in 0..88 /\ s.valprev \in Int
  BY DEF State, Short
<1>2. step \in Nat
  BY <1>1, StepSizes
<1>3. sign \in {0, 8} /\ Diff(val, s) \in Int
  BY SignDiff
<1>4. PICK b4, b2, b1 \in {0, 1} : Bits(Diff(val, s), step) = <<b4, b2, b1>>
  BY <1>2, <1>3, BitsShape
<1>5. v \in Int
  BY <1>2, <1>4 DEF vpdiff
<1>6. Code(val, s) = sign + (4 * b4 + 2 * b2 + b1)
  BY <1>4 DEF Code, Magnitude
<1>7. Code(val, s) \in 0..15
  BY <1>3, <1>6, CodeBits
<1> HIDE DEF v, sign
<1>8. Predicted(s.valprev, sign, v) \in Short
  BY <1>1, <1>5, SMT DEF Predicted, Clamp, ClampShort, Short
<1>9. Clamp(s.index + indexTable[Code(val, s) + 1], 0, 88) \in 0..88
  <2> DEFINE n == s.index + indexTable[Code(val, s) + 1]
  <2>1. n \in Int
    BY <1>1, <1>7, IndexSteps
  <2> HIDE DEF n
  <2>2. Clamp(n, 0, 88) \in 0..88
    BY <2>1, SMT DEF Clamp
  <2> QED
    BY <2>2, Zenon DEF n
<1> QED
  BY <1>7, <1>8, <1>9 DEF Coded, State, v, sign

(* A decoder in the coder's state makes of a sample's code the coder's next *)
(* state.                                                                   *)
LEMMA DecodedCode ==
  ASSUME NEW val \in Int, NEW s \in State
  PROVE  Decoded(Code(val, s), s) = Coded(val, s)
<1> DEFINE step == StepSize(s.index)
           code == Code(val, s)
<1>1. step \in Nat /\ Sign(val, s) \in {0, 8} /\ Diff(val, s) \in Int
  BY StepSizes, SignDiff DEF State
<1>2. PICK b4, b2, b1 \in {0, 1} : Bits(Diff(val, s), step) = <<b4, b2, b1>>
  BY <1>1, BitsShape
<1>3. code = Sign(val, s) + (4 * b4 + 2 * b2 + b1)
  BY <1>2 DEF Code, Magnitude
<1>4. /\ (code >= 8) <=> (Sign(val, s) = 8)
      /\ (code % 8) \div 4 = b4
      /\ ((code % 8) \div 2) % 2 = b2
      /\ (code % 8) % 2 = b1
  <2> HIDE DEF code
  <2> DEFINE sign == Sign(val, s)
  <2>1. sign \in {0, 8} /\ code = sign + (4 * b4 + 2 * b2 + b1)
    BY <1>1, <1>3
  <2> HIDE DEF sign
  <2>2. /\ (code >= 8) <=> (sign = 8)
        /\ (code % 8) \div 4 = b4
        /\ ((code % 8) \div 2) % 2 = b2
        /\ (code % 8) % 2 = b1
    BY <2>1, CodeBits
  <2> QED
    BY <2>2 DEF sign
<1>5. vpdiff(Bits(Diff(val, s), step), step)
        = step \div 8 + (IF b4 = 1 THEN step ELSE 0)
                      + (IF b2 = 1 THEN step \div 2 ELSE 0)
                      + (IF b1 = 1 THEN step \div 4 ELSE 0)
  BY <1>2, SMT DEF vpdiff
<1> DEFINE v == vpdiff(Bits(Diff(val, s), step), step)
<1>6. Coded(val, s) =
        [valprev |-> Predicted(s.valprev, Sign(val, s), v),
         index   |-> Clamp(s.index + indexTable[code + 1], 0, 88)]
  BY Zenon DEF Coded
<1> DEFINE dv == step \div 8
                 + (IF (code % 8) \div 4 = 1 THEN step ELSE 0)
                 + (IF ((code % 8) \div 2) % 2 = 1 THEN step \div 2 ELSE 0)
                 + (IF (code % 8) % 2 = 1 THEN step \div 4 ELSE 0)
<1>7. Decoded(code, s) =
        [valprev |-> ClampShort(IF code >= 8 THEN s.valprev - dv
                                             ELSE s.valprev + dv),
         index   |-> Clamp(s.index + indexTable[code + 1], 0, 88)]
  BY DEF Decoded
<1> HIDE DEF v, step, code
<1>8. dv = v
  BY <1>4, <1>5, Zenon DEF v
<1> HIDE DEF dv
<1>9. Predicted(s.valprev, Sign(val, s), v) =
        ClampShort(IF code >= 8 THEN s.valprev - v ELSE s.valprev + v)
  <2>1. CASE code >= 8
    BY <1>4, <2>1, Zenon DEF Predicted
  <2>2. CASE ~(code >= 8)
    BY <1>4, <2>2, Zenon DEF Predicted
  <2> QED
    BY <2>1, <2>2, Zenon
<1> QED
  BY <1>6, <1>7, <1>8, <1>9, Zenon DEF code

-----------------------------------------------------------------------------
(* What is decoded, before it is clamped, is near the sample: the three     *)
(* comparisons leave less than a quarter of the step, and vpdiff has an     *)
(* eighth of it in advance.                                                 *)
LEMMA Residue ==
  ASSUME NEW step \in Nat, NEW diff \in Nat, step >= 7, diff < 2 * step
  PROVE  LET e == diff - vpdiff(Bits(diff, step), step)
         IN  e <= step \div 8 + 2 /\ -e <= step \div 8 + 2
<1> DEFINE h  == step \div 2
           q  == step \div 4
           d2 == IF diff >= step THEN diff - step ELSE diff
           d1 == IF d2 >= h THEN d2 - h ELSE d2
           d0 == IF d1 >= q THEN d1 - q ELSE d1
<1>1. h \in Nat /\ q \in Nat
  OBVIOUS
<1>2. d2 \in Nat /\ d2 < step
  OBVIOUS
<1>3. d1 \in Nat /\ d1 <= step - h - 1
  <2>1. h <= step - h
    OBVIOUS
  <2> QED
    BY <1>1, <1>2, <2>1
<1>4. d0 \in Nat /\ d0 <= step \div 4 + 1
  <2>1. step - h - 1 - q <= q + 1 /\ q - 1 <= q + 1
    OBVIOUS
  <2> HIDE DEF h, q, d1
  <2>2. d0 \in Nat /\ d0 <= q + 1
    BY <1>1, <1>3, <2>1
  <2> QED
    BY <2>2 DEF q
<1>5. diff - vpdiff(Bits(diff, step), step) = d0 - step \div 8
  BY DEF vpdiff, Bits
<1>6. step \div 4 + 1 - step \div 8 <= step \div 8 + 2
  OBVIOUS
<1>7. step \div 8 \in Nat
  OBVIOUS
<1> HIDE DEF d0
<1> QED
  BY <1>4, <1>5, <1>6, <1>7

-----------------------------------------------------------------------------
(* The inductive invariant: types, what a byte has in its low half while    *)
(* the high one waits there, and the client's state.                        *)
HighHalf == \E code \in 0..15 : outputbuffer = code * 16

InStep == left > 0 => decoder = state

IInv == TypeOK /\ HighHalf /\ InStep

LEMMA StateRecord == Start \in State
<1>1. 0 \in Short
  BY DEF Short
<1> QED
  BY <1>1 DEF Start, State

LEMMA InitIInv == Init => IInv
<1> SUFFICES ASSUME Init PROVE IInv
  OBVIOUS
<1>1. TypeOK
  BY StateRecord, Len2Assumption DEF Init, TypeOK
<1>2. HighHalf
  BY DEF Init, HighHalf
<1>3. InStep
  BY DEF Init, InStep
<1> QED
  BY <1>1, <1>2, <1>3 DEF IInv

(* The half byte that is put out is a half of a byte.                       *)
LEMMA OutputType ==
  ASSUME IInv, NEW code \in 0..15, Output(code)
  PROVE  /\ bufferstep' \in BOOLEAN
         /\ outputbuffer' \in 0..255
         /\ outdata' \in Seq(0..255)
         /\ HighHalf'
<1>1. outputbuffer \in 0..255 /\ outdata \in Seq(0..255)
  BY DEF IInv, TypeOK
<1>2. PICK c \in 0..15 : outputbuffer = c * 16
  BY DEF IInv, HighHalf
<1>3. code * 16 \in 0..255 /\ code + c * 16 \in 0..255
  OBVIOUS
<1>4. CASE bufferstep
  <2>1. outputbuffer' = code * 16
    BY <1>4 DEF Output
  <2>2. outdata' = IF left = 1 THEN Append(outdata, code * 16) ELSE outdata
    BY <1>4 DEF Output
  <2>3. outdata' \in Seq(0..255)
    <3>1. Append(outdata, code * 16) \in Seq(0..255)
      BY <1>1, <1>3
    <3> QED
      BY <1>1, <2>2, <3>1, Zenon
  <2> QED
    BY <1>3, <2>1, <2>3 DEF HighHalf, Output
<1>5. CASE ~bufferstep
  <2>1. outputbuffer' = outputbuffer
    BY <1>5 DEF Output
  <2>2. outdata' = Append(outdata, code + c * 16)
    BY <1>2, <1>5 DEF Output
  <2> QED
    BY <1>1, <1>2, <1>3, <2>1, <2>2 DEF HighHalf, Output
<1> QED
  BY <1>4, <1>5

LEMMA NextIInv == IInv /\ [Next]_vars => IInv'
<1> SUFFICES ASSUME IInv, [Next]_vars PROVE IInv'
  OBVIOUS
<1> USE DEF IInv
<1>1. CASE SocketInit
  <2>1. TypeOK'
    BY <1>1, StateRecord DEF SocketInit, packetVars, TypeOK
  <2>2. HighHalf'
    BY <1>1 DEF SocketInit, packetVars, HighHalf
  <2>3. InStep'
    BY <1>1 DEF SocketInit, packetVars, InStep
  <2> QED
    BY <2>1, <2>2, <2>3
<1>2. CASE StartPacket
  <2>1. TypeOK'
    BY <1>2, Len2Assumption DEF StartPacket, TypeOK
  <2>2. HighHalf'
    BY <1>2 DEF StartPacket, HighHalf
  <2>3. InStep'
    BY <1>2 DEF StartPacket, InStep
  <2> QED
    BY <2>1, <2>2, <2>3
<1>3. ASSUME NEW val \in Samples, Sample(val) PROVE IInv'
  <2>1. val \in Int /\ state \in State
    BY SamplesAssumption DEF Short, TypeOK
  <2>2. Code(val, state) \in 0..15 /\ Coded(val, state) \in State
    BY <2>1, CodedType
  <2>3. decoder = state
    BY <1>3 DEF Sample, InStep
  <2>4. decoder' = Coded(val, state) /\ state' = Coded(val, state)
    BY <1>3, <2>1, <2>3, DecodedCode, Zenon DEF Sample
  <2>5. /\ bufferstep' \in BOOLEAN /\ outputbuffer' \in 0..255
        /\ outdata' \in Seq(0..255) /\ HighHalf'
    BY <1>3, <2>2, OutputType DEF Sample
  <2>6. left' \in 0..Len2
    BY <1>3, Len2Assumption DEF Sample, TypeOK
  <2>7. codes' \in Seq(0..15)
    BY <1>3, <2>2 DEF Sample, TypeOK
  <2>8. header' \in State /\ packets' \in Nat
    BY <1>3 DEF Sample, TypeOK
  <2>9. TypeOK'
    BY <2>2, <2>4, <2>5, <2>6, <2>7, <2>8, Zenon DEF TypeOK
  <2>10. InStep'
    BY <2>4, Zenon DEF InStep
  <2> QED
    BY <2>5, <2>9, <2>10
<1>4. CASE UNCHANGED vars
  BY <1>4 DEF vars, packetVars, TypeOK, HighHalf, InStep
<1> QED
  BY <1>1, <1>2, <1>3, <1>4 DEF Next

THEOREM IInvCorrect == Spec => []IInv
<1> QED
  BY InitIInv, NextIInv, PTL DEF Spec

(* The coder's state stays in range: no overflow of valpred, no index       *)
(* outside the tables, no half byte that runs into the other one.           *)
THEOREM TypeCorrect == Spec => []TypeOK
<1>1. IInv => TypeOK
  BY DEF IInv
<1> QED
  BY <1>1, IInvCorrect, PTL

(* A client that decodes each packet from the state that comes with it is   *)
(* where the coder is, after the packet's last sample too.                  *)
THEOREM TracksCorrect == Spec => Tracks
<1> DEFINE Same == left' # left => decoder' = state'
<1>1. IInv /\ [Next]_vars => [Same]_vars
  <2> SUFFICES ASSUME IInv, Next, left' # left PROVE decoder' = state'
    BY Zenon
  <2>1. CASE SocketInit
    BY <2>1 DEF SocketInit, packetVars
  <2>2. CASE StartPacket
    BY <2>2 DEF StartPacket
  <2>3. ASSUME NEW val \in Samples, Sample(val) PROVE decoder' = state'
    <3>1. val \in Int /\ state \in State
      BY SamplesAssumption DEF Short, IInv, TypeOK
    <3>2. decoder = state
      BY <2>3 DEF Sample, IInv, InStep
    <3> QED
      BY <2>3, <3>1, <3>2, DecodedCode, Zenon DEF Sample
  <2> QED
    BY <2>1, <2>2, <2>3 DEF Next
<1> QED
  BY <1>1, IInvCorrect, PTL DEF Spec, Tracks

(* Clamping brings what is decoded nearer to the sample, never farther: the *)
(* sample is itself in range.                                               *)
LEMMA CodedNear ==
  ASSUME NEW val \in Short, NEW s \in State,
         Diff(val, s) < 2 * StepSize(s.index)
  PROVE  LET step == StepSize(s.index)
             e    == val - Coded(val, s).valprev
         IN  e <= step \div 8 + 2 /\ -e <= step \div 8 + 2
<1> DEFINE step == StepSize(s.index)
           diff == Diff(val, s)
           v    == vpdiff(Bits(diff, step), step)
           lim  == step \div 8 + 2
           r    == Coded(val, s).valprev
<1>1. step \in Nat /\ step >= 7
  BY StepSizes DEF State
<1>2. val \in Int /\ -32768 <= val /\ val <= 32767
  BY DEF Short
<1>3. s.valprev \in Int /\ diff \in Nat
  BY <1>2, SignDiff
<1>4. v \in Int
  <2>1. PICK b4, b2, b1 \in {0, 1} : Bits(diff, step) = <<b4, b2, b1>>
    BY <1>1, <1>3, BitsShape
  <2> QED
    BY <1>1, <2>1 DEF vpdiff
<1>5. diff - v <= lim /\ -(diff - v) <= lim
  <2> HIDE DEF step, diff
  <2> QED
    BY <1>1, <1>3, Residue DEF step, diff
<1>6. lim \in Nat
  BY <1>1
<1>7. r = Predicted(s.valprev, Sign(val, s), v)
  BY DEF Coded
<1> HIDE DEF v, lim, r
<1>8. CASE val - s.valprev < 0
  <2>1. r = ClampShort(s.valprev - v)
    BY <1>7, <1>8 DEF Predicted, Sign
  <2>2. diff = s.valprev - val
    BY <1>8 DEF Diff
  <2> HIDE DEF diff
  <2>3. val - r <= lim /\ -(val - r) <= lim
    BY <1>2, <1>3, <1>4, <1>5, <1>6, <2>1, <2>2 DEF ClampShort, Clamp
  <2> QED
    BY <2>3 DEF lim, r
<1>9. CASE ~(val - s.valprev < 0)
  <2>1. r = ClampShort(s.valprev + v)
    BY <1>7, <1>9 DEF Predicted, Sign
  <2>2. diff = val - s.valprev
    BY <1>9 DEF Diff
  <2> HIDE DEF diff
  <2>3. val - r <= lim /\ -(val - r) <= lim
    BY <1>2, <1>3, <1>4, <1>5, <1>6, <2>1, <2>2 DEF ClampShort, Clamp
  <2> QED
    BY <2>3 DEF lim, r
<1> QED
  BY <1>8, <1>9

(* Unless the step is too small for the difference, what the client hears   *)
(* is within an eighth of the step, and two, of what the microphone heard.  *)
THEOREM FollowsCorrect == Spec => Follows
<1> DEFINE Near ==
      \A val \in Samples :
        LET step == StepSize(state.index)
            e    == val - state'.valprev
        IN  Sample(val) /\ Diff(val, state) < 2 * step
              => e <= step \div 8 + 2 /\ -e <= step \div 8 + 2
<1>1. IInv => Near
  <2> SUFFICES ASSUME IInv, NEW val \in Samples, Sample(val),
                      Diff(val, state) < 2 * StepSize(state.index)
               PROVE  LET step == StepSize(state.index)
                          e    == val - state'.valprev
                      IN  e <= step \div 8 + 2 /\ -e <= step \div 8 + 2
    BY Zenon
  <2>1. val \in Short /\ state \in State
    BY SamplesAssumption DEF IInv, TypeOK
  <2>2. state' = Coded(val, state)
    BY DEF Sample
  <2> QED
    BY <2>1, <2>2, CodedNear, Zenon
<1>2. IInv /\ [Next]_vars => [Near]_vars
  BY <1>1
<1> QED
  BY <1>2, IInvCorrect, PTL DEF Spec, Follows
-----------------------------------------------------------------------------
(* The packet: two codes to a byte, while the buffer is coded and behind it.*)
Nibble == {n \in Nat : n < 16}

Pairs ==
  \A j \in 1..Len(outdata) :
    /\ 2 * j - 1 <= Len(codes)
    /\ codes[2 * j - 1] = outdata[j] \div 16
    /\ 2 * j <= Len(codes) => codes[2 * j] = outdata[j] % 16

Waiting ==
  IF bufferstep THEN Len(codes) = 2 * Len(outdata)
  ELSE /\ Len(codes) = 2 * Len(outdata) + 1
       /\ outputbuffer = codes[Len(codes)] * 16

PackIInv ==
  /\ codes \in Seq(Nibble) /\ outdata \in Seq(Nat)
  /\ Pairs
  /\ left > 0 => Waiting
  /\ left = 0 => \/ Len(codes) = 2 * Len(outdata)
                 \/ Len(codes) = 2 * Len(outdata) - 1

(* Both halves can be had from a byte.                                      *)
LEMMA HalfBytes ==
  ASSUME NEW h \in Nibble, NEW l \in Nibble, NEW w, w = l + h * 16
  PROVE  w \in Nat /\ w \div 16 = h /\ w % 16 = l
BY DEF Nibble

LEMMA CodeNibble ==
  ASSUME IInv, NEW val \in Samples
  PROVE  Code(val, state) \in Nibble
<1>1. val \in Int /\ state \in State
  BY SamplesAssumption DEF IInv, TypeOK, Short
<1>2. Code(val, state) \in 0..15
  BY <1>1, CodedType
<1> QED
  BY <1>2 DEF Nibble

(* One code more.                                                           *)
LEMMA OutputPacks ==
  ASSUME IInv, PackIInv, left > 0, NEW c \in Nibble, Output(c),
         left' = left - 1, codes' = Append(codes, c)
  PROVE  PackIInv'
<1> DEFINE n == Len(codes)
           m == Len(outdata)
<1>1. /\ codes \in Seq(Nibble) /\ outdata \in Seq(Nat) /\ n \in Nat /\ m \in Nat
      /\ left \in Nat /\ bufferstep \in BOOLEAN /\ Waiting
  BY Len2Assumption DEF IInv, TypeOK, PackIInv
<1>2. /\ codes' \in Seq(Nibble) /\ Len(codes') = n + 1 /\ codes'[n + 1] = c
      /\ \A k \in 1..n : codes'[k] = codes[k]
  BY <1>1
<1>3. c \in Nat /\ c * 16 \in Nat /\ (c * 16) \div 16 = c
  BY DEF Nibble
<1>4. CASE bufferstep /\ left = 1
  <2>1. /\ n = 2 * m
        /\ outdata' = Append(outdata, c * 16) /\ left' = 0
    BY <1>4, <1>1 DEF Waiting, Output
  <2>2. /\ outdata' \in Seq(Nat) /\ Len(outdata') = m + 1
        /\ outdata'[m + 1] = c * 16 /\ \A j \in 1..m : outdata'[j] = outdata[j]
    BY <1>1, <1>3, <2>1
  <2>3. ASSUME NEW j \in 1..Len(outdata')
        PROVE  /\ 2 * j - 1 <= Len(codes')
               /\ codes'[2 * j - 1] = outdata'[j] \div 16
               /\ 2 * j <= Len(codes') => codes'[2 * j] = outdata'[j] % 16
    <3>1. CASE j = m + 1
      <4>1. 2 * j - 1 = n + 1 /\ ~(2 * j <= n + 1)
        BY <3>1, <2>1, <1>1
      <4> QED BY <4>1, <3>1, <1>2, <1>3, <2>2
    <3>2. CASE j \in 1..m
      <4>1. 2 * j - 1 \in 1..n /\ 2 * j \in 1..n
        BY <3>2, <2>1, <1>1
      <4>2. /\ codes[2 * j - 1] = outdata[j] \div 16
            /\ codes[2 * j] = outdata[j] % 16
        BY <3>2, <4>1 DEF PackIInv, Pairs
      <4> QED BY <4>1, <4>2, <3>2, <1>2, <2>2
    <3>3. j \in Nat /\ j >= 1 /\ j <= m + 1
      BY <2>2, <1>1
    <3>4. j = m + 1 \/ j \in 1..m
      BY <3>3, <1>1
    <3> QED BY <3>1, <3>2, <3>4
  <2>4. Pairs'
    BY <2>3 DEF Pairs
  <2>5. Len(codes') = 2 * Len(outdata') - 1
    BY <2>1, <2>2, <1>1, <1>2
  <2> QED BY <2>1, <2>2, <2>4, <2>5, <1>2 DEF PackIInv
<1>5. CASE bufferstep /\ left # 1
  <2>1. /\ n = 2 * m /\ outdata' = outdata /\ outputbuffer' = c * 16
        /\ ~bufferstep' /\ left' > 0
    <3>1. n = 2 * m
      BY <1>5, <1>1 DEF Waiting
    <3>2. outdata' = outdata /\ outputbuffer' = c * 16 /\ ~bufferstep'
      BY <1>5, Zenon DEF Output
    <3>3. left' > 0
      BY <1>5, <1>1
    <3> QED BY <3>1, <3>2, <3>3
  <2>2. ASSUME NEW j \in 1..m
        PROVE  /\ 2 * j - 1 <= Len(codes')
               /\ codes'[2 * j - 1] = outdata[j] \div 16
               /\ 2 * j <= Len(codes') => codes'[2 * j] = outdata[j] % 16
    <3>1. 2 * j - 1 \in 1..n /\ 2 * j \in 1..n
      BY <2>1, <1>1
    <3>2. /\ codes[2 * j - 1] = outdata[j] \div 16
          /\ codes[2 * j] = outdata[j] % 16
      BY <3>1 DEF PackIInv, Pairs
    <3> QED BY <3>1, <3>2, <1>2
  <2>3. Pairs'
    BY <2>1, <2>2 DEF Pairs
  <2>4. Waiting'
    BY <2>1, <1>2 DEF Waiting
  <2> QED BY <2>1, <2>3, <2>4, <1>1, <1>2 DEF PackIInv
<1>6. CASE ~bufferstep
  <2> DEFINE h == codes[n]
             w == c + h * 16
  <2>1. /\ n = 2 * m + 1 /\ outputbuffer = h * 16
    BY <1>6, <1>1 DEF Waiting
  <2>2. h \in Nibble
    BY <2>1, <1>1
  <2>3. w \in Nat /\ w \div 16 = h /\ w % 16 = c
    BY <2>2, HalfBytes
  <2>4. outdata' = Append(outdata, w)
    BY <1>6, <2>1 DEF Output
  <2>5. bufferstep'
    BY <1>6, Zenon DEF Output
  <2> HIDE DEF w
  <2>6. /\ outdata' \in Seq(Nat) /\ Len(outdata') = m + 1
        /\ outdata'[m + 1] = w /\ \A j \in 1..m : outdata'[j] = outdata[j]
    BY <1>1, <2>3, <2>4
  <2>7. ASSUME NEW j \in 1..Len(outdata')
        PROVE  /\ 2 * j - 1 <= Len(codes')
               /\ codes'[2 * j - 1] = outdata'[j] \div 16
               /\ 2 * j <= Len(codes') => codes'[2 * j] = outdata'[j] % 16
    <3>1. CASE j = m + 1
      <4>1. 2 * j - 1 = n /\ 2 * j = n + 1 /\ n \in 1..n /\ 2 * j - 1 <= n + 1
        BY <3>1, <2>1, <1>1
      <4> QED BY <4>1, <3>1, <1>2, <2>3, <2>6
    <3>2. CASE j \in 1..m
      <4>1. 2 * j - 1 \in 1..n /\ 2 * j \in 1..n
        BY <3>2, <2>1, <1>1
      <4>2. /\ codes[2 * j - 1] = outdata[j] \div 16
            /\ codes[2 * j] = outdata[j] % 16
        BY <3>2, <4>1 DEF PackIInv, Pairs
      <4> QED BY <4>1, <4>2, <3>2, <1>2, <2>6
    <3>3. j \in Nat /\ j >= 1 /\ j <= m + 1
      BY <2>6, <1>1
    <3>4. j = m + 1 \/ j \in 1..m
      BY <3>3, <1>1
    <3> QED BY <3>1, <3>2, <3>4
  <2>8. Pairs'
    BY <2>7 DEF Pairs
  <2>9. Len(codes') = 2 * Len(outdata')
    BY <2>1, <2>6, <1>1, <1>2
  <2>10. Waiting'
    BY <2>5, <2>9 DEF Waiting
  <2> QED BY <2>6, <2>8, <2>9, <2>10, <1>2 DEF PackIInv
<1> QED BY <1>4, <1>5, <1>6

LEMMA NextPacks == IInv /\ PackIInv /\ [Next]_vars => PackIInv'
<1> SUFFICES ASSUME IInv, PackIInv, [Next]_vars PROVE PackIInv'
  OBVIOUS
<1>1. CASE SocketInit \/ UNCHANGED vars
  <2>1. UNCHANGED <<codes, outdata, left, bufferstep, outputbuffer>>
    BY <1>1 DEF SocketInit, packetVars, vars
  <2> QED BY <2>1 DEF PackIInv, Pairs, Waiting
<1>2. CASE StartPacket
  <2>1. /\ codes' = << >> /\ outdata' = << >> /\ bufferstep' = TRUE
        /\ left' > 0
    BY <1>2, Len2Assumption DEF StartPacket
  <2>2. bufferstep'
    BY <2>1, Zenon
  <2> QED BY <2>1, <2>2 DEF PackIInv, Pairs, Waiting
<1>3. ASSUME NEW val \in Samples, Sample(val) PROVE PackIInv'
  <2>1. Code(val, state) \in Nibble
    BY CodeNibble
  <2> QED BY <1>3, <2>1, OutputPacks DEF Sample
<1> QED BY <1>1, <1>2, <1>3 DEF Next

LEMMA InitPacks == Init => PackIInv
  BY DEF Init, PackIInv, Pairs, Waiting

LEMMA Halved ==
  ASSUME NEW k \in Nat
  PROVE  /\ k % 2 = 1 => 2 * ((k + 1) \div 2) = k + 1
         /\ k % 2 # 1 => 2 * (k \div 2) = k
         /\ (k + 1) \div 2 \in Nat /\ k \div 2 \in Nat
  OBVIOUS

LEMMA PackedFollows ==
  ASSUME PackIInv, left = 0
  PROVE  Packed
<1> DEFINE n == Len(codes)
           m == Len(outdata)
<1>1. /\ n \in Nat /\ m \in Nat /\ (n = 2 * m \/ n = 2 * m - 1)
      /\ DOMAIN codes = 1..n
  BY DEF PackIInv
<1>2. m = (n + 1) \div 2
  <2> HIDE DEF n, m
  <2> QED BY <1>1
<1>3. ASSUME NEW k \in 1..n
      PROVE  codes[k] = IF k % 2 = 1 THEN outdata[(k + 1) \div 2] \div 16
                                     ELSE outdata[k \div 2] % 16
  <2>1. CASE k % 2 = 1
    <3>1. PICK j : j = (k + 1) \div 2
      OBVIOUS
    <3>2. j \in Nat /\ 2 * j = k + 1
      BY <2>1, <3>1, Halved
    <3>3. j \in 1..m /\ 2 * j - 1 = k
      <4> HIDE DEF n, m
      <4>1. k \in Nat /\ k >= 1 /\ k <= n
        BY <1>1
      <4> QED BY <4>1, <3>2, <1>1
    <3>4. codes[2 * j - 1] = outdata[j] \div 16
      BY <3>3 DEF PackIInv, Pairs
    <3> QED BY <2>1, <3>1, <3>3, <3>4
  <2>2. CASE k % 2 # 1
    <3>1. PICK j : j = k \div 2
      OBVIOUS
    <3>2. j \in Nat /\ 2 * j = k
      BY <2>2, <3>1, Halved
    <3>3. j \in 1..m /\ 2 * j <= n
      <4> HIDE DEF n, m
      <4>1. k \in Nat /\ k >= 1 /\ k <= n
        BY <1>1
      <4> QED BY <4>1, <3>2, <1>1
    <3>4. codes[2 * j] = outdata[j] % 16
      BY <3>3 DEF PackIInv, Pairs
    <3> QED BY <2>2, <3>1, <3>2, <3>4
  <2> QED BY <2>1, <2>2
<1> QED BY <1>1, <1>2, <1>3 DEF Packed

(* A packet's bytes are its codes, for buffers of any size, the odd ones    *)
(* too.                                                                     *)
THEOREM PackedCorrect == Spec => []Packed
<1>1. PackIInv => Packed
  <2>1. ASSUME PackIInv, left # 0 PROVE Packed
    BY <2>1 DEF Packed
  <2> QED BY <2>1, PackedFollows
<1> QED
  BY <1>1, InitPacks, NextPacks, IInvCorrect, PTL DEF Spec
=============================================================================
