--------------------------- MODULE BlowfishProofs ---------------------------
(***************************************************************************)
(* Proofs about Blowfish, for every even number of rounds, every size of a *)
(* word, every key, and every F: that BlowfishDecipher undoes              *)
(* BlowfishEncipher.                                                       *)
(***************************************************************************)
EXTENDS Blowfish, TLAPS

(* The algebra of ^ that the cipher rests on.                               *)
LEMMA XorWord ==
  ASSUME NEW a \in Words, NEW b
  PROVE  Xor(a, b) \in Words
BY DEF Words, Xor

LEMMA XorTwice ==
  ASSUME NEW a \in Words, NEW b
  PROVE  Xor(Xor(a, b), b) = a
BY DEF Words, Xor

LEMMA XorThrice ==
  ASSUME NEW a \in Words, NEW b, NEW c
  PROVE  Xor(Xor(Xor(a, b), c), b) = Xor(a, c)
BY DEF Words, Xor

-----------------------------------------------------------------------------
(* What a round makes of the halves, when the n-th word is mixed in.        *)
RoundOf(box, p, n) ==
  <<Xor(p[2], F(box, Xor(p[1], box[n]))), Xor(p[1], box[n])>>

Halves == xl \in Words /\ xr \in Words

(* The history: it starts from the block, and goes on round by round.       *)
Traced ==
  /\ trace \in Seq(Words \X Words)
  /\ trace # << >> => trace[1] = block
  /\ \A k \in 1..Len(trace) - 1 : trace[k + 1] = RoundOf(keybox, trace[k], k - 1)

(* Enciphering is at the history's end.                                     *)
Enciphering ==
  /\ i \in 0..Rounds /\ Len(trace) = i
  /\ <<xl, xr>> = IF i = 0 THEN block ELSE RoundOf(keybox, trace[i], i - 1)

(* Deciphering walks back through the history: before its turn i it has the *)
(* halves that enciphering had before round i - 1, the other way round and  *)
(* each with one word still mixed in.                                       *)
Mirrored ==
  /\ i \in 1..Rounds + 1 /\ Len(trace) = Rounds + 1
  /\ xl = Xor(trace[i][2], keybox[i])
  /\ xr = Xor(trace[i][1], keybox[i - 1])

IInv ==
  /\ Halves
  /\ block \in Words \X Words
  /\ i \in Nat
  /\ pc \in {"encipher", "decipher"} => Traced
  /\ pc = "encipher" => Enciphering
  /\ pc = "decipher" => Mirrored
  /\ Deciphered

LEMMA ZeroWord == Zero \in Words
BY DEF Zero, Words

LEMMA InitIInv == Init => IInv
<1> SUFFICES ASSUME Init PROVE IInv
  OBVIOUS
<1> QED
  BY ZeroWord DEF Init, IInv, Halves, Deciphered

(* A round, and the end, keep the halves words.                             *)
LEMMA RoundHalves == Halves /\ Round => Halves'
BY XorWord DEF Halves, Round

LEMMA EndHalves == Halves /\ End => Halves'
BY XorWord DEF Halves, End

-----------------------------------------------------------------------------
(* The halves before a round are put behind the history.                    *)
LEMMA TraceGrows ==
  ASSUME Traced, Enciphering, block \in Words \X Words,
         xl \in Words, xr \in Words, Rounds \in Nat,
         trace' = Append(trace, <<xl, xr>>),
         keybox' = keybox, block' = block
  PROVE  /\ Traced'
         /\ Len(trace') = i + 1
         /\ trace'[i + 1] = <<xl, xr>>
<1>1. trace \in Seq(Words \X Words) /\ Len(trace) = i /\ i \in 0..Rounds
  BY DEF Traced, Enciphering
<1>2. /\ trace' \in Seq(Words \X Words)
      /\ Len(trace') = i + 1
      /\ trace'[i + 1] = <<xl, xr>>
      /\ \A k \in 1..i : trace'[k] = trace[k]
  BY <1>1
<1>3. trace'[1] = block
  <2>1. CASE i = 0
    BY <1>2, <2>1 DEF Enciphering
  <2>2. CASE i # 0
    <3>1. trace # << >> /\ 1 \in 1..i
      BY <1>1, <2>2
    <3> QED
      BY <1>2, <3>1 DEF Traced
  <2> QED
    BY <2>1, <2>2
<1>4. ASSUME NEW k \in 1..i
      PROVE  trace'[k + 1] = RoundOf(keybox, trace'[k], k - 1)
  <2>1. CASE k = i
    <3>1. <<xl, xr>> = RoundOf(keybox, trace[i], i - 1)
      BY <1>1, <2>1 DEF Enciphering
    <3> QED
      BY <1>2, <2>1, <3>1
  <2>2. CASE k # i
    <3>1. k \in 1..Len(trace) - 1 /\ k + 1 \in 1..i
      BY <1>1, <2>2
    <3>2. trace[k + 1] = RoundOf(keybox, trace[k], k - 1)
      BY <3>1 DEF Traced
    <3> QED
      BY <1>2, <3>1, <3>2
  <2> QED
    BY <2>1, <2>2
<1>5. Len(trace') - 1 = i
  BY <1>1, <1>2
<1>6. \A k \in 1..Len(trace') - 1 :
        trace'[k + 1] = RoundOf(keybox', trace'[k], k - 1)
  BY <1>4, <1>5
<1> QED
  BY <1>2, <1>3, <1>6 DEF Traced

(* A turn of the enciphering loop writes the history.                       *)
LEMMA EncipherRoundIInv == IInv /\ EncipherRound => IInv'
<1> SUFFICES ASSUME IInv, EncipherRound PROVE IInv'
  OBVIOUS
<1>1. /\ xl \in Words /\ xr \in Words /\ block \in Words \X Words
      /\ Traced /\ Enciphering /\ i \in 0..Rounds /\ i < Rounds
  BY DEF IInv, EncipherRound, Halves, Enciphering, Round
<1>2. /\ trace' = Append(trace, <<xl, xr>>)
      /\ i' = i + 1 /\ pc' = "encipher"
      /\ keybox' = keybox /\ block' = block
  BY DEF EncipherRound, Round, keyVars
<1>3. Traced' /\ Len(trace') = i + 1 /\ trace'[i + 1] = <<xl, xr>>
  BY <1>1, <1>2, RoundsAssumption, TraceGrows
<1>4. Halves'
  BY RoundHalves DEF EncipherRound, IInv
<1>5. Enciphering'
  <2>1. <<xl', xr'>> = RoundOf(keybox, <<xl, xr>>, i)
    BY DEF EncipherRound, Round, RoundOf
  <2>2. i' - 1 = i /\ i' # 0 /\ i' \in 0..Rounds /\ Len(trace') = i'
    BY <1>1, <1>2, <1>3, RoundsAssumption
  <2>3. <<xl', xr'>> = RoundOf(keybox', trace'[i'], i' - 1)
    BY <1>2, <1>3, <2>1, <2>2
  <2> QED
    BY <2>2, <2>3, Zenon DEF Enciphering
<1>6. i' \in Nat
  BY <1>1, <1>2, RoundsAssumption
<1> QED
  BY <1>1, <1>2, <1>3, <1>4, <1>5, <1>6 DEF IInv, Deciphered

(* The ciphertext is the history's last halves, seen from the other side.   *)
LEMMA EncipherEndIInv == IInv /\ EncipherEnd => IInv'
<1> SUFFICES ASSUME IInv, EncipherEnd PROVE IInv'
  OBVIOUS
<1>1. /\ xl \in Words /\ xr \in Words /\ block \in Words \X Words
      /\ Traced /\ Enciphering /\ i = Rounds
  BY DEF IInv, EncipherEnd, Halves, End
<1>2. /\ trace' = Append(trace, <<xl, xr>>)
      /\ i' = Rounds + 1 /\ pc' = "decipher"
      /\ keybox' = keybox /\ block' = block
  BY DEF EncipherEnd, keyVars
<1>3. Traced' /\ Len(trace') = i + 1 /\ trace'[i + 1] = <<xl, xr>>
  BY <1>1, <1>2, RoundsAssumption, TraceGrows
<1>4. Halves'
  BY EndHalves DEF EncipherEnd, IInv
<1>5. Mirrored'
  <2>1. /\ i' \in 1..Rounds + 1 /\ Len(trace') = Rounds + 1
        /\ i' - 1 = Rounds
    BY <1>1, <1>2, <1>3, RoundsAssumption
  <2>2. trace'[i'][1] = xl /\ trace'[i'][2] = xr
    BY <1>1, <1>2, <1>3
  <2>3. xl' = Xor(xr, keybox[Rounds + 1]) /\ xr' = Xor(xl, keybox[Rounds])
    BY DEF EncipherEnd, End
  <2> QED
    BY <1>2, <2>1, <2>2, <2>3 DEF Mirrored
<1>6. i' \in Nat
  BY <1>2, RoundsAssumption
<1> QED
  BY <1>1, <1>2, <1>3, <1>4, <1>5, <1>6 DEF IInv, Deciphered

-----------------------------------------------------------------------------
(* A turn of the deciphering loop takes a round back.                       *)
LEMMA DecipherRoundIInv == IInv /\ DecipherRound => IInv'
<1> SUFFICES ASSUME IInv, DecipherRound PROVE IInv'
  OBVIOUS
<1>1. /\ xl \in Words /\ xr \in Words /\ block \in Words \X Words
      /\ Traced /\ Mirrored /\ i \in 2..Rounds + 1
  BY RoundsAssumption DEF IInv, DecipherRound, DecipherMore, Halves, Mirrored
<1>2. /\ i' = i - 1 /\ pc' = "decipher"
      /\ keybox' = keybox /\ block' = block /\ trace' = trace
  BY DEF IInv, DecipherRound, keyVars
<1> DEFINE p == trace[i - 1]
           q == trace[i]
           w == Xor(p[1], keybox[i - 2])
           f == F(keybox, w)
<1>3. p \in Words \X Words /\ q = RoundOf(keybox, p, i - 2)
  <2>1. i - 1 \in 1..Len(trace) - 1 /\ trace \in Seq(Words \X Words)
    BY <1>1, RoundsAssumption DEF Traced, Mirrored
  <2>2. p \in Words \X Words
    BY <2>1
  <2>3. trace[(i - 1) + 1] = RoundOf(keybox, p, (i - 1) - 1)
    BY <1>1, <2>1 DEF Traced
  <2>4. (i - 1) + 1 = i /\ (i - 1) - 1 = i - 2
    BY <1>1
  <2> QED
    BY <2>2, <2>3, <2>4
<1>4. p[1] \in Words /\ p[2] \in Words
  BY <1>3
<1>5. q[1] = Xor(p[2], f) /\ q[2] = w
  BY <1>3 DEF RoundOf
<1>6. w \in Words
  BY <1>4, XorWord
<1> HIDE DEF p, q, w, f
<1>7. xl = Xor(q[2], keybox[i]) /\ xr = Xor(q[1], keybox[i - 1])
  BY <1>1 DEF Mirrored, q
<1>8. xr' = w
  <2>1. xr' = Xor(Xor(w, keybox[i]), keybox[i])
    BY <1>5, <1>7 DEF DecipherRound
  <2> QED
    BY <1>6, <2>1, XorTwice
<1>9. xl' = Xor(p[2], keybox[i - 1])
  <2>1. xl' = Xor(Xor(Xor(p[2], f), keybox[i - 1]), f)
    BY <1>5, <1>7, <1>8 DEF DecipherRound, f
  <2> QED
    BY <1>4, <2>1, XorThrice
<1>10. Mirrored'
  <2>1. i' \in 1..Rounds + 1 /\ Len(trace') = Rounds + 1 /\ i' - 1 = i - 2
    BY <1>1, <1>2, RoundsAssumption DEF Mirrored
  <2>2. trace'[i'] = p
    BY <1>2 DEF p
  <2> QED
    BY <1>2, <1>8, <1>9, <2>1, <2>2 DEF Mirrored, w
<1>11. Halves'
  BY <1>4, <1>6, <1>8, <1>9, XorWord DEF Halves
<1>12. Traced'
  BY <1>1, <1>2 DEF Traced
<1>13. i' \in Nat
  BY <1>1, <1>2
<1> QED
  BY <1>1, <1>2, <1>10, <1>11, <1>12, <1>13 DEF IInv, Deciphered

(* At the end of the loop only the first two words are still mixed in.      *)
LEMMA DecipherEndIInv == IInv /\ DecipherEnd => IInv'
<1> SUFFICES ASSUME IInv, DecipherEnd PROVE IInv'
  OBVIOUS
<1>1. block \in Words \X Words /\ Traced /\ Mirrored /\ i = 1
  BY DEF IInv, DecipherEnd, DecipherMore, Mirrored
<1>2. i' = i /\ pc' = "known" /\ block' = block
  BY DEF DecipherEnd
<1>3. trace[1] = block
  <2>1. Len(trace) = Rounds + 1 /\ trace \in Seq(Words \X Words)
    BY <1>1 DEF Mirrored, Traced
  <2>2. trace # << >>
    BY <2>1, RoundsAssumption
  <2> QED
    BY <1>1, <2>2 DEF Traced
<1>4. block[1] \in Words /\ block[2] \in Words /\ block = <<block[1], block[2]>>
  BY <1>1
<1>5. /\ xr' = Xor(Xor(block[2], keybox[1]), keybox[1])
      /\ xl' = Xor(Xor(block[1], keybox[0]), keybox[0])
  BY <1>1, <1>3 DEF DecipherEnd, Mirrored
<1>6. xr' = block[2] /\ xl' = block[1]
  BY <1>4, <1>5, XorTwice
<1> QED
  BY <1>1, <1>2, <1>4, <1>6 DEF IInv, Halves, Deciphered

-----------------------------------------------------------------------------
(* The key box's own rounds keep the halves words; the rest leaves them.    *)
LEMMA KeyIInv ==
  ASSUME IInv, \/ KeyInit \/ Extend \/ MixKey \/ FillRound \/ FillEnd \/ NextNumber
  PROVE  IInv'
<1>1. CASE KeyInit
  BY <1>1 DEF KeyInit, IInv, Halves, Deciphered, workVars
<1>2. CASE Extend
  BY <1>2 DEF Extend, IInv, Halves, Deciphered, workVars
<1>3. CASE MixKey
  BY <1>3, ZeroWord DEF MixKey, IInv, Halves, Deciphered
<1>4. CASE FillRound
  <2>1. Halves'
    BY <1>4, RoundHalves DEF FillRound, IInv
  <2> QED
    BY <1>4, <2>1 DEF FillRound, Round, IInv, Deciphered
<1>5. CASE FillEnd
  <2>1. Halves'
    BY <1>5, EndHalves DEF FillEnd, IInv
  <2>2. pc' \in {"ready", "fill"} /\ i' = 0 /\ block' = block
    BY <1>5 DEF FillEnd
  <2> QED
    BY <2>1, <2>2 DEF IInv, Deciphered
<1>6. CASE NextNumber
  BY <1>6 DEF NextNumber, IInv, Halves, Deciphered, workVars
<1> QED
  BY <1>1, <1>2, <1>3, <1>4, <1>5, <1>6

LEMMA EncipherIInv ==
  ASSUME IInv, NEW b \in Blocks, Encipher(b)
  PROVE  IInv'
<1>1. b \in Words \X Words
  BY BlocksAssumption
<1>2. b[1] \in Words /\ b[2] \in Words /\ b = <<b[1], b[2]>>
  BY <1>1
<1>3. /\ pc' = "encipher" /\ block' = b /\ i' = 0 /\ trace' = << >>
      /\ xl' = b[1] /\ xr' = b[2]
  BY DEF Encipher
<1>4. Traced'
  BY <1>3 DEF Traced
<1>5. Enciphering'
  BY <1>2, <1>3, RoundsAssumption DEF Enciphering
<1> QED
  BY <1>1, <1>2, <1>3, <1>4, <1>5 DEF IInv, Halves, Deciphered

LEMMA NextIInv == IInv /\ [Next]_vars => IInv'
<1> SUFFICES ASSUME IInv, [Next]_vars PROVE IInv'
  OBVIOUS
<1>1. CASE UNCHANGED vars
  BY <1>1 DEF vars, keyVars, workVars, IInv, Halves, Traced, Enciphering,
              Mirrored, Deciphered
<1> QED
  BY <1>1, KeyIInv, EncipherIInv, EncipherRoundIInv, EncipherEndIInv,
     DecipherRoundIInv, DecipherEndIInv DEF Next

(* BlowfishDecipher undoes BlowfishEncipher.                                *)
THEOREM DecipheredCorrect == Spec => []Deciphered
<1>1. IInv => Deciphered
  BY DEF IInv
<1> QED
  BY <1>1, InitIInv, NextIInv, PTL DEF Spec
=============================================================================
