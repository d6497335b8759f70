------------------------------ MODULE Blowfish ------------------------------
(***************************************************************************)
(* The cipher of the log-in (network/network.c): BlowfishKeyInit makes the *)
(* key box out of the key, once in a process, then the numbers of the      *)
(* log-in go through BlowfishEncrption, one after the other, and the       *)
(* client, who has the same key, gets them back with BlowfishDecrption.    *)
(*                                                                         *)
(* A word is a function from its bits; in the code it has four bytes of    *)
(* eight bits, here of ByteBits.  One step is one turn of a loop.          *)
(***************************************************************************)
EXTENDS Integers, Sequences, FiniteSetsExt

CONSTANTS
  Rounds,        \* of the cipher: 16
  ByteBits,      \* bits of a byte: 8
  pbox, sbox,    \* the words that the key box starts with, the boxes in a row
  strKey,        \* the key, a sequence of bytes
  Blocks         \* what is enciphered: pairs of words

PSize  == Rounds + 2
BSize  == 2 ^ ByteBits
Fills  == (PSize + 4 * BSize) \div 2        \* 521 in the code
Digits == 0..4 * ByteBits - 1
Words  == [Digits -> {0, 1}]
Bytes  == [0..ByteBits - 1 -> {0, 1}]

ASSUME RoundsAssumption   == Rounds \in Nat \ {0} /\ Rounds % 2 = 0
ASSUME ByteBitsAssumption == ByteBits \in Nat \ {0}
ASSUME BoxesAssumption    == /\ pbox \in [0..PSize - 1 -> Words]
                             /\ sbox \in [0..4 * BSize - 1 -> Words]
ASSUME KeyAssumption      == /\ strKey \in Seq(Bytes)
                             /\ Len(strKey) \in 1..4 * PSize - 1
ASSUME BlocksAssumption   == Blocks \subseteq Words \X Words

VARIABLES
  pc,
  keybox,
  cp,            \* the key, repeated
  nLen,          \* how many of its bytes have been counted
  xl, xr,        \* the two halves
  i,             \* the loop over the rounds
  fill,          \* the loop over the key box
  block,         \* history: what was enciphered
  trace          \* history: xl and xr before each of its rounds

keyVars  == <<keybox, cp, nLen, fill>>
workVars == <<xl, xr, i>>
vars     == <<pc, keyVars, workVars, block, trace>>

Zero == [d \in Digits |-> 0]

(* ^ and + of two words.                                                    *)
Xor(a, b) == [d \in Digits |-> IF b[d] = 1 THEN 1 - a[d] ELSE a[d]]

Plus(a, b) ==
  LET carry[d \in 0..4 * ByteBits] ==
        IF d = 0 THEN 0 ELSE (a[d - 1] + b[d - 1] + carry[d - 1]) \div 2
  IN  [d \in Digits |-> (a[d] + b[d] + carry[d]) % 2]

(* Byte k of a word, as a number.                                           *)
ByteOf(w, k) ==
  SumSet({w[k * ByteBits + d] * 2 ^ d : d \in 0..ByteBits - 1})

Entry(box, k, w) == box[PSize + k * BSize + ByteOf(w, 3 - k)]

F(box, w) ==
  Plus(Xor(Plus(Entry(box, 0, w), Entry(box, 1, w)), Entry(box, 2, w)),
       Entry(box, 3, w))

(* Word k of the extended key.                                              *)
KeyWord(k) == [d \in Digits |-> cp[4 * k + d \div ByteBits + 1][d % ByteBits]]

-----------------------------------------------------------------------------
(* The key box as the two memcpy leave it.                                  *)
Initial == [n \in 0..PSize + 4 * BSize - 1 |->
              IF n < PSize THEN pbox[n] ELSE sbox[n - PSize]]

Init ==
  /\ pc = "idle"
  /\ keybox = Initial
  /\ cp = << >> /\ nLen = 0
  /\ xl = Zero /\ xr = Zero /\ i = 0 /\ fill = 0
  /\ block = <<Zero, Zero>> /\ trace = << >>

KeyInit ==
  /\ pc = "idle"
  /\ pc' = "extend"
  /\ keybox' = Initial
  /\ cp' = << >> /\ nLen' = 0
  /\ UNCHANGED <<fill, workVars, block, trace>>

(* strcat of one more copy.                                                 *)
Extend ==
  /\ pc = "extend" /\ nLen < 4 * PSize
  /\ cp' = cp \o strKey
  /\ nLen' = nLen + Len(strKey)
  /\ UNCHANGED <<pc, keybox, fill, workVars, block, trace>>

(* The key goes into the first words of the key box.                        *)
MixKey ==
  /\ pc = "extend" /\ nLen >= 4 * PSize
  /\ pc' = "fill"
  /\ keybox' = [n \in DOMAIN keybox |->
                  IF n < PSize THEN Xor(keybox[n], KeyWord(n)) ELSE keybox[n]]
  /\ xl' = Zero /\ xr' = Zero /\ i' = 0 /\ fill' = 0
  /\ UNCHANGED <<cp, nLen, block, trace>>

-----------------------------------------------------------------------------
(* BlowfishEncipher: a turn of the loop, and what follows it.               *)
Round ==
  /\ i < Rounds
  /\ xr' = Xor(xl, keybox[i])
  /\ xl' = Xor(xr, F(keybox, xr'))
  /\ i' = i + 1

End ==
  /\ i = Rounds
  /\ xr' = Xor(xl, keybox[Rounds])
  /\ xl' = Xor(xr, keybox[Rounds + 1])

(* The key box is filled with what comes out, two words at a time; the      *)
(* rounds that follow already use them.                                     *)
FillRound ==
  /\ pc = "fill"
  /\ Round
  /\ UNCHANGED <<pc, keyVars, block, trace>>

FillEnd ==
  /\ pc = "fill"
  /\ End
  /\ keybox' = [keybox EXCEPT ![2 * fill] = xl', ![2 * fill + 1] = xr']
  /\ fill' = fill + 1
  /\ i' = 0
  /\ pc' = IF fill' = Fills THEN "ready" ELSE "fill"
  /\ UNCHANGED <<cp, nLen, block, trace>>

(* BlowfishEncrption of a block.                                            *)
Encipher(b) ==
  /\ pc = "ready"
  /\ pc' = "encipher"
  /\ block' = b /\ xl' = b[1] /\ xr' = b[2] /\ i' = 0
  /\ trace' = << >>
  /\ UNCHANGED keyVars

EncipherRound ==
  /\ pc = "encipher"
  /\ Round
  /\ trace' = Append(trace, <<xl, xr>>)
  /\ UNCHANGED <<pc, keyVars, block>>

EncipherEnd ==
  /\ pc = "encipher"
  /\ End
  /\ trace' = Append(trace, <<xl, xr>>)
  /\ i' = Rounds + 1
  /\ pc' = "decipher"
  /\ UNCHANGED <<keyVars, block>>

(* Wrong: the loop stops a turn too early.                                  *)
WrongDecipherMore == i > 2

DecipherMore == i > 1

(* BlowfishDecipher, in the same way.                                       *)
DecipherRound ==
  /\ pc = "decipher" /\ DecipherMore
  /\ xr' = Xor(xl, keybox[i])
  /\ xl' = Xor(xr, F(keybox, xr'))
  /\ i' = i - 1
  /\ UNCHANGED <<pc, keyVars, block, trace>>

DecipherEnd ==
  /\ pc = "decipher" /\ ~DecipherMore
  /\ xr' = Xor(xl, keybox[1])
  /\ xl' = Xor(xr, keybox[0])
  /\ pc' = "known"
  /\ UNCHANGED <<keyVars, i, block, trace>>

(* The next number of the log-in.                                           *)
NextNumber ==
  /\ pc = "known"
  /\ pc' = "ready"
  /\ UNCHANGED <<keyVars, workVars, block, trace>>

Next == \/ KeyInit \/ Extend \/ MixKey \/ FillRound \/ FillEnd
        \/ \E b \in Blocks : Encipher(b)
        \/ EncipherRound \/ EncipherEnd \/ DecipherRound \/ DecipherEnd
        \/ NextNumber

Spec == Init /\ [][Next]_vars

-----------------------------------------------------------------------------
Cells == 0..PSize + 4 * BSize - 1

TypeOK ==
  /\ pc \in {"idle", "extend", "fill", "ready", "encipher", "decipher", "known"}
  /\ DOMAIN keybox = Cells /\ \A n \in Cells : keybox[n] \in Words
  /\ cp \in Seq(Bytes) /\ nLen = Len(cp)
  /\ xl \in Words /\ xr \in Words
  /\ i \in 0..Rounds + 1
  /\ fill \in 0..Fills
  /\ block \in Words \X Words
  /\ trace \in Seq(Words \X Words)

(* With the same key box, deciphering undoes enciphering: the client knows  *)
(* the number that the server sent, whatever the key and the number are.    *)
Deciphered == pc = "known" => <<xl, xr>> = block
=============================================================================
