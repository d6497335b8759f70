----------------------------- MODULE MCBlowfish -----------------------------
(* A small instance of Blowfish for TLC: the sixteen rounds of the code,    *)
(* with bytes of two bits.                                                  *)
EXTENDS Blowfish

(* The word that holds the number n.                                        *)
Word(n) == [d \in Digits |-> (n \div 2 ^ d) % 2]

MCpbox == [n \in 0..PSize - 1 |-> Word((37 * n + 11) % 256)]
MCsbox == [n \in 0..4 * BSize - 1 |-> Word((91 * n + 29) % 256)]

(* As long as the code's key: four copies of it are 72 bytes.               *)
MCKey == [n \in 1..18 |-> [d \in 0..ByteBits - 1 |-> ((1 + ((n \div 2) % 3)) \div 2 ^ d) % 2]]

MCBlocks == {Word(0), Word(255), Word(90)} \X {Word(0), Word(23)}
=============================================================================
