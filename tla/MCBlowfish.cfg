SPECIFICATION Spec
CONSTANTS
  Rounds = 16
  ByteBits = 2
  pbox <- MCpbox
  sbox <- MCsbox
  strKey <- MCKey
  Blocks <- MCBlocks
INVARIANT Deciphered
