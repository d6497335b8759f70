------------------------------ MODULE MCAdpcm -------------------------------
(* Small instances of Adpcm for TLC.                                        *)
EXTENDS Adpcm

(* A quiet sound, and the ends of the range.  The prediction is out of      *)
(* range at the eleventh sample and the index past its table at the         *)
(* twelfth, the last of three packets of four.                              *)
MCSamples == {-32768, 20, 32767}

=============================================================================
