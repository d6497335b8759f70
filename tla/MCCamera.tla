------------------------------ MODULE MCCamera -------------------------------
(* Small instances of Camera for TLC.                                       *)
EXTENDS Camera

MCRequests == {0, 10, 7}        \* full speed, in the table, not in the table
=============================================================================
