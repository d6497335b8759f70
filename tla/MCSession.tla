----------------------------- MODULE MCSession ------------------------------
(* Small instances of Session for TLC: three connections of a client, one   *)
(* of another.                                                              *)
EXTENDS Session

MCConns     == 1..4
MCAddressOf == [c \in MCConns |-> IF c = 4 THEN 2 ELSE 1]
=============================================================================
