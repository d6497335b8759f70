----------------------------- MODULE MCAVSocket ------------------------------
(* Small instances of AVSocket for TLC.                                     *)
EXTENDS AVSocket

MCPicLens == {0, 5}
MCChunks  == {3, 20}
=============================================================================
