-------------------------- MODULE MCPermanentFiles --------------------------
(* TLC instances of PermanentFiles: two entries, each in one of two          *)
(* editions.                                                                 *)
EXTENDS PermanentFiles, TLC
=============================================================================
