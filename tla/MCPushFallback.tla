--------------------------- MODULE MCPushFallback ---------------------------
(* TLC instances of PushFallback.                                           *)
EXTENDS PushFallback
=============================================================================
