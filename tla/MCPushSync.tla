----------------------------- MODULE MCPushSync -----------------------------
(* Instances of PushSync for TLC.                                          *)
EXTENDS PushSync
=============================================================================
