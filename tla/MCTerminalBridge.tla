--------------------------- MODULE MCTerminalBridge ---------------------------
(* Small instances of TerminalBridge for TLC.                                *)
EXTENDS TerminalBridge
=============================================================================
