--------------------------- MODULE MCTerminalOutput ---------------------------
(* Small instances of TerminalOutput for TLC.                                *)
EXTENDS TerminalOutput
=============================================================================
