--------------------------- MODULE MCTerminalWindow ---------------------------
(* Small instances of TerminalWindow for TLC.                                *)
EXTENDS TerminalWindow
=============================================================================
