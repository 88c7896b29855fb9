---------------------------- MODULE MCWakeDevice ----------------------------
(* Two packets per burst and two retry bursts: six packets.                     *)
EXTENDS WakeDevice
=============================================================================
