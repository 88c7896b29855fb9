------------------------------ MODULE MCSshTrust ------------------------------
(* Small instances of SshTrust for TLC.                                      *)
EXTENDS SshTrust, TLC

CONSTANTS a, b, k1, k2

Symmetry == Permutations({a, b}) \cup Permutations({k1, k2})
=============================================================================
