---------------------------- MODULE MCDiscoveryScan ----------------------------
(* Instances of DiscoveryScan for TLC.                                       *)
EXTENDS DiscoveryScan

CONSTANTS m1, m2

(* The cache says nothing, or knows one MAC, or another, of the first address*)
CacheTables == {[a \in Addresses |-> IF a = 1 THEN mac ELSE NoMac] : mac \in Macs \cup {NoMac}}
=============================================================================
