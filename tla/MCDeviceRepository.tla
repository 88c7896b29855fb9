-------------------------- MODULE MCDeviceRepository --------------------------
(* Small instances of DeviceRepository for TLC.                              *)
EXTENDS DeviceRepository, TLC

CONSTANTS m1, m2, nas, NAS, pi, ip1, ip2, n1, n2, tcp, w1, w2, o1, o2

ObserverSymmetry == Permutations({o1, o2})

CaseFoldDef == [h \in Hosts |-> IF h = NAS THEN nas ELSE h]

(* A device as it was, moved to another host, with other wake settings, and  *)
(* with wake disabled.                                                       *)
Plain == [name |-> n1, mac |-> m1, host |-> nas, ip |-> None, check |-> tcp,
          wake |-> w1, enabled |-> TRUE]
MoveForms == {Plain, [Plain EXCEPT !.host = pi], [Plain EXCEPT !.wake = w2],
              [Plain EXCEPT !.enabled = FALSE]}

(* Two processes: the device as it was, another MAC under the same host name *)
(* (but for case), and that host name with an address and no MAC.            *)
InstanceForms ==
    {Plain, [Plain EXCEPT !.mac = m2, !.host = NAS],
     [Plain EXCEPT !.mac = None, !.host = NAS, !.ip = ip1, !.enabled = FALSE]}

(* One scan that saw a device live, and the address or another kept for it.  *)
ScanSees == {[mac |-> m1, host |-> None, ip |-> ip1, seen |-> 1]}
ScanForms == {[Plain EXCEPT !.host = None, !.ip = a, !.enabled = FALSE] : a \in {ip1, ip2}}
=============================================================================
