--------------------------- MODULE MCDeviceActivity ---------------------------
(* Small instances of DeviceActivity for TLC.                                *)
EXTENDS DeviceActivity

CONSTANTS m1, m2, nas, pi, ip1, n1, tcp, w1, i1

CaseFoldDef == [h \in Hosts |-> h]
TimesDef == 1..MaxNow

(* The stored device, moved to another host, not wakeable, and a second one. *)
Plain == [name |-> n1, mac |-> m1, host |-> nas, ip |-> None, check |-> tcp,
          wake |-> w1, enabled |-> TRUE]
Moved == [Plain EXCEPT !.host = pi]
Off == [Plain EXCEPT !.enabled = FALSE]
MoveForms == {Moved}
OtherOff == [Moved EXCEPT !.mac = m2, !.ip = ip1, !.enabled = FALSE]
ScanSees == {[mac |-> m2, host |-> pi, ip |-> ip1, seen |-> 1]}
AddForms == {Off, OtherOff}

Stored(form) == Edited(NewDevice, form)
Wakeable == [i \in Ids |-> IF i = i1 THEN Stored(Plain) ELSE None]
NotWakeable == [i \in Ids |-> IF i = i1 THEN Stored(Off) ELSE None]
=============================================================================
