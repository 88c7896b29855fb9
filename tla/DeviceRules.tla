----------------------------- MODULE DeviceRules -----------------------------
(***************************************************************************)
(* The managed-device record of MythLab and the pure rules that the        *)
(* editor, the SQLite repository and the status and wake workflows apply   *)
(* to it.  Addresses and settings are already normalised values; the       *)
(* strings behind them are abstracted to what equality tells apart.        *)
(***************************************************************************)
EXTENDS Naturals

CONSTANTS
    Ids,            (* device GUIDs                                           *)
    Names,          (* display name, group, notes and tags, as one value      *)
    Macs,           (* normalised unicast MAC addresses                       *)
    Hosts,          (* host names, without a trailing dot                     *)
    CaseFold,       (* the case-insensitive identity of each host name        *)
    Ips,            (* dotted IPv4 addresses                                  *)
    Checks,         (* the status check: kind and port                        *)
    WakeSettings,   (* every wake setting but the capability                  *)
    Times,          (* instants an observation can carry; 0 is C#'s null      *)
    None            (* an empty address, and the absent device                *)

Capabilities == {"Disabled", "EnabledUnverified", "Verified"}
Observable == {"Online", "Offline", "Unknown"}

Device == [name: Names, mac: Macs \cup {None}, host: Hosts \cup {None},
           ip: Ips \cup {None}, check: Checks, wake: WakeSettings,
           cap: Capabilities, state: Observable,
           checked: Times \cup {0}, seen: Times \cup {0}]

ASSUME DeviceAssumption ==
    /\ Times \subseteq Nat \ {0}
    /\ None \notin Device
    /\ None \notin Hosts
    /\ None \notin Macs
    /\ None \notin Ips
    /\ CaseFold \in [Hosts -> Hosts]
    /\ Names # {} /\ Checks # {} /\ WakeSettings # {}

(* A device record with every default.                                       *)
NewDevice ==
    [name |-> CHOOSE n \in Names : TRUE, mac |-> None, host |-> None, ip |-> None,
     check |-> CHOOSE c \in Checks : TRUE, wake |-> CHOOSE w \in WakeSettings : TRUE,
     cap |-> "Disabled", state |-> "Unknown", checked |-> 0, seen |-> 0]

(* What discovery found at an IPv4 address, `seen` when it answered a ping    *)
(* during the scan, and the record the editor is opened with to add it.      *)
Found == [mac: Macs \cup {None}, host: Hosts \cup {None}, ip: Ips, seen: Times \cup {0}]
Discovered(found) ==
    [NewDevice EXCEPT !.mac = found.mac, !.host = found.host, !.ip = found.ip,
                      !.state = IF found.seen # 0 THEN "Online" ELSE "Unknown",
                      !.seen = found.seen]

(* What NormalizeAndValidate insists on once the text is normalised.         *)
Valid(d) == /\ d.host # None \/ d.ip # None
            /\ d.cap # "Disabled" => d.mac # None

(* The part of a device that a status check depends on, and the part that a  *)
(* wake depends on.                                                          *)
StatusTarget(d) == [host |-> d.host, ip |-> d.ip, mac |-> d.mac, check |-> d.check]
WakeTarget(d) == [status |-> StatusTarget(d), wake |-> d.wake]

SameStatus(a, b) == StatusTarget(a) = StatusTarget(b)
SameWake(a, b) == WakeTarget(a) = WakeTarget(b)

(* Two records of different devices that name the same machine.              *)
Matches(a, b) ==
    \/ a.mac # None /\ a.mac = b.mac
    \/ a.host # None /\ b.host # None /\ CaseFold[a.host] = CaseFold[b.host]
    \/ a.ip # None /\ a.ip = b.ip

(* The device the editor saves: the original it was opened with, with the    *)
(* fields the user left in the form.  Verified survives only when the wake   *)
(* settings and the MAC are the original's.                                  *)
Form == [name: Names, mac: Macs \cup {None}, host: Hosts \cup {None},
         ip: Ips \cup {None}, check: Checks, wake: WakeSettings, enabled: BOOLEAN]
EditedCapabilityAnyMac(original, form) ==                     \* faulty variant
    IF ~form.enabled THEN "Disabled"
    ELSE IF original.cap = "Verified" /\ form.wake = original.wake THEN "Verified"
    ELSE "EnabledUnverified"
EditedCapability(original, form) ==
    IF ~form.enabled THEN "Disabled"
    ELSE IF /\ original.cap = "Verified"
            /\ form.wake = original.wake
            /\ form.mac = original.mac THEN "Verified"
    ELSE "EnabledUnverified"
Edited(original, form) ==
    [original EXCEPT !.name = form.name, !.mac = form.mac, !.host = form.host,
                     !.ip = form.ip, !.check = form.check, !.wake = form.wake,
                     !.cap = EditedCapability(original, form)]

(* A save over an existing record: observations are the repository's, and    *)
(* only while the status target is unchanged; Verified is the repository's,  *)
(* and only while the wake target is unchanged.                              *)
MergedCapabilityAnyTarget(current, new) ==                    \* faulty variant
    IF new.cap = "Disabled" THEN "Disabled"
    ELSE IF current.cap = "Verified" THEN "Verified"
    ELSE "EnabledUnverified"
MergedCapability(current, new) ==
    IF new.cap = "Disabled" THEN "Disabled"
    ELSE IF current.cap = "Verified" /\ SameWake(current, new) THEN "Verified"
    ELSE "EnabledUnverified"
MergedKeepingStatus(current, new) ==                          \* faulty variant
    [new EXCEPT !.state = current.state, !.checked = current.checked,
                !.seen = current.seen, !.cap = MergedCapability(current, new)]
Merged(current, new) ==
    LET same == SameStatus(current, new)
    IN [new EXCEPT !.state = IF same THEN current.state ELSE "Unknown",
                   !.checked = IF same THEN current.checked ELSE 0,
                   !.seen = IF same THEN current.seen ELSE 0,
                   !.cap = MergedCapability(current, new)]

(* An observation made of `expected` and applied to the current record.      *)
AcceptsAnyAge(current, expected, at) ==                       \* faulty variant
    current # None /\ SameStatus(current, expected)
AcceptsLater(current, expected, at) ==                        \* faulty variant
    current # None /\ SameStatus(current, expected) /\ current.checked < at
Accepts(current, expected, at) ==
    /\ current # None
    /\ SameStatus(current, expected)
    /\ current.checked <= at
QualifiesAnyWake(current, expected, state, verify) ==         \* faulty variant
    verify /\ state = "Online" /\ current.cap # "Disabled"
Qualifies(current, expected, state, verify) ==
    /\ verify
    /\ state = "Online"
    /\ current.cap # "Disabled"
    /\ SameWake(current, expected)
ObservedOverExpected(current, expected, at, state, verify) == \* faulty variant
    [expected EXCEPT !.state = state, !.checked = at,
                     !.seen = IF state = "Online" THEN at ELSE current.seen,
                     !.cap = IF Qualifies(current, expected, state, verify)
                             THEN "Verified" ELSE current.cap]
Observed(current, expected, at, state, verify) ==
    [current EXCEPT !.state = state, !.checked = at,
                    !.seen = IF state = "Online" THEN at ELSE current.seen,
                    !.cap = IF Qualifies(current, expected, state, verify)
                            THEN "Verified" ELSE current.cap]
=============================================================================
