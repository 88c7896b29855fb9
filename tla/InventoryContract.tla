-------------------------- MODULE InventoryContract --------------------------
(***************************************************************************)
(* What IDeviceRepository promises its callers, whoever calls and however   *)
(* old the copies are that they work from: of the inventory, the one        *)
(* variable is the table of devices, and a call adds, replaces, observes or *)
(* deletes one device.                                                      *)
(***************************************************************************)
EXTENDS DeviceRules

VARIABLE store      (* Ids -> Device, or None                                *)

UniqueAddresses ==
    \A i, j \in Ids : i # j /\ store[i] # None /\ store[j] # None
                       => ~Matches(store[i], store[j])

Init ==
    /\ store \in [Ids -> Device \cup {None}]
    /\ \A i \in Ids : store[i] # None => Valid(store[i])
    /\ UniqueAddresses

(* What may be saved as device i: a valid record that names no other's       *)
(* machine.                                                                  *)
Admissible(i, d) == Valid(d) /\ \A j \in Ids \ {i} : store[j] # None => ~Matches(d, store[j])

Observation(d) == [state |-> d.state, checked |-> d.checked, seen |-> d.seen]
Unobserved == [state |-> "Unknown", checked |-> 0, seen |-> 0]

Add(i, d) ==
    /\ store[i] = None
    /\ Admissible(i, d)
    /\ store' = [store EXCEPT ![i] = d]

(* A save never tells what was observed, nor that wakes are proved: it keeps *)
(* the one while the status target is the same, the other while the wake     *)
(* target is, and takes both away otherwise.                                 *)
Replace(i, d) ==
    /\ store[i] # None
    /\ Admissible(i, d)
    /\ Observation(d) = IF SameStatus(store[i], d) THEN Observation(store[i]) ELSE Unobserved
    /\ d.cap = "Verified" => store[i].cap = "Verified" /\ SameWake(store[i], d)
    /\ store' = [store EXCEPT ![i] = d]

(* An observation never edits, and is never older than the one it replaces.  *)
Observe(i, d) ==
    /\ store[i] # None
    /\ d.name = store[i].name /\ SameWake(store[i], d)
    /\ store[i].checked <= d.checked
    /\ d.seen = IF d.state = "Online" THEN d.checked ELSE store[i].seen
    /\ \/ d.cap = store[i].cap
       \/ d.cap = "Verified" /\ store[i].cap # "Disabled" /\ d.state = "Online"
    /\ store' = [store EXCEPT ![i] = d]

Delete(i) ==
    /\ store[i] # None
    /\ store' = [store EXCEPT ![i] = None]

Next == \E i \in Ids : \/ Delete(i)
                       \/ \E d \in Device : Add(i, d) \/ Replace(i, d) \/ Observe(i, d)

Spec == Init /\ [][Next]_store

(* Of an unchanged target, the last check never goes back in time.           *)
LastCheckedAdvances ==
    [][\A i \in Ids : /\ store[i] # None /\ store'[i] # None
                      /\ SameStatus(store[i], store'[i])
                      => store[i].checked <= store'[i].checked]_store
=============================================================================
