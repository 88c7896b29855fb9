--------------------------- MODULE DeviceRepository ---------------------------
(***************************************************************************)
(* The device inventory as SqliteDeviceRepository keeps it, under the       *)
(* callers it has: editor dialogs that save a record built from a copy they *)
(* read earlier, sweeps and wakes that apply an observation of a copy they  *)
(* read earlier, and deletions.  Each call is one immediate transaction     *)
(* behind the repository's gate, so it is one step; everything a caller     *)
(* does before and after it interleaves freely.  A call that is cancelled   *)
(* or fails before its commit leaves the store alone.                       *)
(***************************************************************************)
EXTENDS DeviceRules, FiniteSets

CONSTANTS
    Editors,        (* editor dialogs                                         *)
    Observers,      (* status sweeps and wakes                                *)
    Forms,          (* what users type in a dialog                            *)
    Discoveries,    (* what network scans find                                *)
    MaxAnswers,     (* bound: distinct answers the status checks give         *)
    SingleInstance  (* TRUE: no other MythLab process edits this data folder, *)
                    (* the dialogs of this one are modal, and the reload that *)
                    (* follows each change of the inventory succeeds          *)

ASSUME RepositoryAssumption ==
    /\ Forms \subseteq Form
    /\ Discoveries \subseteq Found
    /\ SingleInstance \in BOOLEAN

VARIABLES
    store,      (* the devices table: Ids -> Device, or None                  *)
    allocated,  (* the GUIDs ever stored                                      *)
    editor,     (* what each dialog holds                                     *)
    observer,   (* what each observer holds                                   *)
    observed,   (* history: every answer of a status check                    *)
    witnessed   (* history: every Offline -> packets -> Online wake           *)

vars == <<store, allocated, editor, observer, observed, witnessed>>

Editor == [id: Ids, original: Device \cup {None}]     \* None: the dialog is closed
Observer == [phase: {"idle", "checking", "applying"}, id: Ids,
             dev: Device \cup {None}, at: Times \cup {0}, state: Observable,
             verify: BOOLEAN]

StatusTargets == [host: Hosts \cup {None}, ip: Ips \cup {None},
                  mac: Macs \cup {None}, check: Checks]
WakeTargets == [status: StatusTargets, wake: WakeSettings]
Answers == [id: Ids, target: StatusTargets, at: Times, state: Observable]
Wakes == [id: Ids, target: WakeTargets]

Closed(i) == [id |-> i, original |-> None]
Idle(i) == [phase |-> "idle", id |-> i, dev |-> None, at |-> 0,
            state |-> "Unknown", verify |-> FALSE]

(* Every variable has its type, and every stored device passed validation.  *)
TypeOK ==
    /\ store \in [Ids -> Device \cup {None}]
    /\ \A i \in Ids : store[i] # None => Valid(store[i])
    /\ allocated \subseteq Ids
    /\ editor \in [Editors -> Editor]
    /\ observer \in [Observers -> Observer]
    /\ \A o \in Observers : observer[o].phase # "idle" => observer[o].dev # None
    /\ \A o \in Observers : observer[o].phase = "applying" => observer[o].at # 0
    /\ observed \subseteq Answers
    /\ witnessed \subseteq Wakes

Init ==
    /\ store = [i \in Ids |-> None]
    /\ allocated = {}
    /\ editor \in [Editors -> {Closed(i) : i \in Ids}]
    /\ observer \in [Observers -> {Idle(i) : i \in Ids}]
    /\ observed = {}
    /\ witnessed = {}

(* A modal dialog of a single instance leaves no room for a second one.      *)
NoDialog == \A e \in Editors : editor[e].original = None
MayOpen == SingleInstance => NoDialog
MayDelete(i) == SingleInstance =>
    \A e \in Editors : editor[e].original = None \/ editor[e].id # i

-----------------------------------------------------------------------------
(* The editor is opened on a copy of the record, or on a new device, whose   *)
(* GUID was never used before: an empty one, or one that a scan found.       *)
Open(e, i) ==
    /\ editor[e].original = None
    /\ MayOpen
    /\ store[i] # None
    /\ editor' = [editor EXCEPT ![e] = [id |-> i, original |-> store[i]]]
    /\ UNCHANGED <<store, allocated, observer, observed, witnessed>>

OpenNew(e, i) ==
    /\ editor[e].original = None
    /\ MayOpen
    /\ i \notin allocated
    /\ \A f \in Editors : editor[f].original = None \/ editor[f].id # i
    /\ \E new \in {NewDevice} \cup {Discovered(f) : f \in Discoveries} :
          editor' = [editor EXCEPT ![e] = [id |-> i, original |-> new]]
    /\ UNCHANGED <<store, allocated, observer, observed, witnessed>>

SavedRecord(i, new) == IF store[i] = None THEN new ELSE Merged(store[i], new)

DuplicateNever(i, d) == FALSE                                 \* faulty variant
Duplicate(i, d) == \E j \in Ids \ {i} : store[j] # None /\ Matches(d, store[j])

(* Save in the dialog: the record is built from the original and the form,   *)
(* validated, and merged into the store in one transaction.  A duplicate, a  *)
(* cancellation before the commit or a storage failure changes nothing: the  *)
(* dialog shows the error and stays open on the same original.               *)
Save(e, form) ==
    LET i == editor[e].id
        edited == Edited(editor[e].original, form)
        record == SavedRecord(i, edited)
    IN /\ editor[e].original # None
       /\ Valid(edited)
       /\ ~Duplicate(i, record)
       /\ store' = [store EXCEPT ![i] = record]
       /\ allocated' = allocated \cup {i}
       /\ editor' = [editor EXCEPT ![e] = Closed(i)]
       /\ UNCHANGED <<observer, observed, witnessed>>

Close(e) ==
    /\ editor[e].original # None
    /\ editor' = [editor EXCEPT ![e] = Closed(editor[e].id)]
    /\ UNCHANGED <<store, allocated, observer, observed, witnessed>>

Delete(i) ==
    /\ store[i] # None
    /\ MayDelete(i)
    /\ store' = [store EXCEPT ![i] = None]
    /\ UNCHANGED <<allocated, editor, observer, observed, witnessed>>

-----------------------------------------------------------------------------
(* A sweep or a wake reads the record, learns a state that carries the time  *)
(* at which the check began (wall-clock time, so not ordered with others),   *)
(* and applies it.  Only the outcome of a wake asks to verify, and only with *)
(* Online after Offline and sent packets.                                    *)
StartObserving(o, i) ==
    /\ observer[o].phase = "idle"
    /\ store[i] # None
    /\ Cardinality(observed) < MaxAnswers
    /\ observer' = [observer EXCEPT ![o] = [Idle(i) EXCEPT !.phase = "checking", !.dev = store[i]]]
    /\ UNCHANGED <<store, allocated, editor, observed, witnessed>>

Answer(o, at, state, verify) ==
    LET i == observer[o].id
        d == observer[o].dev
    IN /\ observer[o].phase = "checking"
       /\ verify => state = "Online" /\ d.cap # "Disabled"
       /\ observer' = [observer EXCEPT ![o].phase = "applying", ![o].at = at,
                                       ![o].state = state, ![o].verify = verify]
       /\ observed' = observed \cup
             {[id |-> i, target |-> StatusTarget(d), at |-> at, state |-> state]}
       /\ witnessed' = witnessed \cup
             (IF verify THEN {[id |-> i, target |-> WakeTarget(d)]} ELSE {})
       /\ UNCHANGED <<store, allocated, editor>>

ApplyObservation(o) ==
    LET q == observer[o]
    IN /\ q.phase = "applying"
       /\ store' = IF Accepts(store[q.id], q.dev, q.at)
                   THEN [store EXCEPT ![q.id] =
                            Observed(store[q.id], q.dev, q.at, q.state, q.verify)]
                   ELSE store
       /\ observer' = [observer EXCEPT ![o] = Idle(q.id)]
       /\ UNCHANGED <<allocated, editor, observed, witnessed>>

(* Cancellation or failure at any point before the commit.                   *)
GiveUp(o) ==
    /\ observer[o].phase # "idle"
    /\ observer' = [observer EXCEPT ![o] = Idle(observer[o].id)]
    /\ UNCHANGED <<store, allocated, editor, observed, witnessed>>

Next ==
    \/ \E e \in Editors, i \in Ids : Open(e, i) \/ OpenNew(e, i)
    \/ \E e \in Editors, form \in Forms : Save(e, form)
    \/ \E e \in Editors : Close(e)
    \/ \E i \in Ids : Delete(i)
    \/ \E o \in Observers, i \in Ids : StartObserving(o, i)
    \/ \E o \in Observers, at \in Times, state \in Observable, verify \in BOOLEAN :
           Answer(o, at, state, verify)
    \/ \E o \in Observers : ApplyObservation(o) \/ GiveUp(o)

Spec == Init /\ [][Next]_vars

-----------------------------------------------------------------------------
(* No two devices share a MAC, a host name (whatever its case) or an IPv4    *)
(* address, however many dialogs save and whatever they read before.         *)
UniqueAddresses ==
    \A i, j \in Ids : i # j /\ store[i] # None /\ store[j] # None
                       => ~Matches(store[i], store[j])

(* What the store says was last observed of a device was answered by a check *)
(* of that very target: a changed target takes its status with it, and an    *)
(* answer that arrives after the change is dropped.  A device added from a   *)
(* scan starts with what the scan saw, until it is checked.                  *)
Sightings == {f.seen : f \in Discoveries} \ {0}
StatusOfOwnTarget ==
    \A i \in Ids : LET d == store[i] IN d # None =>
        /\ d.checked = 0 => IF d.seen \in Sightings THEN d.state = "Online"
                           ELSE d.state = "Unknown" /\ d.seen = 0
        /\ d.checked # 0 => [id |-> i, target |-> StatusTarget(d),
                             at |-> d.checked, state |-> d.state] \in observed
        /\ d.seen # 0 => \/ d.seen \in Sightings
                         \/ [id |-> i, target |-> StatusTarget(d),
                             at |-> d.seen, state |-> "Online"] \in observed

(* "Changed targets invalidate status": a device that was not checked yet    *)
(* was seen only at the address that the scan saw.                           *)
SeenAtOwnAddress ==
    \A i \in Ids : LET d == store[i] IN
        d # None /\ d.checked = 0 /\ d.seen # 0
            => \E f \in Discoveries : f.ip = d.ip /\ f.seen = d.seen

(* A device is Verified only if a wake of exactly its target and wake        *)
(* settings was seen to bring it Online.                                     *)
VerifiedWasWitnessed ==
    \A i \in Ids : store[i] # None /\ store[i].cap = "Verified"
                   => [id |-> i, target |-> WakeTarget(store[i])] \in witnessed

(* Whoever else edits the data folder, Verified never outlives a change of   *)
(* the MAC or of the wake settings.                                          *)
WakeEvidence(wakes, i, d) ==
    \E w \in wakes : /\ w.id = i
                     /\ w.target.status.mac = d.mac
                     /\ w.target.wake = d.wake
VerifiedKeepsMacAndWake ==
    \A i \in Ids : store[i] # None /\ store[i].cap = "Verified"
                   => WakeEvidence(witnessed, i, store[i])

(* The last check of a target never goes back in time: a slow check that     *)
(* began before one already stored is dropped, and a save from an old copy   *)
(* keeps the newer observation.                                              *)
LastCheckedAdvances ==
    [][\A i \in Ids : /\ store[i] # None /\ store'[i] # None
                      /\ SameStatus(store[i], store'[i])
                      => store[i].checked <= store'[i].checked]_vars

Configuration(d) == [name |-> d.name, target |-> WakeTarget(d)]

(* Applying an observation never brings a deleted device back, and never     *)
(* overwrites what an editor saved after the check had read the record.      *)
ObservationsKeepEdits ==
    [][\A o \in Observers : ApplyObservation(o) =>
          \A i \in Ids :
             /\ store'[i] = None <=> store[i] = None
             /\ store[i] # None => /\ Configuration(store'[i]) = Configuration(store[i])
                                   /\ store'[i].cap = "Disabled" <=> store[i].cap = "Disabled"]_vars

(* The repository, with its callers, keeps the contract of the inventory.    *)
Inventory == INSTANCE InventoryContract
Contract == Inventory!Spec
=============================================================================
