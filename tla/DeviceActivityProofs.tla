------------------------- MODULE DeviceActivityProofs -------------------------
(* Theorems about DeviceActivity, for every inventory, dialog, discovery and *)
(* number of reloads in flight.                                              *)
EXTENDS DeviceActivity, SequenceTheorems, TLAPS

USE DeviceAssumption

Devices == [Ids -> Device \cup {None}]
CheckOp == [phase: {"idle", "probing", "applying", "committed"}, dev: Device \cup {None},
            fresh: BOOLEAN, at: Times \cup {0}, state: Observable, saved: Device \cup {None}]
WakeOp == [phase: {"idle", "looking", "sent", "applying", "committed"},
           dev: Device \cup {None}, fresh: BOOLEAN, at: Times \cup {0}, before: Observable,
           state: Observable, verified: BOOLEAN, cancelled: BOOLEAN,
           saved: Device \cup {None}]
Commands == [phase: {"free", "editing", "listing"}, id: Ids \cup {None},
             original: Device \cup {None}]
Items == [kind: {"check", "wake"}, id: Ids]
         \cup [kind: {"list"}, own: BOOLEAN, devices: Devices]

InventoryTypes ==
    /\ store \in Devices
    /\ \A i \in Ids : store[i] # None => Valid(store[i])
    /\ allocated \subseteq Ids
    /\ command \in Commands
    /\ command.phase = "editing" => command.id \in Ids /\ command.original \in Device
    /\ lists \in Seq(BOOLEAN)
    /\ inbox \in Seq(Items)
    /\ missed \in BOOLEAN

OperationTypes ==
    /\ cards \in [Ids -> Card \cup {None}]
    /\ sweep \in [on: BOOLEAN, pending: SUBSET Ids]
    /\ checks \in [Ids -> CheckOp]
    /\ wakes \in [Ids -> WakeOp]
    /\ \A i \in Ids :
        /\ checks[i].phase # "idle" => sweep.on /\ checks[i].dev \in Device
        /\ wakes[i].phase # "idle" => wakes[i].dev \in Device
        /\ checks[i].phase = "idle" => ~checks[i].fresh
        /\ wakes[i].phase = "idle" => ~wakes[i].fresh

AmbientTypes == lifetime \in {"running", "stopping", "drained"} /\ now \in Times

(* An operation may write to its card only while that is there.              *)
FreshInv ==
    \A i \in Ids : cards[i] = None => ~checks[i].fresh /\ ~wakes[i].fresh

Types == InventoryTypes /\ OperationTypes /\ AmbientTypes /\ FreshInv

-----------------------------------------------------------------------------
(* The rules return devices.                                                 *)
LEMMA EditedType ==
    ASSUME NEW original \in Device, NEW form \in Form
    PROVE  Edited(original, form) \in Device
  <1>1. EditedCapability(original, form) \in Capabilities
    BY DEF EditedCapability, Capabilities
  <1> QED
    BY <1>1 DEF Edited, Form, Device

LEMMA NewDeviceType == NewDevice \in Device
  BY DEF NewDevice, Device, Capabilities, Observable

LEMMA EditedChecked ==
    ASSUME NEW original \in Device, NEW form \in Form
    PROVE  /\ Edited(original, form) \in Device
           /\ Edited(original, form).checked = original.checked
<1>1. Edited(original, form).checked = original.checked
  BY DEF Edited, Device
<1> QED
  BY <1>1, EditedType

LEMMA DiscoveredType ==
    ASSUME NEW found \in Found
    PROVE  Discovered(found) \in Device
<1> DEFINE state == IF found.seen # 0 THEN "Online" ELSE "Unknown"
<1>1. state \in Observable
  BY DEF Observable
<1>2. /\ found.mac \in Macs \cup {None} /\ found.host \in Hosts \cup {None}
      /\ found.ip \in Ips \cup {None} /\ found.seen \in Times \cup {0}
  BY DEF Found
<1>3. Discovered(found) = [NewDevice EXCEPT !.mac = found.mac, !.host = found.host,
                                            !.ip = found.ip, !.state = state, !.seen = found.seen]
  BY DEF Discovered
<1> HIDE DEF state
<1> QED
  BY <1>1, <1>2, <1>3, NewDeviceType DEF Device

LEMMA CopyType ==
    ASSUME NEW d \in Device
    PROVE  Copy(d) \in Device /\ StatusTarget(Copy(d)) = StatusTarget(d)
           /\ WakeTarget(Copy(d)) = WakeTarget(d)
  BY DEF Copy, Device, Observable, StatusTarget, WakeTarget

(* A record with another observation and capability.                         *)
LEMMA Rewritten ==
    ASSUME NEW d \in Device, NEW state \in Observable, NEW checked \in Times \cup {0},
           NEW seen \in Times \cup {0}, NEW cap \in Capabilities
    PROVE  [d EXCEPT !.state = state, !.checked = checked, !.seen = seen, !.cap = cap] \in Device
  BY DEF Device

LEMMA MergedFacts ==
    ASSUME NEW current \in Device, NEW new \in Device
    PROVE  /\ Merged(current, new) \in Device
           /\ Valid(new) => Valid(Merged(current, new))
           /\ WakeTarget(Merged(current, new)) = WakeTarget(new)
           /\ Merged(current, new).cap = MergedCapability(current, new)
  <1>1. MergedCapability(current, new) \in Capabilities
    BY DEF MergedCapability, Capabilities
  <1>2. Merged(current, new) \in Device
    <2> DEFINE same == SameStatus(current, new)
               state == IF same THEN current.state ELSE "Unknown"
               checked == IF same THEN current.checked ELSE 0
               seen == IF same THEN current.seen ELSE 0
    <2>1. /\ current.state \in Observable /\ current.checked \in Times \cup {0}
          /\ current.seen \in Times \cup {0} /\ "Unknown" \in Observable
      BY DEF Device, Observable
    <2>2. state \in Observable /\ checked \in Times \cup {0} /\ seen \in Times \cup {0}
      BY <2>1
    <2>3. Merged(current, new) = [new EXCEPT !.state = state, !.checked = checked, !.seen = seen,
                                             !.cap = MergedCapability(current, new)]
      BY DEF Merged
    <2> HIDE DEF state, checked, seen
    <2>4. [new EXCEPT !.state = state, !.checked = checked, !.seen = seen,
                      !.cap = MergedCapability(current, new)] \in Device
      BY <1>1, <2>2, Rewritten
    <2> QED
      BY <2>3, <2>4
  <1>3. /\ Merged(current, new).cap = MergedCapability(current, new)
        /\ Merged(current, new).host = new.host /\ Merged(current, new).ip = new.ip
        /\ Merged(current, new).mac = new.mac /\ Merged(current, new).check = new.check
        /\ Merged(current, new).wake = new.wake
    BY DEF Merged, Device
  <1>4. MergedCapability(current, new) = "Disabled" <=> new.cap = "Disabled"
    BY DEF MergedCapability
  <1> QED
    BY <1>2, <1>3, <1>4 DEF Valid, WakeTarget, StatusTarget

-----------------------------------------------------------------------------
(* The values that the steps write.                                          *)
LEMMA NewValues ==
    /\ Idle \in CheckOp /\ NoWake \in WakeOp /\ Free \in Commands
    /\ \A d \in Device : NewCard(d) \in Card /\ NewCard(d) # None
    /\ \A card \in Card : card # None
    /\ now \in Times => now \in Times \cup {0}
<1>1. \A d \in Device : NewCard(d) \in Card
  BY DEF NewCard, Card, Observable
<1> QED
  BY <1>1, ActivityAssumption DEF Idle, NoWake, Free, CheckOp, WakeOp, Commands, Observable

LEMMA ShowType ==
    ASSUME NEW card \in Card, NEW op, op.saved \in Device \cup {None}, op.state \in Observable,
           op.dev \in Device
    PROVE  Show(card, op) \in Card /\ ShowUnknown(card, op) \in Card
<1>1. StatusTarget(op.dev) \in Targets
  BY DEF StatusTarget, Targets, Device
<1> QED
  BY <1>1 DEF Show, ShowUnknown, Card, Observable

(* A step of the cards, checks and wakes of one device.                      *)
LEMMA OneDeviceTypes ==
    ASSUME Types, NEW i \in Ids,
           \A j \in Ids \ {i} : /\ cards'[j] = cards[j] /\ checks'[j] = checks[j]
                                /\ wakes'[j] = wakes[j],
           cards' \in [Ids -> Card \cup {None}], checks' \in [Ids -> CheckOp],
           wakes' \in [Ids -> WakeOp], UNCHANGED sweep,
           checks'[i].phase # "idle" => sweep.on /\ checks'[i].dev \in Device,
           wakes'[i].phase # "idle" => wakes'[i].dev \in Device,
           checks'[i].phase = "idle" => ~checks'[i].fresh,
           wakes'[i].phase = "idle" => ~wakes'[i].fresh,
           cards'[i] = None => ~checks'[i].fresh /\ ~wakes'[i].fresh
    PROVE  OperationTypes' /\ FreshInv'
  BY DEF Types, OperationTypes, FreshInv

LEMMA SameTypes ==
    ASSUME Types
    PROVE  /\ UNCHANGED inventory => InventoryTypes'
           /\ UNCHANGED operations => OperationTypes' /\ FreshInv'
           /\ UNCHANGED ambient => AmbientTypes'
  BY DEF Types, inventory, operations, ambient, InventoryTypes, OperationTypes, AmbientTypes,
         FreshInv

LEMMA SweepTypes ==
    ASSUME Types, Tick \/ Sweeping \/ Stop \/ StopDone
    PROVE  Types'
<1>1. CASE Tick
  <2>1. now' \in Times /\ UNCHANGED <<inventory, operations, lifetime>>
    BY <1>1 DEF Tick, inventory, operations
  <2> QED
    BY <2>1, SameTypes DEF Types, AmbientTypes
<1>2. CASE StartSweep
  <2>1. /\ UNCHANGED <<inventory, ambient, cards, checks, wakes>> /\ ~sweep.on
        /\ sweep' = [on |-> TRUE, pending |-> {i \in Ids : cards[i] # None}]
    BY <1>2 DEF StartSweep
  <2>2. OperationTypes' /\ FreshInv'
    BY <2>1 DEF Types, OperationTypes, FreshInv
  <2> QED
    BY <2>1, <2>2, SameTypes DEF Types
<1>3. CASE StartBatch
  <2>1. PICK batch \in SUBSET sweep.pending :
          /\ sweep' = [sweep EXCEPT !.pending = @ \ batch]
          /\ checks' = [i \in Ids |->
               IF i \in batch /\ Probes(i)
               THEN [Idle EXCEPT !.phase = "probing", !.dev = Copy(cards[i].dev),
                                 !.fresh = TRUE, !.at = now]
               ELSE checks[i]]
    BY <1>3 DEF StartBatch
  <2>2. sweep.on /\ UNCHANGED <<inventory, cards, wakes, ambient>>
    BY <1>3 DEF StartBatch
  <2>3. sweep' \in [on: BOOLEAN, pending: SUBSET Ids] /\ sweep'.on
    BY <2>1, <2>2 DEF Types, OperationTypes
  <2>4. ASSUME NEW i \in Ids, i \in batch, Probes(i)
        PROVE  /\ checks'[i] \in CheckOp /\ checks'[i].phase = "probing"
               /\ checks'[i].dev \in Device /\ cards[i] # None
    <3>1. cards[i] \in Card /\ cards[i] # None /\ now \in Times
      BY <2>4 DEF Probes, Types, OperationTypes, AmbientTypes
    <3>2. Copy(cards[i].dev) \in Device
      BY <3>1, CopyType DEF Card
    <3>3. checks'[i] = [phase |-> "probing", dev |-> Copy(cards[i].dev), fresh |-> TRUE,
                        at |-> now, state |-> "Unknown", saved |-> None]
      BY <2>1, <2>4 DEF Idle
    <3> QED
      BY <3>1, <3>2, <3>3 DEF CheckOp, Observable
  <2>5. \A i \in Ids : ~(i \in batch /\ Probes(i)) => checks'[i] = checks[i]
    BY <2>1
  <2>6. OperationTypes' /\ FreshInv'
    BY <2>1, <2>2, <2>3, <2>4, <2>5 DEF Types, OperationTypes, FreshInv
  <2> QED
    BY <2>2, <2>6, SameTypes DEF Types
<1>4. CASE EndSweep
  <2>1. /\ sweep' = [on |-> FALSE, pending |-> {}] /\ \A i \in Ids : checks[i].phase = "idle"
        /\ UNCHANGED <<inventory, cards, checks, wakes, ambient>>
    BY <1>4 DEF EndSweep, Probing
  <2>2. OperationTypes' /\ FreshInv'
    BY <2>1 DEF Types, OperationTypes, FreshInv
  <2> QED
    BY <2>1, <2>2, SameTypes DEF Types
<1>5. CASE Stop \/ StopDone
  <2>1. lifetime' \in {"stopping", "drained"} /\ UNCHANGED <<inventory, operations, now>>
    BY <1>5 DEF Stop, StopDone, operations
  <2> QED
    BY <2>1, SameTypes DEF Types, AmbientTypes
<1> QED
  BY <1>1, <1>2, <1>3, <1>4, <1>5 DEF Sweeping

(* What the repository's transaction makes of the stored record.             *)
LEMMA SavedFacts ==
    ASSUME Types, NEW i \in Ids, NEW op, op.dev \in Device, op.at \in Times \cup {0},
           op.state \in Observable, NEW verify, Saved(i, op, verify) # None
    PROVE  /\ store[i] # None /\ store[i] \in Device
           /\ Saved(i, op, verify) \in Device /\ Valid(Saved(i, op, verify))
           /\ StatusTarget(Saved(i, op, verify)) = StatusTarget(op.dev)
           /\ WakeTarget(Saved(i, op, verify)) = WakeTarget(store[i])
           /\ Saved(i, op, verify).cap =
                IF Qualifies(store[i], op.dev, op.state, verify) THEN "Verified" ELSE store[i].cap
<1> DEFINE d == Saved(i, op, verify)
<1>1. Accepts(store[i], op.dev, op.at)
      /\ d = Observed(store[i], op.dev, op.at, op.state, verify)
  BY DEF Saved
<1>2. store[i] # None /\ store[i] \in Device /\ Valid(store[i])
      /\ StatusTarget(store[i]) = StatusTarget(op.dev)
  BY <1>1 DEF Accepts, SameStatus, Types, InventoryTypes, Devices
<1>3. d \in Device
  BY <1>1, <1>2 DEF Observed, Device, Capabilities
<1>4. /\ d.host = store[i].host /\ d.ip = store[i].ip /\ d.mac = store[i].mac
      /\ d.check = store[i].check /\ d.wake = store[i].wake
  BY <1>1, <1>2 DEF Observed, Device
<1>5. d.cap = IF Qualifies(store[i], op.dev, op.state, verify)
              THEN "Verified" ELSE store[i].cap
  BY <1>1, <1>2 DEF Observed, Device
<1>6. Valid(d)
  BY <1>2, <1>4, <1>5 DEF Valid, Qualifies
<1>7. StatusTarget(d) = StatusTarget(store[i]) /\ WakeTarget(d) = WakeTarget(store[i])
  BY <1>4 DEF StatusTarget, WakeTarget
<1> QED
  BY <1>2, <1>3, <1>5, <1>6, <1>7

LEMMA SavedTarget ==
    ASSUME NEW i \in Ids, store[i] # None => store[i] \in Device, NEW op, NEW verify,
           Saved(i, op, verify) # None
    PROVE  StatusTarget(Saved(i, op, verify)) = StatusTarget(op.dev)
<1> DEFINE d == Saved(i, op, verify)
<1>1. d = Observed(store[i], op.dev, op.at, op.state, verify)
      /\ store[i] \in Device /\ StatusTarget(store[i]) = StatusTarget(op.dev)
  BY DEF Saved, Accepts, SameStatus
<1>2. /\ d.host = store[i].host /\ d.ip = store[i].ip /\ d.mac = store[i].mac
      /\ d.check = store[i].check
  BY <1>1 DEF Observed, Device
<1>3. StatusTarget(d) = StatusTarget(store[i])
  BY <1>2 DEF StatusTarget
<1> QED
  BY <1>1, <1>3

LEMMA SavedType ==
    ASSUME Types, NEW i \in Ids, NEW op, op.dev \in Device, op.at \in Times \cup {0},
           op.state \in Observable, NEW verify
    PROVE  Saved(i, op, verify) \in Device \cup {None}
  BY SavedFacts

LEMMA CommitTypes ==
    ASSUME Types, NEW kind \in {"check", "wake"}, NEW i \in Ids, NEW op, op.dev \in Device,
           op.at \in Times \cup {0}, op.state \in Observable, NEW verify,
           Commit(kind, i, op, verify)
    PROVE  InventoryTypes'
<1>1. /\ store' = IF Saved(i, op, verify) = None THEN store
                  ELSE [store EXCEPT ![i] = Saved(i, op, verify)]
      /\ inbox' = Append(inbox, [kind |-> kind, id |-> i])
      /\ UNCHANGED <<allocated, command, lists, missed>>
  BY DEF Commit
<1>2. [kind |-> kind, id |-> i] \in Items
  BY DEF Items
<1>3. inbox' \in Seq(Items)
  BY <1>1, <1>2, AppendProperties DEF Types, InventoryTypes
<1>4. store' \in Devices /\ \A j \in Ids : store'[j] # None => Valid(store'[j])
  <2>1. CASE Saved(i, op, verify) = None
    BY <1>1, <2>1 DEF Types, InventoryTypes
  <2>2. CASE Saved(i, op, verify) # None
    BY <1>1, <2>2, SavedFacts DEF Types, InventoryTypes, Devices
  <2> QED
    BY <2>1, <2>2
<1> QED
  BY <1>1, <1>3, <1>4 DEF Types, InventoryTypes

LEMMA ArrivesTypes ==
    ASSUME Types, NEW kind, NEW i, Arrives(kind, i), UNCHANGED <<store, allocated, command, lists, missed>>
    PROVE  InventoryTypes'
<1>1. inbox' \in Seq(Items)
  BY HeadTailProperties DEF Arrives, Types, InventoryTypes
<1> QED
  BY <1>1 DEF Types, InventoryTypes

LEMMA CheckTypes ==
    ASSUME Types, NEW i \in Ids, CheckStep(i)
    PROVE  Types'
<1> USE DEF Types
<1>1. /\ checks[i] \in CheckOp /\ checks \in [Ids -> CheckOp] /\ wakes \in [Ids -> WakeOp]
      /\ cards \in [Ids -> Card \cup {None}]
      /\ checks[i].phase # "idle" => sweep.on /\ checks[i].dev \in Device
      /\ checks[i].fresh => cards[i] \in Card
  BY DEF OperationTypes, FreshInv
<1>2. ASSUME NEW state \in Answers, CheckAnswers(i, state) PROVE Types'
  <2>1. /\ checks[i].phase = "probing"
        /\ checks' = [checks EXCEPT ![i] =
                         IF @.fresh /\ ~Stopped
                         THEN [@ EXCEPT !.phase = "applying", !.state = state] ELSE Idle]
        /\ UNCHANGED <<inventory, cards, sweep, wakes, ambient>>
    BY <1>2 DEF CheckAnswers
  <2>2. state \in Observable
    BY ActivityAssumption
  <2>3. checks'[i] \in CheckOp /\ checks' \in [Ids -> CheckOp]
        /\ (checks'[i].phase # "idle" => checks'[i].dev = checks[i].dev)
        /\ (checks'[i].phase = "idle" => ~checks'[i].fresh)
        /\ (checks'[i].fresh => checks[i].fresh)
    <3>1. CASE checks[i].fresh /\ ~Stopped
      BY <1>1, <2>1, <2>2, <3>1 DEF CheckOp
    <3>2. CASE ~(checks[i].fresh /\ ~Stopped)
      BY <1>1, <2>1, <3>2, NewValues DEF Idle
    <3> QED
      BY <3>1, <3>2
  <2>4. OperationTypes' /\ FreshInv'
    BY <1>1, <2>1, <2>3, OneDeviceTypes DEF OperationTypes, FreshInv
  <2> QED
    BY <2>1, <2>4, SameTypes
<1>3. CASE CheckFails(i)
  <2>1. /\ checks[i].phase \in {"probing", "applying"} /\ checks' = [checks EXCEPT ![i] = Idle]
        /\ cards' \in {cards, [cards EXCEPT ![i] = ShowUnknown(@, checks[i])]}
        /\ UNCHANGED <<inventory, sweep, wakes, ambient>>
    BY <1>3 DEF CheckFails
  <2>2. checks' \in [Ids -> CheckOp] /\ checks'[i] = Idle /\ Idle.phase = "idle" /\ ~Idle.fresh
    BY <1>1, <2>1, NewValues DEF Idle
  <2>3. ShowUnknown(cards[i], checks[i]) \in Card \cup {None}
        /\ (ShowUnknown(cards[i], checks[i]) = None => cards[i] = None)
    BY <1>1, NewValues DEF ShowUnknown, Card, Observable
  <2>4. cards' \in [Ids -> Card \cup {None}] /\ (cards'[i] = None => cards[i] = None)
    BY <1>1, <2>1, <2>3
  <2>5. OperationTypes' /\ FreshInv'
    BY <1>1, <2>1, <2>2, <2>4, OneDeviceTypes DEF OperationTypes, FreshInv
  <2> QED
    BY <2>1, <2>5, SameTypes
<1>4. CASE CommitCheck(i)
  <2>1. /\ checks[i].phase = "applying" /\ Commit("check", i, checks[i], FALSE)
        /\ checks' = [checks EXCEPT ![i] = [@ EXCEPT !.phase = "committed",
                                                     !.saved = Saved(i, checks[i], FALSE)]]
        /\ UNCHANGED <<cards, sweep, ambient, wakes>>
    BY <1>4 DEF CommitCheck, Commit, Committed
  <2>2. checks[i].dev \in Device /\ checks[i].at \in Times \cup {0} /\ checks[i].state \in Observable
    BY <1>1, <2>1 DEF CheckOp
  <2>3. Saved(i, checks[i], FALSE) \in Device \cup {None} /\ InventoryTypes'
    BY <2>1, <2>2, SavedType, CommitTypes
  <2>4. checks' \in [Ids -> CheckOp] /\ checks'[i].phase = "committed"
        /\ checks'[i].dev = checks[i].dev /\ checks'[i].fresh = checks[i].fresh
    BY <1>1, <2>1, <2>3 DEF CheckOp
  <2>5. OperationTypes' /\ FreshInv'
    BY <1>1, <2>1, <2>2, <2>4, OneDeviceTypes DEF OperationTypes, FreshInv
  <2> QED
    BY <2>1, <2>3, <2>5, SameTypes
<1>5. CASE ResumeCheck(i)
  <2>1. /\ Arrives("check", i) /\ cards' = [cards EXCEPT ![i] = Show(@, checks[i])]
        /\ checks' = [checks EXCEPT ![i] = Idle]
        /\ UNCHANGED <<store, allocated, command, lists, missed, sweep, wakes, ambient>>
    BY <1>5 DEF ResumeCheck
  <2>2. checks' \in [Ids -> CheckOp] /\ checks'[i] = Idle /\ Idle.phase = "idle" /\ ~Idle.fresh
    BY <1>1, <2>1, NewValues DEF Idle
  <2>3. CASE checks[i].saved = None \/ ~checks[i].fresh
    <3>1. cards' = cards
      BY <1>1, <2>1, <2>3 DEF Show
    <3> QED
      BY <1>1, <2>1, <2>2, <3>1, OneDeviceTypes, ArrivesTypes, SameTypes DEF OperationTypes, FreshInv
  <2>4. CASE checks[i].saved # None /\ checks[i].fresh
    <3>1. checks[i].phase # "idle"
      BY <2>4 DEF OperationTypes
    <3>2. Show(cards[i], checks[i]) \in Card
      BY <1>1, <2>4, <3>1, ShowType DEF CheckOp
    <3>3. cards' \in [Ids -> Card \cup {None}] /\ cards'[i] # None
      BY <1>1, <2>1, <3>2, NewValues
    <3> QED
      BY <1>1, <2>1, <2>2, <3>3, OneDeviceTypes, ArrivesTypes, SameTypes DEF OperationTypes, FreshInv
  <2> QED
    BY <2>3, <2>4
<1> QED
  BY <1>2, <1>3, <1>4, <1>5 DEF CheckStep

LEMMA EndWakeTypes ==
    ASSUME Types, NEW i \in Ids, NEW card \in Card \cup {None}, card = None => cards[i] = None,
           EndWake(i, card), UNCHANGED <<checks, sweep>>
    PROVE  OperationTypes' /\ FreshInv'
<1>1. /\ cards' = [cards EXCEPT ![i] = IF card = None THEN None
                                       ELSE [card EXCEPT !.waking = FALSE]]
      /\ wakes' = [wakes EXCEPT ![i] = NoWake]
  BY DEF EndWake
<1>2. card # None => [card EXCEPT !.waking = FALSE] \in Card
  BY DEF Card
<1>3. wakes' \in [Ids -> WakeOp] /\ wakes'[i] = NoWake /\ NoWake.phase = "idle" /\ ~NoWake.fresh
  BY <1>1, NewValues DEF Types, OperationTypes, NoWake
<1>4. cards' \in [Ids -> Card \cup {None}] /\ (cards'[i] = None => cards[i] = None)
  BY <1>1, <1>2, NewValues DEF Types, OperationTypes
<1>5. \A j \in Ids \ {i} : /\ cards'[j] = cards[j] /\ checks'[j] = checks[j]
                           /\ wakes'[j] = wakes[j]
  BY <1>1 DEF Types, OperationTypes
<1>6. cards[i] = None => ~checks[i].fresh
  BY DEF Types, FreshInv
<1> QED
  BY <1>3, <1>4, <1>5, <1>6, OneDeviceTypes DEF Types, OperationTypes

LEMMA WakeTypes ==
    ASSUME Types, NEW i \in Ids, WakeStep(i)
    PROVE  Types'
<1> USE DEF Types
<1>1. /\ wakes[i] \in WakeOp /\ checks \in [Ids -> CheckOp] /\ wakes \in [Ids -> WakeOp]
      /\ cards \in [Ids -> Card \cup {None}]
      /\ checks[i].phase # "idle" => sweep.on /\ checks[i].dev \in Device
      /\ wakes[i].phase # "idle" => wakes[i].dev \in Device
      /\ wakes[i].fresh => cards[i] \in Card
      /\ checks[i].phase = "idle" => ~checks[i].fresh
      /\ cards[i] = None => ~checks[i].fresh
  BY DEF OperationTypes, FreshInv
(* A step that keeps the wake's device and its permission to write.          *)
<1>2. ASSUME wakes[i].phase # "idle", UNCHANGED <<checks, sweep, inventory, ambient>>,
             NEW op \in WakeOp, wakes' = [wakes EXCEPT ![i] = op],
             op.dev = wakes[i].dev, op.fresh => wakes[i].fresh, op.phase # "idle",
             NEW card \in Card \cup {None}, cards' = [cards EXCEPT ![i] = card],
             card = None => cards[i] = None
      PROVE  Types'
  <2>1. /\ cards' \in [Ids -> Card \cup {None}] /\ cards'[i] = card
        /\ wakes' \in [Ids -> WakeOp] /\ wakes'[i] = op
        /\ \A j \in Ids \ {i} : cards'[j] = cards[j] /\ wakes'[j] = wakes[j]
    BY <1>1, <1>2
  <2>2. OperationTypes' /\ FreshInv'
    BY <1>1, <1>2, <2>1, OneDeviceTypes DEF OperationTypes, FreshInv
  <2> QED
    BY <1>2, <2>2, SameTypes
<1>3. CASE WakeFindsOnline(i)
  <2> DEFINE op == [wakes[i] EXCEPT !.phase = "applying", !.state = "Online"]
  <2>1. /\ wakes' = [wakes EXCEPT ![i] = op] /\ wakes[i].phase = "looking"
        /\ UNCHANGED <<inventory, cards, checks, sweep, ambient>>
    BY <1>1, <1>3 DEF WakeFindsOnline, WakeOp
  <2>2. op \in WakeOp /\ op.dev = wakes[i].dev /\ op.fresh = wakes[i].fresh /\ op.phase # "idle"
    BY <1>1 DEF WakeOp, Observable
  <2>3. cards' = [cards EXCEPT ![i] = cards[i]]
    BY <1>1, <2>1
  <2> QED
    BY <1>1, <1>2, <2>1, <2>2, <2>3
<1>4. ASSUME NEW before \in Answers, WakeSends(i, before) PROVE Types'
  <2> DEFINE op == [wakes[i] EXCEPT !.phase = "sent", !.before = before]
             card == IF wakes[i].fresh THEN [cards[i] EXCEPT !.state = "Waking"] ELSE cards[i]
  <2>1. /\ wakes' = [wakes EXCEPT ![i] = op] /\ wakes[i].phase = "looking"
        /\ cards' = [cards EXCEPT ![i] = card]
        /\ UNCHANGED <<inventory, checks, sweep, ambient>>
    BY <1>1, <1>4 DEF WakeSends, WakeOp
  <2>2. before \in Observable
    BY ActivityAssumption
  <2>3. op \in WakeOp /\ op.dev = wakes[i].dev /\ op.fresh = wakes[i].fresh /\ op.phase # "idle"
    BY <1>1, <2>2 DEF WakeOp
  <2>4. card \in Card \cup {None} /\ (card = None => cards[i] = None)
    <3>1. wakes[i].fresh => [cards[i] EXCEPT !.state = "Waking"] \in Card
      BY <1>1 DEF Card
    <3> QED
      BY <1>1, <3>1, NewValues
  <2> QED
    BY <1>1, <1>2, <2>1, <2>3, <2>4
<1>5. ASSUME NEW state \in Answers, NEW at \in Times, WakeOutcome(i, state, at) PROVE Types'
  <2> DEFINE op == [wakes[i] EXCEPT !.phase = "applying", !.state = state, !.at = at,
                                    !.verified = Verifies(wakes[i].before, state)]
  <2>1. /\ wakes' = [wakes EXCEPT ![i] = op] /\ wakes[i].phase = "sent"
        /\ UNCHANGED <<inventory, cards, checks, sweep, ambient>>
    BY <1>1, <1>5 DEF WakeOutcome, WakeOp
  <2>2. state \in Observable /\ Verifies(wakes[i].before, state) \in BOOLEAN
    BY ActivityAssumption DEF Verifies
  <2>3. op \in WakeOp /\ op.dev = wakes[i].dev /\ op.fresh = wakes[i].fresh /\ op.phase # "idle"
    BY <1>1, <2>2 DEF WakeOp
  <2>4. cards' = [cards EXCEPT ![i] = cards[i]]
    BY <1>1, <2>1
  <2> QED
    BY <1>1, <1>2, <2>1, <2>3, <2>4
<1>6. CASE WakeAborts(i)
  <2>1. EndWake(i, ShowUnknown(cards[i], wakes[i])) /\ UNCHANGED <<inventory, checks, sweep, ambient>>
    BY <1>6 DEF WakeAborts
  <2>2. ShowUnknown(cards[i], wakes[i]) \in Card \cup {None}
        /\ (ShowUnknown(cards[i], wakes[i]) = None => cards[i] = None)
    BY <1>1, NewValues DEF ShowUnknown, Card, Observable
  <2> QED
    BY <2>1, <2>2, EndWakeTypes, SameTypes
<1>7. CASE CommitWake(i)
  <2> DEFINE op == [wakes[i] EXCEPT !.phase = "committed",
                                    !.saved = Saved(i, wakes[i], wakes[i].verified)]
  <2>1. /\ wakes[i].phase = "applying" /\ Commit("wake", i, wakes[i], wakes[i].verified)
        /\ wakes' = [wakes EXCEPT ![i] = op] /\ UNCHANGED <<cards, sweep, ambient, checks>>
    BY <1>1, <1>7 DEF CommitWake, Commit, Committed, WakeOp
  <2>2. wakes[i].dev \in Device /\ wakes[i].at \in Times \cup {0} /\ wakes[i].state \in Observable
    BY <1>1, <2>1 DEF WakeOp
  <2>3. Saved(i, wakes[i], wakes[i].verified) \in Device \cup {None} /\ InventoryTypes'
    BY <2>1, <2>2, SavedType, CommitTypes
  <2>4. op \in WakeOp /\ op.dev = wakes[i].dev /\ op.fresh = wakes[i].fresh /\ op.phase # "idle"
    BY <1>1, <2>3 DEF WakeOp
  <2>5. OperationTypes' /\ FreshInv'
    <3>1. wakes' \in [Ids -> WakeOp] /\ wakes'[i] = op
          /\ \A j \in Ids \ {i} : wakes'[j] = wakes[j]
      BY <1>1, <2>1, <2>4
    <3> QED
      BY <1>1, <2>1, <2>2, <2>4, <3>1, OneDeviceTypes DEF OperationTypes, FreshInv
  <2> QED
    BY <2>1, <2>3, <2>5, SameTypes
<1>8. CASE ResumeWake(i)
  <2>1. /\ Arrives("wake", i) /\ EndWake(i, Show(cards[i], wakes[i]))
        /\ UNCHANGED <<store, allocated, command, lists, missed, checks, sweep, ambient>>
    BY <1>8 DEF ResumeWake
  <2>2. Show(cards[i], wakes[i]) \in Card \cup {None}
        /\ (Show(cards[i], wakes[i]) = None => cards[i] = None)
    <3>1. CASE wakes[i].saved = None \/ ~wakes[i].fresh
      BY <1>1, <3>1 DEF Show
    <3>2. CASE wakes[i].saved # None /\ wakes[i].fresh
      <4>1. wakes[i].phase # "idle"
        BY <3>2 DEF OperationTypes
      <4> QED
        BY <1>1, <3>2, <4>1, ShowType, NewValues DEF WakeOp
    <3> QED
      BY <3>1, <3>2
  <2> QED
    BY <2>1, <2>2, EndWakeTypes, ArrivesTypes, SameTypes
<1> QED
  BY <1>3, <1>4, <1>5, <1>6, <1>7, <1>8 DEF WakeStep

LEMMA BeginWakeTypes ==
    ASSUME Types, NEW i \in Ids, BeginWake(i) \/ CancelWake(i)
    PROVE  Types'
<1> USE DEF Types
<1>1. /\ wakes[i] \in WakeOp /\ checks \in [Ids -> CheckOp] /\ wakes \in [Ids -> WakeOp]
      /\ cards \in [Ids -> Card \cup {None}] /\ checks[i] \in CheckOp
      /\ checks[i].phase # "idle" => sweep.on /\ checks[i].dev \in Device
      /\ wakes[i].phase # "idle" => wakes[i].dev \in Device
      /\ checks[i].phase = "idle" => ~checks[i].fresh
      /\ cards[i] = None => ~wakes[i].fresh /\ ~checks[i].fresh
  BY DEF OperationTypes, FreshInv
<1>2. CASE BeginWake(i)
  <2>1. /\ cards[i] # None /\ cards' = [cards EXCEPT ![i].waking = TRUE, ![i].state = "Unknown"]
        /\ checks' = [checks EXCEPT ![i].fresh = FALSE]
        /\ wakes' = [wakes EXCEPT ![i] = [NoWake EXCEPT !.phase = "looking", !.fresh = TRUE,
                                             !.dev = Copy(cards[i].dev), !.at = now]]
        /\ UNCHANGED <<inventory, sweep, ambient>>
    BY <1>2 DEF BeginWake
  <2>2. Copy(cards[i].dev) \in Device
    BY <1>1, <2>1, CopyType DEF Card
  <2>3. wakes'[i] = [phase |-> "looking", dev |-> Copy(cards[i].dev), fresh |-> TRUE, at |-> now,
                     before |-> "Unknown", state |-> "Unknown", verified |-> FALSE,
                     cancelled |-> FALSE, saved |-> None]
    BY <1>1, <2>1 DEF NoWake
  <2>4. wakes'[i] \in WakeOp /\ wakes'[i].phase # "idle" /\ wakes'[i].dev \in Device
    BY <2>2, <2>3, NewValues DEF WakeOp, Observable, AmbientTypes
  <2>5. wakes' \in [Ids -> WakeOp] /\ \A j \in Ids \ {i} : wakes'[j] = wakes[j]
    BY <1>1, <2>1, <2>4
  <2>6. checks' \in [Ids -> CheckOp] /\ ~checks'[i].fresh /\ checks'[i].phase = checks[i].phase
        /\ checks'[i].dev = checks[i].dev /\ \A j \in Ids \ {i} : checks'[j] = checks[j]
    BY <1>1, <2>1 DEF CheckOp
  <2>7. cards'[i] \in Card /\ \A j \in Ids \ {i} : cards'[j] = cards[j]
    <3>1. cards[i] \in Card
      BY <1>1, <2>1
    <3>2. cards'[i] = [cards[i] EXCEPT !.waking = TRUE, !.state = "Unknown"]
      BY <1>1, <2>1
    <3>3. [cards[i] EXCEPT !.waking = TRUE, !.state = "Unknown"] \in Card
      BY <3>1 DEF Card, Observable
    <3> QED
      BY <1>1, <2>1, <3>2, <3>3
  <2>8. cards' \in [Ids -> Card \cup {None}] /\ cards'[i] # None
    BY <1>1, <2>1, <2>7, NewValues
  <2>9. OperationTypes' /\ FreshInv'
    <3>1. /\ checks'[i].phase # "idle" => sweep.on /\ checks'[i].dev \in Device
          /\ checks'[i].phase = "idle" => ~checks'[i].fresh
          /\ UNCHANGED sweep
      BY <1>1, <2>1, <2>6
    <3> QED
      BY <2>4, <2>5, <2>6, <2>7, <2>8, <3>1, OneDeviceTypes
  <2> QED
    BY <2>1, <2>9, SameTypes
<1>3. CASE CancelWake(i)
  <2>1. /\ wakes' = [wakes EXCEPT ![i].cancelled = TRUE]
        /\ UNCHANGED <<inventory, cards, checks, sweep, ambient>>
    BY <1>3 DEF CancelWake
  <2>2. wakes' \in [Ids -> WakeOp] /\ wakes'[i].phase = wakes[i].phase
        /\ wakes'[i].dev = wakes[i].dev /\ wakes'[i].fresh = wakes[i].fresh
        /\ \A j \in Ids \ {i} : wakes'[j] = wakes[j]
    BY <1>1, <2>1 DEF WakeOp
  <2>3. OperationTypes' /\ FreshInv'
    BY <1>1, <2>1, <2>2, OneDeviceTypes DEF OperationTypes, FreshInv
  <2> QED
    BY <2>1, <2>3, SameTypes
<1> QED
  BY <1>2, <1>3

-----------------------------------------------------------------------------
(* A command or a reload stores a valid record, or drops one.                *)
LEMMA ReloadType ==
    ASSUME Types, NEW own \in BOOLEAN, Reload(own)
    PROVE  lists' \in Seq(BOOLEAN)
  BY AppendProperties DEF Reload, Types, InventoryTypes

LEMMA StoreTypes ==
    ASSUME Types, NEW i \in Ids, NEW d \in Device, Store(i, d)
    PROVE  /\ store' \in Devices /\ \A j \in Ids : store'[j] # None => Valid(store'[j])
           /\ store'[i] \in Device
           /\ store'[i] = IF store[i] = None THEN d ELSE Merged(store[i], d)
           /\ \A j \in Ids \ {i} : store'[j] = store[j]
           /\ allocated' = allocated \cup {i}
<1> DEFINE record == IF store[i] = None THEN d ELSE Merged(store[i], d)
<1>1. Valid(d) /\ store' = [store EXCEPT ![i] = record] /\ allocated' = allocated \cup {i}
  BY DEF Store
<1>2. record \in Device /\ Valid(record)
  BY <1>1, MergedFacts DEF Types, InventoryTypes, Devices
<1> QED
  BY <1>1, <1>2 DEF Types, InventoryTypes, Devices

LEMMA CommandTypes ==
    ASSUME Types,
           \/ Refresh \/ CloseEditor
           \/ \E i \in Ids : OpenEditor(i) \/ DeleteDevice(i)
           \/ \E form \in Forms : SaveEdit(form)
           \/ \E i \in Ids, found \in Discoveries, form \in Forms : DiscoverDevice(i, found, form)
    PROVE  Types'
<1> USE DEF Types
<1>1. Free \in Commands /\ Free.phase = "free"
      /\ [Free EXCEPT !.phase = "listing"] \in Commands
      /\ [Free EXCEPT !.phase = "listing"].phase = "listing"
  BY DEF Free, Commands
<1>2. ASSUME InventoryTypes', UNCHANGED <<operations, ambient>> PROVE Types'
  BY <1>2, SameTypes
<1>3. CASE Refresh
  <2>1. /\ lists' \in Seq(BOOLEAN) /\ command' = [Free EXCEPT !.phase = "listing"]
        /\ UNCHANGED <<store, allocated, inbox, missed, operations, ambient>>
    BY <1>3, ReloadType DEF Refresh
  <2> QED
    BY <1>1, <1>2, <2>1 DEF InventoryTypes
<1>4. CASE CloseEditor
  BY <1>1, <1>2, <1>4 DEF CloseEditor, InventoryTypes
<1>5. ASSUME NEW i \in Ids, OpenEditor(i) PROVE Types'
  <2>1. PICK d \in Device : command' = [phase |-> "editing", id |-> i, original |-> d]
    <3>1. cards[i] # None => cards[i].dev \in Device
      BY DEF OperationTypes, Card
    <3> QED
      BY <1>5, <3>1, NewDeviceType DEF OpenEditor
  <2>2. command' \in Commands /\ command'.id = i /\ command'.original = d
    BY <2>1 DEF Commands
  <2>3. UNCHANGED <<store, allocated, lists, inbox, missed, operations, ambient>>
    BY <1>5 DEF OpenEditor
  <2> QED
    BY <1>2, <2>2, <2>3 DEF InventoryTypes
<1>6. ASSUME NEW i \in Ids, DeleteDevice(i) PROVE Types'
  <2>1. /\ lists' \in Seq(BOOLEAN) /\ command' = [Free EXCEPT !.phase = "listing"]
        /\ store' = [store EXCEPT ![i] = None]
        /\ UNCHANGED <<allocated, inbox, missed, operations, ambient>>
    BY <1>6, ReloadType DEF DeleteDevice
  <2> QED
    BY <1>1, <1>2, <2>1 DEF InventoryTypes, Devices
<1>7. ASSUME NEW form \in Forms, SaveEdit(form) PROVE Types'
  <2>1. /\ command.phase = "editing" /\ Store(command.id, Edited(command.original, form))
        /\ lists' \in Seq(BOOLEAN) /\ command' = [Free EXCEPT !.phase = "listing"]
        /\ UNCHANGED <<inbox, missed, operations, ambient>>
    BY <1>7, ReloadType DEF SaveEdit
  <2>2. command.id \in Ids /\ Edited(command.original, form) \in Device
    BY <2>1, EditedType, ActivityAssumption DEF InventoryTypes
  <2> QED
    BY <1>1, <1>2, <2>1, <2>2, StoreTypes DEF InventoryTypes
<1>8. ASSUME NEW i \in Ids, NEW found \in Discoveries, NEW form \in Forms,
             DiscoverDevice(i, found, form)
      PROVE  Types'
  <2>1. /\ Store(i, Edited(Discovered(found), form)) /\ lists' \in Seq(BOOLEAN)
        /\ UNCHANGED <<command, inbox, missed, operations, ambient>>
    BY <1>8, ReloadType DEF DiscoverDevice
  <2>2. Edited(Discovered(found), form) \in Device
    BY DiscoveredType, EditedType, ActivityAssumption
  <2> QED
    BY <1>2, <2>1, <2>2, StoreTypes DEF InventoryTypes
<1> QED
  BY <1>3, <1>4, <1>5, <1>6, <1>7, <1>8
-----------------------------------------------------------------------------
(* The list reloads.                                                         *)
LEMMA SynchronizedType ==
    ASSUME NEW card \in Card \cup {None}, NEW d \in Device \cup {None}
    PROVE  /\ Synchronized(card, d) \in Card \cup {None}
           /\ Synchronized(card, d) = None <=> d = None
<1>1. CASE d = None \/ card = None
  BY <1>1, NewValues DEF Synchronized
<1>2. CASE d # None /\ card # None
  <2>1. /\ [card EXCEPT !.dev = d, !.state = "Unknown"] \in Card
        /\ [card EXCEPT !.dev = d] \in Card
    BY <1>2 DEF Card, Observable
  <2>2. Synchronized(card, d) \in Card
    BY <1>2, <2>1 DEF Synchronized
  <2> QED
    BY <1>2, <2>2, NewValues
<1> QED
  BY <1>1, <1>2

(* What the list at the head of the inbox does to one device.                *)
ShownAs(devices, i) ==
    LET superseded == cards[i] # None /\ (devices[i] = None \/ Resets(cards[i], devices[i]))
    IN  /\ cards'[i] = Synchronized(cards[i], devices[i])
        /\ checks'[i] = (IF superseded THEN [checks[i] EXCEPT !.fresh = FALSE] ELSE checks[i])
        /\ wakes'[i] = (IF superseded /\ wakes[i].phase # "idle"
                        THEN [wakes[i] EXCEPT !.fresh = FALSE, !.cancelled = TRUE]
                        ELSE wakes[i])

(* A list supersedes a check or a wake, and changes nothing else of it.       *)
LEMMA ShownKeeps ==
    ASSUME NEW devices, NEW i \in Ids, ShownAs(devices, i), checks[i] \in CheckOp,
           wakes[i] \in WakeOp
    PROVE  /\ checks'[i].phase = checks[i].phase /\ wakes'[i].phase = wakes[i].phase
           /\ checks'[i].saved = checks[i].saved /\ wakes'[i].saved = wakes[i].saved
           /\ checks'[i].dev = checks[i].dev /\ wakes'[i].dev = wakes[i].dev
           /\ checks'[i].at = checks[i].at /\ wakes'[i].at = wakes[i].at
           /\ checks'[i].fresh => checks[i].fresh
           /\ wakes'[i].fresh => wakes[i].fresh
           /\ wakes'[i].verified = wakes[i].verified
<1> DEFINE check == [checks[i] EXCEPT !.fresh = FALSE]
           wake == [wakes[i] EXCEPT !.fresh = FALSE, !.cancelled = TRUE]
<1>1. /\ check.phase = checks[i].phase /\ check.saved = checks[i].saved /\ ~check.fresh
      /\ check.dev = checks[i].dev /\ check.at = checks[i].at
  BY DEF CheckOp
<1>2. /\ wake.phase = wakes[i].phase /\ wake.saved = wakes[i].saved /\ ~wake.fresh
      /\ wake.dev = wakes[i].dev /\ wake.at = wakes[i].at /\ wake.verified = wakes[i].verified
  BY DEF WakeOp
<1>3. checks'[i] = checks[i] \/ checks'[i] = check
  BY DEF ShownAs
<1>4. wakes'[i] = wakes[i] \/ wakes'[i] = wake
  BY DEF ShownAs
<1> HIDE DEF check, wake
<1>5. /\ checks'[i].phase = checks[i].phase /\ checks'[i].saved = checks[i].saved
      /\ checks'[i].dev = checks[i].dev /\ checks'[i].at = checks[i].at
      /\ checks'[i].fresh => checks[i].fresh
  BY <1>1, <1>3
<1>6. /\ wakes'[i].phase = wakes[i].phase /\ wakes'[i].saved = wakes[i].saved
      /\ wakes'[i].dev = wakes[i].dev /\ wakes'[i].at = wakes[i].at
      /\ wakes'[i].fresh => wakes[i].fresh
      /\ wakes'[i].verified = wakes[i].verified
  BY <1>2, <1>4, Zenon
<1> QED
  BY <1>5, <1>6

LEMMA ShowListFacts ==
    ASSUME Types, ShowList
    PROVE  /\ inbox # <<>> /\ Head(inbox) \in Items /\ Head(inbox).kind = "list"
           /\ Head(inbox).own \in BOOLEAN /\ Head(inbox).devices \in Devices
           /\ \A i \in Ids : ShownAs(Head(inbox).devices, i)
           /\ inbox' = Tail(inbox) /\ inbox' \in Seq(Items)
           /\ command' = IF Head(inbox).own THEN Free ELSE command
           /\ cards' \in [Ids -> Card \cup {None}]
           /\ checks' = [i \in Ids |-> checks'[i]] /\ wakes' = [i \in Ids |-> wakes'[i]]
           /\ UNCHANGED <<store, allocated, lists, missed, sweep, ambient, witnessed>>
<1>1. inbox # <<>> /\ Head(inbox) \in Items /\ Head(inbox).kind = "list" /\ Tail(inbox) \in Seq(Items)
  BY HeadTailProperties DEF ShowList, Types, InventoryTypes
<1>2. Head(inbox).own \in BOOLEAN /\ Head(inbox).devices \in Devices
  BY <1>1 DEF Items
<1>3. \A i \in Ids : ShownAs(Head(inbox).devices, i)
  BY DEF ShowList, ShownAs
<1>4. cards' = [i \in Ids |-> Synchronized(cards[i], Head(inbox).devices[i])]
  BY DEF ShowList
<1>5. cards' \in [Ids -> Card \cup {None}]
  <2>1. ASSUME NEW i \in Ids
        PROVE  Synchronized(cards[i], Head(inbox).devices[i]) \in Card \cup {None}
    <3>1. cards[i] \in Card \cup {None}
      BY DEF Types, OperationTypes
    <3>2. Head(inbox).devices[i] \in Device \cup {None}
      BY <1>2 DEF Devices
    <3> QED
      BY <3>1, <3>2, SynchronizedType
  <2> QED
    BY <1>4, <2>1
<1>6. checks' = [i \in Ids |-> checks'[i]] /\ wakes' = [i \in Ids |-> wakes'[i]]
  BY DEF ShowList
<1> QED
  BY <1>1, <1>2, <1>3, <1>5, <1>6 DEF ShowList, EndReload

LEMMA ShowListTypes == ASSUME Types, ShowList PROVE Types'
<1> DEFINE devices == Head(inbox).devices
<1>1. ASSUME NEW i \in Ids
      PROVE  /\ checks'[i] \in CheckOp /\ wakes'[i] \in WakeOp
             /\ checks'[i].phase = checks[i].phase /\ wakes'[i].phase = wakes[i].phase
             /\ checks'[i].dev = checks[i].dev /\ wakes'[i].dev = wakes[i].dev
             /\ checks'[i].fresh => checks[i].fresh
             /\ wakes'[i].fresh => wakes[i].fresh
             /\ cards'[i] = None => ~checks'[i].fresh /\ ~wakes'[i].fresh
  <2>1. ShownAs(devices, i) /\ checks[i] \in CheckOp /\ wakes[i] \in WakeOp
        /\ cards[i] \in Card \cup {None} /\ devices[i] \in Device \cup {None}
        /\ (wakes[i].phase = "idle" => ~wakes[i].fresh)
        /\ (cards[i] = None => ~checks[i].fresh /\ ~wakes[i].fresh)
    BY ShowListFacts DEF Types, OperationTypes, Devices, FreshInv
  <2>2. /\ [checks[i] EXCEPT !.fresh = FALSE] \in CheckOp
        /\ [checks[i] EXCEPT !.fresh = FALSE].phase = checks[i].phase
        /\ [checks[i] EXCEPT !.fresh = FALSE].dev = checks[i].dev
        /\ ~[checks[i] EXCEPT !.fresh = FALSE].fresh
    BY <2>1 DEF CheckOp
  <2>3. /\ [wakes[i] EXCEPT !.fresh = FALSE, !.cancelled = TRUE] \in WakeOp
        /\ [wakes[i] EXCEPT !.fresh = FALSE, !.cancelled = TRUE].phase = wakes[i].phase
        /\ [wakes[i] EXCEPT !.fresh = FALSE, !.cancelled = TRUE].dev = wakes[i].dev
        /\ ~[wakes[i] EXCEPT !.fresh = FALSE, !.cancelled = TRUE].fresh
    BY <2>1 DEF WakeOp
  <2>4. cards'[i] = None <=> devices[i] = None
    BY <2>1, SynchronizedType DEF ShownAs
  <2> QED
    BY <2>1, <2>2, <2>3, <2>4 DEF ShownAs
<1>2. checks' \in [Ids -> CheckOp] /\ wakes' \in [Ids -> WakeOp]
  BY <1>1, ShowListFacts
<1>3. OperationTypes' /\ FreshInv'
  <2>1. /\ cards' \in [Ids -> Card \cup {None}] /\ UNCHANGED sweep
        /\ sweep \in [on : BOOLEAN, pending : SUBSET Ids]
    BY ShowListFacts DEF Types, OperationTypes
  <2>2. ASSUME NEW i \in Ids
        PROVE  /\ checks'[i].phase # "idle" => sweep.on /\ checks'[i].dev \in Device
               /\ wakes'[i].phase # "idle" => wakes'[i].dev \in Device
               /\ checks'[i].phase = "idle" => ~checks'[i].fresh
               /\ wakes'[i].phase = "idle" => ~wakes'[i].fresh
    BY <1>1 DEF Types, OperationTypes
  <2>3. OperationTypes'
    BY <1>2, <2>1, <2>2 DEF OperationTypes
  <2>4. FreshInv'
    BY <1>1 DEF FreshInv
  <2> QED
    BY <2>3, <2>4
<1>4. InventoryTypes'
  BY ShowListFacts, NewValues DEF Types, InventoryTypes, Free
<1> QED
  BY <1>3, <1>4, ShowListFacts, SameTypes DEF Types

LEMMA LoadingTypes == ASSUME Types, Loading PROVE Types'
<1>1. CASE ReadList
  <2>1. /\ lists # <<>> /\ lists' = Tail(lists)
        /\ inbox' = Append(inbox, [kind |-> "list", own |-> Head(lists), devices |-> store])
        /\ missed' = FALSE /\ UNCHANGED <<store, allocated, command, operations, ambient>>
    BY <1>1 DEF ReadList
  <2>2. lists' \in Seq(BOOLEAN) /\ Head(lists) \in BOOLEAN
    BY <2>1, HeadTailProperties DEF Types, InventoryTypes
  <2>3. [kind |-> "list", own |-> Head(lists), devices |-> store] \in Items
    BY <2>2 DEF Items, Types, InventoryTypes
  <2>4. inbox' \in Seq(Items)
    BY <2>1, <2>3, AppendProperties DEF Types, InventoryTypes
  <2>5. InventoryTypes'
    BY <2>1, <2>2, <2>4 DEF Types, InventoryTypes
  <2> QED
    BY <2>1, <2>5, SameTypes DEF Types
<1>2. CASE ListFails
  <2>1. /\ lists # <<>> /\ lists' = Tail(lists) /\ command' \in {Free, command}
        /\ missed' = TRUE /\ UNCHANGED <<store, allocated, inbox, operations, ambient>>
    BY <1>2 DEF ListFails, EndReload
  <2>2. lists' \in Seq(BOOLEAN)
    BY <2>1, HeadTailProperties DEF Types, InventoryTypes
  <2>3. InventoryTypes'
    BY <2>1, <2>2, NewValues DEF Types, InventoryTypes, Free
  <2> QED
    BY <2>1, <2>3, SameTypes DEF Types
<1> QED
  BY <1>1, <1>2, ShowListTypes DEF Loading

LEMMA InitTypes == Init => Types
<1> SUFFICES ASSUME Init
             PROVE  Types
  OBVIOUS
<1>1. 1 \in Times
  BY ActivityAssumption
<1>2. store \in Devices /\ \A i \in Ids : store[i] # None => Valid(store[i])
  BY ActivityAssumption DEF Init, Devices
<1>3. InventoryTypes
  <2>1. lists \in Seq(BOOLEAN) /\ inbox \in Seq(Items)
    BY EmptySeq DEF Init
  <2>2. allocated \subseteq Ids /\ command \in Commands /\ command.phase = "free" /\ ~missed
    BY NewValues DEF Init, Free
  <2>3. missed \in BOOLEAN
    BY DEF Init
  <2> QED
    BY <1>2, <2>1, <2>2, <2>3 DEF InventoryTypes
<1>4. cards \in [Ids -> Card \cup {None}]
  BY ActivityAssumption, NewValues DEF Init
<1>5. OperationTypes /\ FreshInv
  <2>1. checks \in [Ids -> CheckOp] /\ wakes \in [Ids -> WakeOp]
    BY NewValues DEF Init
  <2> QED
    BY <1>4, <2>1 DEF Init, OperationTypes, FreshInv, Idle, NoWake
<1> QED
  BY <1>1, <1>3, <1>5 DEF Init, Types, AmbientTypes

LEMMA NextTypes == Types /\ [Next]_vars => Types'
<1> SUFFICES ASSUME Types, [Next]_vars
             PROVE  Types'
  OBVIOUS
<1>1. CASE UNCHANGED vars
  <2>1. UNCHANGED <<inventory, operations, ambient>>
    BY <1>1 DEF vars, inventory, operations, ambient
  <2> QED
    BY <2>1, SameTypes DEF Types
<1>2. CASE UserStep
  BY <1>2, CommandTypes, BeginWakeTypes, SweepTypes DEF UserStep
<1> QED
  BY <1>1, <1>2, SweepTypes, LoadingTypes, CheckTypes, WakeTypes DEF Next

LEMMA TypesHold == Spec => []Types
  BY InitTypes, NextTypes, PTL DEF Spec

-----------------------------------------------------------------------------
(* What the steps of a check and of a wake do to their card.                 *)
Answered(card, op, new) ==
    /\ card # None /\ op.saved # None /\ op.saved \in Device
    /\ new.dev = op.saved /\ new.shownFor = StatusTarget(op.dev)
Dimmed(card, new) ==
    /\ card # None /\ new.dev = card.dev /\ new.shownFor = card.shownFor
    /\ new.state \in {"Unknown", "Waking"}

(* An operation ends, or goes on with its own device.                        *)
Advances(op, new) ==
    /\ new.phase # "idle" => op.phase # "idle"
    /\ new.saved # None => /\ new.dev = op.dev
                           /\ \/ new.saved = op.saved
                              \/ StatusTarget(new.saved) = StatusTarget(op.dev)

LEMMA CheckShape ==
    ASSUME Types, NEW i \in Ids, CheckStep(i)
    PROVE  /\ \A j \in Ids \ {i} : cards'[j] = cards[j] /\ checks'[j] = checks[j]
           /\ UNCHANGED <<wakes, sweep, lifetime, allocated, lists, command, missed, witnessed>>
           /\ checks'[i].fresh => checks[i].fresh
           /\ Advances(checks[i], checks'[i])
           /\ \/ cards'[i] = cards[i]
              \/ /\ cards'[i].waking = cards[i].waking /\ cards[i] # None /\ cards'[i] # None
                 /\ Dimmed(cards[i], cards'[i]) \/ Answered(cards[i], checks[i], cards'[i])
<1>1. /\ checks[i] \in CheckOp /\ checks \in [Ids -> CheckOp]
      /\ cards \in [Ids -> Card \cup {None}]
      /\ checks[i].fresh => cards[i] \in Card /\ checks[i].phase # "idle"
      /\ checks[i].phase # "idle" => checks[i].dev \in Device
  BY DEF Types, OperationTypes, FreshInv
<1>2. ASSUME NEW state \in Answers, CheckAnswers(i, state)
      PROVE  /\ UNCHANGED <<cards, wakes, sweep, lifetime, allocated, lists, command, missed,
                            witnessed>>
             /\ \A j \in Ids \ {i} : checks'[j] = checks[j]
             /\ checks'[i].fresh => checks[i].fresh
             /\ Advances(checks[i], checks'[i])
  <2>1. /\ checks' = [checks EXCEPT ![i] =
                         IF @.fresh /\ ~Stopped
                         THEN [@ EXCEPT !.phase = "applying", !.state = state] ELSE Idle]
        /\ UNCHANGED <<inventory, cards, sweep, wakes, ambient, witnessed>>
    BY <1>2 DEF CheckAnswers
  <2>2. CASE checks[i].fresh /\ ~Stopped
    BY <1>1, <2>1, <2>2 DEF CheckOp, inventory, ambient, Advances
  <2>3. CASE ~(checks[i].fresh /\ ~Stopped)
    BY <1>1, <2>1, <2>3 DEF Idle, inventory, ambient, Advances
  <2> QED
    BY <2>2, <2>3
<1>3. CASE CheckFails(i)
  <2>1. /\ checks' = [checks EXCEPT ![i] = Idle]
        /\ cards' \in {cards, [cards EXCEPT ![i] = ShowUnknown(@, checks[i])]}
        /\ UNCHANGED <<inventory, sweep, wakes, ambient, witnessed>>
    BY <1>3 DEF CheckFails
  <2>2. \/ cards'[i] = cards[i]
        \/ /\ cards[i] \in Card /\ cards'[i] = [cards[i] EXCEPT !.state = "Unknown"]
           /\ cards'[i] \in Card
    BY <1>1, <2>1 DEF ShowUnknown, Card, Observable
  <2>3. \/ cards'[i] = cards[i]
        \/ /\ cards'[i].waking = cards[i].waking /\ cards[i] # None /\ cards'[i] # None
           /\ Dimmed(cards[i], cards'[i])
    BY <2>2, NewValues DEF Dimmed, Card
  <2> QED
    BY <1>1, <2>1, <2>3 DEF Idle, inventory, ambient, Advances
<1>4. CASE CommitCheck(i)
  <2>1. /\ checks[i].phase = "applying"
        /\ checks' = [checks EXCEPT ![i] = [@ EXCEPT !.phase = "committed",
                                                     !.saved = Saved(i, checks[i], FALSE)]]
        /\ UNCHANGED <<cards, wakes, allocated, command, lists, missed, sweep, ambient, witnessed>>
    BY <1>4 DEF CommitCheck, Commit, Committed
  <2>2. /\ checks'[i].saved = Saved(i, checks[i], FALSE) /\ checks'[i].dev = checks[i].dev
        /\ checks'[i].fresh = checks[i].fresh
    BY <1>1, <2>1 DEF CheckOp
  <2>3. checks[i].dev \in Device /\ checks[i].at \in Times \cup {0} /\ checks[i].state \in Observable
    BY <1>1, <2>1 DEF CheckOp
  <2>4. store[i] # None => store[i] \in Device
    BY DEF Types, InventoryTypes, Devices
  <2>5. Saved(i, checks[i], FALSE) # None
        => StatusTarget(Saved(i, checks[i], FALSE)) = StatusTarget(checks[i].dev)
    BY <2>4, SavedTarget
  <2>6. Advances(checks[i], checks'[i])
    BY <2>1, <2>2, <2>5 DEF Advances
  <2> QED
    BY <1>1, <2>1, <2>2, <2>6 DEF ambient
<1>5. CASE ResumeCheck(i)
  <2>1. /\ cards' = [cards EXCEPT ![i] = Show(@, checks[i])]
        /\ checks' = [checks EXCEPT ![i] = Idle]
        /\ UNCHANGED <<allocated, command, lists, missed, sweep, wakes, ambient, witnessed>>
    BY <1>5 DEF ResumeCheck
  <2>2. ~checks'[i].fresh /\ Advances(checks[i], checks'[i])
        /\ \A j \in Ids \ {i} : cards'[j] = cards[j] /\ checks'[j] = checks[j]
    BY <1>1, <2>1 DEF Idle, Advances
  <2>3. CASE checks[i].saved = None \/ ~checks[i].fresh
    BY <1>1, <2>1, <2>2, <2>3 DEF Show, ambient
  <2>4. CASE checks[i].saved # None /\ checks[i].fresh
    <3>1. /\ cards'[i] = [cards[i] EXCEPT !.dev = checks[i].saved, !.state = checks[i].state,
                                          !.shownFor = StatusTarget(checks[i].dev)]
          /\ cards[i] \in Card /\ checks[i].saved \in Device /\ cards'[i] = Show(cards[i], checks[i])
      BY <1>1, <2>1, <2>4 DEF Show, CheckOp
    <3>2. cards'[i] # None /\ cards[i] # None
      BY <1>1, <2>4, <3>1, ShowType, NewValues DEF CheckOp
    <3>3. cards'[i].waking = cards[i].waking /\ Answered(cards[i], checks[i], cards'[i])
      BY <2>4, <3>1, <3>2 DEF Answered, Card
    <3> QED
      BY <2>1, <2>2, <3>2, <3>3 DEF ambient
  <2> QED
    BY <2>3, <2>4
<1> QED
  BY <1>2, <1>3, <1>4, <1>5 DEF CheckStep
Kept(card, new) ==
    /\ card # None /\ new.dev = card.dev /\ new.shownFor = card.shownFor
    /\ new.state = card.state

LEMMA EndWakeShape ==
    ASSUME Types, NEW i \in Ids, NEW card \in Card \cup {None}, EndWake(i, card)
    PROVE  /\ \A j \in Ids \ {i} : cards'[j] = cards[j] /\ wakes'[j] = wakes[j]
           /\ wakes'[i].phase = "idle" /\ ~wakes'[i].fresh /\ wakes'[i].saved = None
           /\ card = None => cards'[i] = None
           /\ card # None => /\ cards'[i] # None /\ ~cards'[i].waking
                             /\ cards'[i].dev = card.dev /\ cards'[i].state = card.state
                             /\ cards'[i].shownFor = card.shownFor
<1>1. /\ cards' = [cards EXCEPT ![i] = IF card = None THEN None
                                       ELSE [card EXCEPT !.waking = FALSE]]
      /\ wakes' = [wakes EXCEPT ![i] = NoWake]
      /\ cards \in [Ids -> Card \cup {None}] /\ wakes \in [Ids -> WakeOp]
  BY DEF EndWake, Types, OperationTypes
<1>2. ASSUME card # None
      PROVE  /\ [card EXCEPT !.waking = FALSE] \in Card
             /\ ~[card EXCEPT !.waking = FALSE].waking
             /\ [card EXCEPT !.waking = FALSE].dev = card.dev
             /\ [card EXCEPT !.waking = FALSE].state = card.state
             /\ [card EXCEPT !.waking = FALSE].shownFor = card.shownFor
  BY <1>2 DEF Card
<1> QED
  BY <1>1, <1>2, NewValues DEF NoWake

(* Only the end of the wake takes the mark off its card.                     *)
Marked(card, op, new) ==
    new # None => /\ new.waking => card.waking
                  /\ card.waking /\ op.phase # "idle" => new.waking

LEMMA SameMarked == \A card, op : Marked(card, op, card)
  BY DEF Marked

LEMMA WakeShape ==
    ASSUME Types, NEW i \in Ids, WakeStep(i)
    PROVE  /\ \A j \in Ids \ {i} : cards'[j] = cards[j] /\ wakes'[j] = wakes[j]
           /\ UNCHANGED <<checks, sweep, lifetime, allocated, lists, command, missed>>
           /\ Advances(wakes[i], wakes'[i]) /\ Marked(cards[i], wakes'[i], cards'[i])
           /\ \/ cards'[i] = cards[i]
              \/ /\ cards'[i] # None
                 /\ \/ Kept(cards[i], cards'[i]) \/ Dimmed(cards[i], cards'[i])
                    \/ Answered(cards[i], wakes[i], cards'[i])
<1>1. /\ wakes[i] \in WakeOp /\ wakes \in [Ids -> WakeOp]
      /\ cards \in [Ids -> Card \cup {None}] /\ cards[i] \in Card \cup {None}
      /\ wakes[i].fresh => cards[i] \in Card /\ wakes[i].phase # "idle"
      /\ wakes[i].phase # "idle" => wakes[i].dev \in Device
  BY DEF Types, OperationTypes, FreshInv
<1>2. CASE WakeFindsOnline(i)
  BY <1>1, <1>2, SameMarked DEF WakeFindsOnline, WakeOp, inventory, ambient, Advances
<1>3. ASSUME NEW before \in Answers, WakeSends(i, before)
      PROVE  /\ \A j \in Ids \ {i} : cards'[j] = cards[j] /\ wakes'[j] = wakes[j]
             /\ UNCHANGED <<checks, sweep, lifetime, allocated, lists, command, missed>>
             /\ Advances(wakes[i], wakes'[i]) /\ Marked(cards[i], wakes'[i], cards'[i])
             /\ \/ cards'[i] = cards[i]
                \/ cards'[i] # None /\ Dimmed(cards[i], cards'[i])
  <2>1. /\ wakes' = [wakes EXCEPT ![i].phase = "sent", ![i].before = before]
        /\ wakes[i].phase = "looking"
        /\ cards' = [cards EXCEPT ![i] = IF wakes[i].fresh
                                         THEN [@ EXCEPT !.state = "Waking"] ELSE @]
        /\ UNCHANGED <<inventory, checks, sweep, ambient>>
    BY <1>3 DEF WakeSends
  <2>2. /\ \A j \in Ids \ {i} : cards'[j] = cards[j] /\ wakes'[j] = wakes[j]
        /\ Advances(wakes[i], wakes'[i])
    BY <1>1, <2>1 DEF WakeOp, Advances
  <2>3. CASE wakes[i].fresh
    <3>1. cards'[i] = [cards[i] EXCEPT !.state = "Waking"] /\ cards[i] \in Card
      BY <1>1, <2>1, <2>3
    <3>2. /\ cards'[i] \in Card /\ Dimmed(cards[i], cards'[i])
          /\ Marked(cards[i], wakes'[i], cards'[i])
      BY <3>1, NewValues DEF Card, Dimmed, Marked
    <3> QED
      BY <2>1, <2>2, <3>2, NewValues DEF inventory, ambient
  <2>4. CASE ~wakes[i].fresh
    BY <1>1, <2>1, <2>2, <2>4, SameMarked DEF inventory, ambient
  <2> QED
    BY <2>3, <2>4
<1>4. ASSUME NEW state \in Answers, NEW at \in Times, WakeOutcome(i, state, at)
      PROVE  /\ UNCHANGED <<cards, checks, sweep, lifetime, allocated, lists, command, missed>>
             /\ \A j \in Ids \ {i} : wakes'[j] = wakes[j]
             /\ Advances(wakes[i], wakes'[i]) /\ Marked(cards[i], wakes'[i], cards'[i])
  BY <1>1, <1>4, SameMarked DEF WakeOutcome, WakeOp, inventory, ambient, Advances, Marked
<1>5. CASE WakeAborts(i)
  <2>1. /\ EndWake(i, ShowUnknown(cards[i], wakes[i])) /\ wakes[i].phase # "idle"
        /\ UNCHANGED <<inventory, checks, sweep, ambient>>
    BY <1>5 DEF WakeAborts
  <2>2. CASE wakes[i].fresh
    <3>1. ShowUnknown(cards[i], wakes[i]) = [cards[i] EXCEPT !.state = "Unknown"]
          /\ cards[i] \in Card
      BY <1>1, <2>2 DEF ShowUnknown
    <3>2. /\ ShowUnknown(cards[i], wakes[i]) \in Card
          /\ Dimmed(cards[i], ShowUnknown(cards[i], wakes[i]))
      BY <3>1, NewValues DEF Card, Observable, Dimmed
    <3>3. cards'[i] # None /\ Dimmed(cards[i], cards'[i])
      BY <2>1, <3>2, EndWakeShape, NewValues DEF Dimmed
    <3> QED
      BY <2>1, <3>2, <3>3, EndWakeShape DEF inventory, ambient, Advances, Marked
  <2>3. CASE ~wakes[i].fresh
    <3>1. ShowUnknown(cards[i], wakes[i]) = cards[i]
      BY <2>3 DEF ShowUnknown
    <3>2. cards'[i] = cards[i] \/ (cards'[i] # None /\ Kept(cards[i], cards'[i]))
      BY <1>1, <2>1, <3>1, EndWakeShape DEF Kept
    <3> QED
      BY <1>1, <2>1, <3>1, <3>2, EndWakeShape DEF inventory, ambient, Advances, Marked
  <2> QED
    BY <2>2, <2>3
<1>6. CASE CommitWake(i)
  <2>1. /\ wakes[i].phase = "applying"
        /\ wakes' = [wakes EXCEPT ![i] = [@ EXCEPT !.phase = "committed",
                                   !.saved = Saved(i, wakes[i], wakes[i].verified)]]
        /\ UNCHANGED <<cards, checks, allocated, command, lists, missed, sweep, ambient>>
    BY <1>6 DEF CommitWake, Commit, Committed
  <2>2. /\ wakes'[i].saved = Saved(i, wakes[i], wakes[i].verified)
        /\ wakes'[i].dev = wakes[i].dev
    BY <1>1, <2>1 DEF WakeOp
  <2>3. store[i] # None => store[i] \in Device
    BY DEF Types, InventoryTypes, Devices
  <2>4. Saved(i, wakes[i], wakes[i].verified) # None
        => StatusTarget(Saved(i, wakes[i], wakes[i].verified)) = StatusTarget(wakes[i].dev)
    BY <2>3, SavedTarget
  <2>5. Advances(wakes[i], wakes'[i])
    BY <2>1, <2>2, <2>4 DEF Advances
  <2> QED
    BY <1>1, <2>1, <2>5, SameMarked DEF ambient
<1>7. CASE ResumeWake(i)
  <2>1. EndWake(i, Show(cards[i], wakes[i]))
        /\ UNCHANGED <<allocated, command, lists, missed, checks, sweep, ambient>>
    BY <1>7 DEF ResumeWake
  <2>2. CASE wakes[i].saved = None \/ ~wakes[i].fresh
    <3>1. Show(cards[i], wakes[i]) = cards[i]
      BY <2>2 DEF Show
    <3>2. cards'[i] = cards[i] \/ (cards'[i] # None /\ Kept(cards[i], cards'[i]))
      BY <1>1, <2>1, <3>1, EndWakeShape DEF Kept
    <3> QED
      BY <1>1, <2>1, <3>1, <3>2, EndWakeShape DEF ambient, Advances, Marked
  <2>3. CASE wakes[i].saved # None /\ wakes[i].fresh
    <3>1. /\ Show(cards[i], wakes[i]) =
               [cards[i] EXCEPT !.dev = wakes[i].saved, !.state = wakes[i].state,
                                !.shownFor = StatusTarget(wakes[i].dev)]
          /\ cards[i] \in Card /\ wakes[i].saved \in Device
          /\ Show(cards[i], wakes[i]) \in Card
      BY <1>1, <2>3, ShowType DEF Show, WakeOp
    <3>2. Answered(cards[i], wakes[i], Show(cards[i], wakes[i]))
      BY <2>3, <3>1, NewValues DEF Answered, Card
    <3>3. cards'[i] # None /\ Answered(cards[i], wakes[i], cards'[i])
      BY <2>1, <3>1, <3>2, EndWakeShape, NewValues DEF Answered
    <3> QED
      BY <2>1, <3>1, <3>3, EndWakeShape DEF ambient, Advances, Marked
  <2> QED
    BY <2>2, <2>3
<1> QED
  BY <1>2, <1>3, <1>4, <1>5, <1>6, <1>7 DEF WakeStep
-----------------------------------------------------------------------------
(* What a card shows, and what an operation brings to it, is of one target.  *)
ShownAt(i) ==
    /\ checks[i].saved # None => StatusTarget(checks[i].saved) = StatusTarget(checks[i].dev)
    /\ wakes[i].saved # None => StatusTarget(wakes[i].saved) = StatusTarget(wakes[i].dev)
    /\ cards[i] # None /\ cards[i].state \in {"Online", "Offline"}
       => cards[i].shownFor = StatusTarget(cards[i].dev)
ShownInv == \A i \in Ids : ShownAt(i)

LEMMA SameShown ==
    ASSUME NEW i \in Ids, ShownAt(i),
           cards'[i] = cards[i], checks'[i] = checks[i], wakes'[i] = wakes[i]
    PROVE  ShownAt(i)'
  BY DEF ShownAt

LEMMA StepShown ==
    ASSUME ShownInv, NEW i \in Ids, NEW op, op \in {checks[i], wakes[i]},
           Advances(checks[i], checks'[i]), Advances(wakes[i], wakes'[i]),
           \/ cards'[i] = cards[i]
           \/ Kept(cards[i], cards'[i]) \/ Dimmed(cards[i], cards'[i])
           \/ Answered(cards[i], op, cards'[i])
    PROVE  ShownAt(i)'
<1>1. /\ checks'[i].saved # None => StatusTarget(checks'[i].saved) = StatusTarget(checks'[i].dev)
      /\ wakes'[i].saved # None => StatusTarget(wakes'[i].saved) = StatusTarget(wakes'[i].dev)
  BY DEF ShownInv, ShownAt, Advances
<1>2. cards'[i] # None /\ cards'[i].state \in {"Online", "Offline"}
      => cards'[i].shownFor = StatusTarget(cards'[i].dev)
  <2>1. op.saved # None => StatusTarget(op.saved) = StatusTarget(op.dev)
    BY DEF ShownInv, ShownAt
  <2> QED
    BY <2>1 DEF ShownInv, ShownAt, Kept, Dimmed, Answered
<1> QED
  BY <1>1, <1>2 DEF ShownAt

LEMMA SameAdvances == \A op : Advances(op, op)
  BY DEF Advances

LEMMA OperationsShown ==
    ASSUME Types, ShownInv, NEW i \in Ids, CheckStep(i) \/ WakeStep(i)
    PROVE  ShownInv'
<1>1. CASE CheckStep(i)
  <2>1. ShownAt(i)'
    <3>1. /\ Advances(checks[i], checks'[i]) /\ wakes'[i] = wakes[i]
          /\ \/ cards'[i] = cards[i] \/ Dimmed(cards[i], cards'[i])
             \/ Answered(cards[i], checks[i], cards'[i])
      BY <1>1, CheckShape
    <3> QED
      BY <3>1, StepShown, SameAdvances
  <2> QED
    BY <1>1, <2>1, CheckShape, SameShown DEF ShownInv
<1>2. CASE WakeStep(i)
  <2>1. ShownAt(i)'
    <3>1. /\ Advances(wakes[i], wakes'[i]) /\ checks'[i] = checks[i]
          /\ \/ cards'[i] = cards[i] \/ Dimmed(cards[i], cards'[i])
             \/ Kept(cards[i], cards'[i]) \/ Answered(cards[i], wakes[i], cards'[i])
      BY <1>2, WakeShape
    <3> QED
      BY <3>1, StepShown, SameAdvances
  <2> QED
    BY <1>2, <2>1, WakeShape, SameShown DEF ShownInv
<1> QED
  BY <1>1, <1>2

LEMMA BatchShown == ASSUME Types, ShownInv, StartBatch PROVE ShownInv'
<1>1. PICK batch \in SUBSET sweep.pending :
        checks' = [i \in Ids |->
             IF i \in batch /\ Probes(i)
             THEN [Idle EXCEPT !.phase = "probing", !.dev = Copy(cards[i].dev),
                               !.fresh = TRUE, !.at = now]
             ELSE checks[i]]
  BY DEF StartBatch
<1>2. UNCHANGED <<cards, wakes>>
  BY DEF StartBatch
<1>3. ASSUME NEW i \in Ids PROVE ShownAt(i)'
  <2>1. CASE i \in batch /\ Probes(i)
    <3>1. checks'[i].saved = None
      BY <1>1, <2>1 DEF Idle
    <3> QED
      BY <1>2, <3>1 DEF ShownInv, ShownAt
  <2>2. CASE ~(i \in batch /\ Probes(i))
    BY <1>1, <1>2, <2>2, SameShown DEF ShownInv
  <2> QED
    BY <2>1, <2>2
<1> QED
  BY <1>3 DEF ShownInv

LEMMA BeginWakeShown ==
    ASSUME Types, ShownInv, NEW i \in Ids, BeginWake(i) \/ CancelWake(i)
    PROVE  ShownInv'
<1>1. /\ wakes[i] \in WakeOp /\ checks \in [Ids -> CheckOp] /\ wakes \in [Ids -> WakeOp]
      /\ cards \in [Ids -> Card \cup {None}] /\ checks[i] \in CheckOp
  BY DEF Types, OperationTypes
<1>2. CASE BeginWake(i)
  <2>1. /\ cards[i] # None /\ cards' = [cards EXCEPT ![i].waking = TRUE, ![i].state = "Unknown"]
        /\ checks' = [checks EXCEPT ![i].fresh = FALSE]
        /\ wakes' = [wakes EXCEPT ![i] = [NoWake EXCEPT !.phase = "looking", !.fresh = TRUE,
                                             !.dev = Copy(cards[i].dev), !.at = now]]
    BY <1>2 DEF BeginWake
  <2>2. cards'[i].state = "Unknown"
    <3>1. cards[i] \in Card /\ cards'[i] = [cards[i] EXCEPT !.waking = TRUE, !.state = "Unknown"]
      BY <1>1, <2>1
    <3> QED
      BY <3>1 DEF Card
  <2>3. /\ wakes'[i].saved = None
        /\ checks'[i].saved = checks[i].saved /\ checks'[i].dev = checks[i].dev
    BY <1>1, <2>1 DEF NoWake, CheckOp
  <2>4. ShownAt(i)'
    BY <2>2, <2>3 DEF ShownInv, ShownAt
  <2>5. \A j \in Ids \ {i} : cards'[j] = cards[j] /\ checks'[j] = checks[j] /\ wakes'[j] = wakes[j]
    BY <1>1, <2>1
  <2> QED
    BY <2>4, <2>5, SameShown DEF ShownInv
<1>3. CASE CancelWake(i)
  <2>1. wakes' = [wakes EXCEPT ![i].cancelled = TRUE] /\ UNCHANGED <<cards, checks>>
    BY <1>3 DEF CancelWake
  <2>2. /\ wakes'[i].saved = wakes[i].saved /\ wakes'[i].dev = wakes[i].dev
        /\ \A j \in Ids \ {i} : wakes'[j] = wakes[j]
    BY <1>1, <2>1 DEF WakeOp
  <2> QED
    BY <2>1, <2>2 DEF ShownInv, ShownAt
<1> QED
  BY <1>2, <1>3

(* A reload that leaves the target alone keeps what the card shows; one that *)
(* changes it resets the card.                                               *)
LEMMA ListShown == ASSUME Types, ShownInv, ShowList PROVE ShownInv'
<1> DEFINE devices == Head(inbox).devices
<1>1. ASSUME NEW i \in Ids PROVE ShownAt(i)'
  <2>1. /\ ShownAs(devices, i) /\ checks[i] \in CheckOp /\ wakes[i] \in WakeOp
        /\ cards[i] \in Card \cup {None} /\ devices[i] \in Device \cup {None}
    BY ShowListFacts DEF Types, OperationTypes, Devices
  <2>2. /\ checks'[i].saved = checks[i].saved /\ checks'[i].dev = checks[i].dev
        /\ wakes'[i].saved = wakes[i].saved /\ wakes'[i].dev = wakes[i].dev
    BY <2>1, ShownKeeps
  <2>3. cards'[i] = Synchronized(cards[i], devices[i])
    BY <2>1 DEF ShownAs
  <2>4. CASE devices[i] = None
    BY <2>2, <2>3, <2>4 DEF ShownInv, ShownAt, Synchronized
  <2>5. CASE devices[i] # None /\ cards[i] = None
    <3>1. cards'[i] = NewCard(devices[i])
      BY <2>3, <2>5 DEF Synchronized
    <3> QED
      BY <2>2, <3>1 DEF ShownInv, ShownAt, NewCard
  <2>6. CASE devices[i] # None /\ cards[i] # None /\ Resets(cards[i], devices[i])
    <3>1. cards'[i] = [cards[i] EXCEPT !.dev = devices[i], !.state = "Unknown"]
      BY <2>3, <2>6 DEF Synchronized
    <3>2. cards'[i].state = "Unknown"
      BY <2>1, <2>6, <3>1 DEF Card
    <3> QED
      BY <2>2, <3>2 DEF ShownInv, ShownAt
  <2>7. CASE devices[i] # None /\ cards[i] # None /\ ~Resets(cards[i], devices[i])
    <3>1. cards'[i] = [cards[i] EXCEPT !.dev = devices[i]]
      BY <2>3, <2>7 DEF Synchronized
    <3>2. /\ cards'[i].dev = devices[i] /\ cards'[i].state = cards[i].state
          /\ cards'[i].shownFor = cards[i].shownFor
      BY <2>1, <2>7, <3>1 DEF Card
    <3>3. StatusTarget(devices[i]) = StatusTarget(cards[i].dev)
      BY <2>7 DEF Resets, SameWake, WakeTarget
    <3> QED
      BY <2>2, <2>7, <3>2, <3>3 DEF ShownInv, ShownAt
  <2> QED
    BY <2>4, <2>5, <2>6, <2>7
<1> QED
  BY <1>1 DEF ShownInv

LEMMA InitShown == ASSUME Init PROVE ShownInv
<1>1. ASSUME NEW i \in Ids PROVE ShownAt(i)
  <2>1. checks[i].saved = None /\ wakes[i].saved = None
    BY DEF Init, Idle, NoWake
  <2>2. cards[i] # None => cards[i].state = "Unknown"
    BY DEF Init, NewCard
  <2> QED
    BY <2>1, <2>2 DEF ShownAt
<1> QED
  BY <1>1 DEF ShownInv

LEMMA NextShown == ASSUME Types, ShownInv, [Next]_vars PROVE ShownInv'
<1>1. CASE UNCHANGED <<cards, checks, wakes>>
  BY <1>1 DEF ShownInv, ShownAt
<1>2. UNCHANGED vars \/ Tick \/ StartSweep \/ EndSweep \/ StopDone \/ Stop \/ ReadList
      \/ ListFails => UNCHANGED <<cards, checks, wakes>>
  BY DEF vars, Tick, StartSweep, EndSweep, StopDone, Stop, ReadList, ListFails, operations
<1>3. ASSUME \/ Refresh \/ CloseEditor
             \/ \E i \in Ids : OpenEditor(i) \/ DeleteDevice(i)
             \/ \E form \in Forms : SaveEdit(form)
             \/ \E i \in Ids, found \in Discoveries, form \in Forms :
                  DiscoverDevice(i, found, form)
      PROVE  UNCHANGED <<cards, checks, wakes>>
  BY <1>3 DEF Refresh, CloseEditor, OpenEditor, DeleteDevice, SaveEdit, DiscoverDevice, operations
<1>4. CASE UserStep
  BY <1>1, <1>2, <1>3, <1>4, BeginWakeShown DEF UserStep
<1>5. CASE Sweeping \/ Loading
  BY <1>1, <1>2, <1>5, BatchShown, ListShown DEF Sweeping, Loading
<1> QED
  BY <1>1, <1>2, <1>4, <1>5, OperationsShown DEF Next

(* A card shows Online or Offline only as the answer of a check of the       *)
(* target it has now: the transaction accepts only an answer about the       *)
(* stored target, and a reload that changes the target resets the card.      *)
THEOREM ShownIsCurrent == Spec => []StaleNeverShown
<1>1. Init => Types /\ ShownInv
  BY InitTypes, InitShown
<1>2. Types /\ ShownInv /\ [Next]_vars => (Types /\ ShownInv)'
  BY NextTypes, NextShown
<1>3. ShownInv => StaleNeverShown
  BY DEF ShownInv, ShownAt, StaleNeverShown
<1> QED
  BY <1>1, <1>2, <1>3, PTL DEF Spec

-----------------------------------------------------------------------------
(* The list of StopAsync has every sweep and wake that runs.                 *)
ListedInv ==
    /\ enlisted \in [sweep: BOOLEAN, wakes: SUBSET Ids]
    /\ sweep.on => enlisted.sweep
    /\ \A i \in Ids : wakes[i].phase # "idle" => i \in enlisted.wakes

LEMMA EndWakeListed ==
    ASSUME Types, ListedInv, NEW i \in Ids, NEW card, EndWake(i, card), UNCHANGED sweep
    PROVE  ListedInv'
<1>1. /\ wakes' = [wakes EXCEPT ![i] = NoWake]
      /\ enlisted' = [enlisted EXCEPT !.wakes = @ \ {i}]
  BY DEF EndWake
<1>2. enlisted' \in [sweep: BOOLEAN, wakes: SUBSET Ids] /\ enlisted'.sweep = enlisted.sweep
      /\ enlisted'.wakes = enlisted.wakes \ {i}
  BY <1>1 DEF ListedInv
<1>3. wakes'[i].phase = "idle" /\ \A j \in Ids \ {i} : wakes'[j] = wakes[j]
  BY <1>1 DEF NoWake, Types, OperationTypes
<1> QED
  BY <1>2, <1>3 DEF ListedInv

LEMMA NextListed == ASSUME Types, ListedInv, [Next]_vars PROVE ListedInv'
<1>1. CASE UNCHANGED <<sweep, wakes, enlisted>>
  BY <1>1 DEF ListedInv
<1>2. ASSUME \/ UNCHANGED vars \/ Tick \/ Stop \/ StopDone \/ ReadList \/ ListFails
             \/ Refresh \/ CloseEditor
             \/ \E i \in Ids : OpenEditor(i) \/ DeleteDevice(i)
             \/ \E form \in Forms : SaveEdit(form)
             \/ \E i \in Ids, found \in Discoveries, form \in Forms :
                  DiscoverDevice(i, found, form)
      PROVE  UNCHANGED <<sweep, wakes, enlisted>>
  BY <1>2 DEF vars, Tick, Stop, StopDone, ReadList, ListFails, Refresh, CloseEditor, OpenEditor,
              DeleteDevice, SaveEdit, DiscoverDevice, operations
<1>3. CASE StartSweep
  <2>1. enlisted' = [enlisted EXCEPT !.sweep = TRUE] /\ UNCHANGED wakes
    BY <1>3 DEF StartSweep
  <2> QED
    BY <2>1 DEF ListedInv
<1>4. CASE EndSweep
  <2>1. /\ sweep' = [on |-> FALSE, pending |-> {}] /\ UNCHANGED wakes
        /\ enlisted' = [enlisted EXCEPT !.sweep = FALSE]
    BY <1>4 DEF EndSweep
  <2> QED
    BY <2>1 DEF ListedInv
<1>5. CASE StartBatch
  <2>1. sweep.on /\ sweep'.on = sweep.on /\ UNCHANGED <<wakes, enlisted>>
    BY <1>5 DEF StartBatch, Types, OperationTypes
  <2> QED
    BY <2>1 DEF ListedInv
<1>6. ASSUME NEW i \in Ids, CheckStep(i) PROVE ListedInv'
  <2>1. UNCHANGED <<sweep, wakes, enlisted>>
    BY <1>6 DEF CheckStep, CheckAnswers, CheckFails, CommitCheck, Commit, ResumeCheck
  <2> QED
    BY <2>1, <1>1
<1>7. ASSUME NEW i \in Ids, WakeAborts(i) \/ ResumeWake(i) PROVE ListedInv'
  <2>1. UNCHANGED sweep /\ \E card : EndWake(i, card)
    BY <1>7 DEF WakeAborts, ResumeWake
  <2> QED
    BY <2>1, EndWakeListed
<1>8. ASSUME NEW i \in Ids, WakeStep(i) \/ CancelWake(i), ~(WakeAborts(i) \/ ResumeWake(i))
      PROVE  ListedInv'
  <2>1. UNCHANGED <<sweep, enlisted>>
    BY <1>8 DEF WakeStep, WakeFindsOnline, WakeSends, WakeOutcome, CommitWake, Commit, CancelWake
  <2>2. wakes'[i].phase # "idle" => wakes[i].phase # "idle"
    <3>1. CASE CancelWake(i)
      BY <3>1 DEF CancelWake
    <3>2. CASE WakeStep(i)
      BY <3>2, WakeShape DEF Advances
    <3> QED
      BY <1>8, <3>1, <3>2
  <2>3. \A j \in Ids \ {i} : wakes'[j] = wakes[j]
    <3>1. CASE CancelWake(i)
      BY <3>1 DEF CancelWake, Types, OperationTypes
    <3>2. CASE WakeStep(i)
      BY <3>2, WakeShape
    <3> QED
      BY <1>8, <3>1, <3>2
  <2> QED
    BY <2>1, <2>2, <2>3 DEF ListedInv
<1>9. ASSUME NEW i \in Ids, BeginWake(i) PROVE ListedInv'
  <2>1. /\ enlisted' = [enlisted EXCEPT !.wakes = @ \cup {i}] /\ UNCHANGED sweep
    BY <1>9 DEF BeginWake, Enlist
  <2>2. \A j \in Ids \ {i} : wakes'[j] = wakes[j]
    BY <1>9 DEF BeginWake, Types, OperationTypes
  <2> QED
    BY <2>1, <2>2 DEF ListedInv
<1>10. CASE ShowList
  <2>1. UNCHANGED <<sweep, enlisted>> /\ \A i \in Ids : ShownAs(Head(inbox).devices, i)
    BY <1>10, ShowListFacts DEF ShowList
  <2>2. ASSUME NEW i \in Ids
        PROVE  wakes'[i].phase = wakes[i].phase
    <3>1. checks[i] \in CheckOp /\ wakes[i] \in WakeOp
      BY DEF Types, OperationTypes
    <3> QED
      BY <2>1, <3>1, ShownKeeps
  <2> QED
    BY <2>1, <2>2 DEF ListedInv
<1> QED
  BY <1>1, <1>2, <1>3, <1>4, <1>5, <1>6, <1>7, <1>8, <1>9, <1>10
     DEF Next, Sweeping, Loading, UserStep

LEMMA ListedHolds == Spec => []ListedInv
<1>1. Init => ListedInv
  BY DEF Init, ListedInv, NoWake
<1>2. Types /\ ListedInv /\ [Next]_vars => ListedInv'
  BY NextListed
<1> QED
  BY <1>1, <1>2, TypesHold, PTL DEF Spec

(* The variables of the live inventory keep their types, every stored device *)
(* is valid, and a check never outlives its sweep.                           *)
THEOREM TypeCorrect == Spec => []TypeOK
<1>1. Types /\ ListedInv => TypeOK
  <2> SUFFICES ASSUME Types, ListedInv
               PROVE  TypeOK
    OBVIOUS
  <2>1. \A k \in DOMAIN inbox : inbox[k].kind \in {"check", "wake", "list"}
    <3>1. \A x \in Items : x.kind \in {"check", "wake", "list"}
      BY DEF Items
    <3> QED
      BY <3>1 DEF Types, InventoryTypes
  <2>2. \A i \in Ids : /\ checks[i].phase \in {"idle", "probing", "applying", "committed"}
                       /\ wakes[i].phase \in {"idle", "looking", "sent", "applying", "committed"}
    BY DEF Types, OperationTypes, CheckOp, WakeOp
  <2>3. command.phase \in {"free", "editing", "listing"}
    BY DEF Types, InventoryTypes, Commands
  <2> QED
    BY <2>1, <2>2, <2>3 DEF Types, InventoryTypes, OperationTypes, AmbientTypes, ListedInv, TypeOK,
                             Devices
<1> QED
  BY <1>1, TypesHold, ListedHolds, PTL

LEMMA NextDrained ==
    ASSUME Types, ListedInv, DrainedIsQuiet, [Next]_vars
    PROVE  DrainedIsQuiet'
<1>1. \A i \in Ids : checks[i].phase # "idle" => sweep.on
  BY DEF Types, OperationTypes
<1>2. CASE UNCHANGED <<sweep, checks, wakes, lifetime>>
  BY <1>2 DEF DrainedIsQuiet
<1>3. UNCHANGED vars \/ Tick \/ ReadList \/ ListFails => UNCHANGED <<sweep, checks, wakes, lifetime>>
  BY DEF vars, Tick, ReadList, ListFails, operations, ambient
<1>4. ASSUME \/ Refresh \/ CloseEditor
             \/ \E i \in Ids : OpenEditor(i) \/ DeleteDevice(i)
             \/ \E form \in Forms : SaveEdit(form)
             \/ \E i \in Ids, found \in Discoveries, form \in Forms :
                  DiscoverDevice(i, found, form)
      PROVE  UNCHANGED <<sweep, checks, wakes, lifetime>>
  BY <1>4 DEF Refresh, CloseEditor, OpenEditor, DeleteDevice, SaveEdit, DiscoverDevice,
              operations, ambient
<1>5. CASE StartSweep \/ StartBatch \/ \E i \in Ids : BeginWake(i)
  BY <1>5 DEF StartSweep, StartBatch, BeginWake, Stopped, ambient, DrainedIsQuiet
<1>6. CASE EndSweep
  BY <1>6 DEF EndSweep, Probing, ambient, DrainedIsQuiet
<1>7. CASE Stop
  BY <1>7 DEF Stop, DrainedIsQuiet
<1>8. CASE StopDone
  BY <1>1, <1>8 DEF StopDone, ListedInv, DrainedIsQuiet
<1>9. ASSUME NEW i \in Ids, CancelWake(i) PROVE DrainedIsQuiet'
  <2>1. wakes[i].phase # "idle" /\ UNCHANGED lifetime
    BY <1>9 DEF CancelWake, ambient
  <2> QED
    BY <2>1 DEF DrainedIsQuiet
<1>10. ASSUME NEW i \in Ids, CheckStep(i) \/ WakeStep(i) PROVE DrainedIsQuiet'
  <2>1. /\ UNCHANGED <<sweep, lifetime>>
        /\ Advances(checks[i], checks'[i]) /\ Advances(wakes[i], wakes'[i])
        /\ \A j \in Ids \ {i} : checks'[j] = checks[j] /\ wakes'[j] = wakes[j]
    BY <1>10, CheckShape, WakeShape, SameAdvances
  <2>2. checks'[i].phase # "idle" => checks[i].phase # "idle"
    BY <2>1 DEF Advances
  <2>3. wakes'[i].phase # "idle" => wakes[i].phase # "idle"
    BY <2>1 DEF Advances
  <2> QED
    BY <2>1, <2>2, <2>3 DEF DrainedIsQuiet
<1>11. CASE ShowList
  <2>1. UNCHANGED <<sweep, ambient>> /\ \A i \in Ids : ShownAs(Head(inbox).devices, i)
    BY <1>11, ShowListFacts
  <2>2. ASSUME NEW i \in Ids
        PROVE  checks'[i].phase = checks[i].phase /\ wakes'[i].phase = wakes[i].phase
    <3>1. checks[i] \in CheckOp /\ wakes[i] \in WakeOp
      BY DEF Types, OperationTypes
    <3> QED
      BY <2>1, <3>1, ShownKeeps
  <2> QED
    BY <2>1, <2>2 DEF DrainedIsQuiet, ambient
<1> QED
  BY <1>2, <1>3, <1>4, <1>5, <1>6, <1>7, <1>8, <1>9, <1>10, <1>11
     DEF Next, Sweeping, Loading, UserStep

(* When StopAsync returns, no sweep, check or wake is left, as each that     *)
(* runs is on the list it waits for, and none begins later, as each          *)
(* beginning looks at the token that was cancelled before.                   *)
THEOREM StopLeavesNothing == Spec => []DrainedIsQuiet
<1>1. Init => Types /\ DrainedIsQuiet
  BY InitTypes DEF Init, DrainedIsQuiet
<1>2. Types /\ ListedInv /\ DrainedIsQuiet /\ [Next]_vars => (Types /\ DrainedIsQuiet)'
  BY NextTypes, NextDrained
<1> QED
  BY <1>1, <1>2, ListedHolds, PTL DEF Spec
-----------------------------------------------------------------------------
(* While no reload fails: which devices the cards, the lists on their way    *)
(* and the store know of.  An id is never used again, so what was dropped    *)
(* once is gone for good, and an editor is open only on what is stored.      *)
Lists(x, i) == x.kind = "list" /\ x.devices[i] # None
Drops(x, i) == x.kind = "list" /\ x.devices[i] = None
OwnList(x) == x.kind = "list" /\ x.own

(* At most one reload of the command is on its way, and only while it waits. *)
OneReload ==
    /\ \A k \in 1..Len(lists) : lists[k] =>
          /\ command.phase = "listing"
          /\ \A m \in 1..Len(lists) : lists[m] => m = k
          /\ \A m \in 1..Len(inbox) : ~OwnList(inbox[m])
    /\ \A k \in 1..Len(inbox) : OwnList(inbox[k]) =>
          /\ command.phase = "listing"
          /\ \A m \in 1..Len(inbox) : OwnList(inbox[m]) => m = k

EditorInv ==
    command.phase = "editing" =>
        \/ store[command.id] # None
        \/ command.id \notin allocated /\ command.original = NewDevice

Known(i) ==
    \/ cards[i] # None \/ store[i] # None \/ \E k \in 1..Len(inbox) : Lists(inbox[k], i)
    => i \in allocated

(* What was there and is missing from a list is missing from all later ones. *)
Earlier(i, k) == cards[i] # None \/ \E m \in 1..k : Lists(inbox[m], i)
Convex(i) ==
    \A k \in 1..Len(inbox) : Drops(inbox[k], i) /\ Earlier(i, k) =>
        store[i] = None /\ \A n \in k..Len(inbox) : ~Lists(inbox[n], i)

(* A deleted device has no card, or the reload of the command that deleted   *)
(* it is still to drop its card.                                             *)
Settled(i) == cards[i] = None /\ \A k \in 1..Len(inbox) : ~Lists(inbox[k], i)
Reported(i) == \E k \in 1..Len(inbox) :
                  OwnList(inbox[k]) /\ \A m \in k..Len(inbox) : ~Lists(inbox[m], i)
Deleted(i) ==
    i \in allocated /\ store[i] = None =>
        \/ Settled(i)
        \/ command.phase = "listing" /\ ((\E k \in 1..Len(lists) : lists[k]) \/ Reported(i))

PresenceAt(i) == Known(i) /\ Convex(i) /\ Deleted(i)
PresenceInv == OneReload /\ EditorInv /\ \A i \in Ids : PresenceAt(i)

LEMMA InboxTail ==
    ASSUME inbox \in Seq(Items), inbox # <<>>, inbox' = Tail(inbox)
    PROVE  /\ Len(inbox) \in Nat /\ Len(inbox) >= 1 /\ Len(inbox') = Len(inbox) - 1
           /\ inbox[1] = Head(inbox) /\ 1 \in 1..Len(inbox)
           /\ \A k \in 1..Len(inbox') : inbox'[k] = inbox[k + 1] /\ k + 1 \in 1..Len(inbox)
           /\ \A k \in 1..Len(inbox) : k = 1 \/ (k - 1 \in 1..Len(inbox')
                                                 /\ inbox[k] = inbox'[k - 1])
<1>1. /\ Len(inbox) \in Nat /\ Len(inbox) >= 1 /\ Len(inbox') = Len(inbox) - 1
      /\ inbox[1] = Head(inbox)
      /\ \A k \in 1..Len(inbox') : inbox'[k] = inbox[k + 1]
  BY HeadTailProperties, EmptySeq
<1>2. 1 \in 1..Len(inbox) /\ \A k \in 1..Len(inbox') : k + 1 \in 1..Len(inbox)
  BY <1>1
<1>3. ASSUME NEW k \in 1..Len(inbox), k # 1
      PROVE  k - 1 \in 1..Len(inbox') /\ inbox[k] = inbox'[k - 1]
  <2>1. k - 1 \in 1..Len(inbox') /\ (k - 1) + 1 = k
    BY <1>1, <1>3
  <2> QED
    BY <1>1, <2>1
<1> QED
  BY <1>1, <1>2, <1>3

LEMMA InboxAppend ==
    ASSUME inbox \in Seq(Items), NEW x \in Items, inbox' = Append(inbox, x)
    PROVE  /\ Len(inbox) \in Nat /\ Len(inbox') = Len(inbox) + 1 /\ inbox'[Len(inbox')] = x
           /\ \A k \in 1..Len(inbox) : inbox'[k] = inbox[k]
           /\ \A k \in 1..Len(inbox') : k = Len(inbox') \/ (k \in 1..Len(inbox)
                                                            /\ inbox'[k] = inbox[k])
<1>1. /\ Len(inbox) \in Nat /\ Len(inbox') = Len(inbox) + 1 /\ inbox'[Len(inbox')] = x
      /\ \A k \in 1..Len(inbox) : inbox'[k] = inbox[k]
  BY AppendProperties
<1> QED
  BY <1>1

LEMMA ListsAppend ==
    ASSUME lists \in Seq(BOOLEAN), NEW own \in BOOLEAN, lists' = Append(lists, own)
    PROVE  /\ Len(lists) \in Nat /\ Len(lists') = Len(lists) + 1 /\ lists'[Len(lists')] = own
           /\ \A k \in 1..Len(lists) : lists'[k] = lists[k]
           /\ \A k \in 1..Len(lists') : k = Len(lists') \/ (k \in 1..Len(lists)
                                                            /\ lists'[k] = lists[k])
<1>1. /\ Len(lists) \in Nat /\ Len(lists') = Len(lists) + 1 /\ lists'[Len(lists')] = own
      /\ \A k \in 1..Len(lists) : lists'[k] = lists[k]
  BY AppendProperties
<1> QED
  BY <1>1

(* A step that adds, drops and lists no device.                              *)
Quiet ==
    /\ \A i \in Ids : /\ store'[i] = None <=> store[i] = None
                      /\ cards'[i] = None <=> cards[i] = None
    /\ UNCHANGED <<allocated, lists>>
    /\ \/ UNCHANGED inbox
       \/ \E x \in Items : x.kind # "list" /\ inbox' = Append(inbox, x)
       \/ inbox # <<>> /\ Head(inbox).kind # "list" /\ inbox' = Tail(inbox)

LEMMA QuietPresence ==
    ASSUME Types, PresenceInv, Quiet, UNCHANGED command
    PROVE  PresenceInv'
<1>0. inbox \in Seq(Items) /\ Len(inbox) \in Nat
  BY LenProperties DEF Types, InventoryTypes
<1>1. CASE UNCHANGED inbox
  BY <1>1 DEF Quiet, PresenceInv, PresenceAt, OneReload, EditorInv, Known, Convex, Deleted,
              Earlier, Settled, Reported, Types, InventoryTypes
<1>2. ASSUME NEW x \in Items, x.kind # "list", inbox' = Append(inbox, x) PROVE PresenceInv'
  <2>1. /\ Len(inbox') = Len(inbox) + 1 /\ \A i \in Ids : ~Lists(inbox'[Len(inbox')], i)
        /\ \A i \in Ids : ~Drops(inbox'[Len(inbox')], i)
        /\ ~OwnList(inbox'[Len(inbox')])
        /\ \A k \in 1..Len(inbox) : inbox'[k] = inbox[k]
        /\ \A k \in 1..Len(inbox') : k = Len(inbox') \/ (k \in 1..Len(inbox)
                                                         /\ inbox'[k] = inbox[k])
    BY <1>0, <1>2, InboxAppend DEF Lists, Drops, OwnList
  <2>2. OneReload'
    BY <1>0, <2>1 DEF Quiet, PresenceInv, OneReload
  <2>3. EditorInv'
    BY DEF Quiet, PresenceInv, EditorInv, Types, InventoryTypes
  <2>4. ASSUME NEW i \in Ids PROVE PresenceAt(i)'
    <3> USE DEF PresenceInv, PresenceAt, Quiet
    <3>1. Known(i)'
      BY <2>1 DEF Known
    <3>2. Convex(i)'
      <4> SUFFICES ASSUME NEW k \in 1..Len(inbox'), Drops(inbox'[k], i), Earlier(i, k)'
                   PROVE  store'[i] = None /\ \A n \in k..Len(inbox') : ~Lists(inbox'[n], i)
        BY DEF Convex
      <4>1. k \in 1..Len(inbox) /\ inbox'[k] = inbox[k]
        BY <2>1
      <4>2. Earlier(i, k)
        BY <1>0, <2>1, <4>1 DEF Earlier
      <4>3. store[i] = None /\ \A n \in k..Len(inbox) : ~Lists(inbox[n], i)
        BY <4>1, <4>2 DEF Convex
      <4> QED
        BY <1>0, <2>1, <4>1, <4>3
    <3>3. Deleted(i)'
      <4>1. Settled(i) => Settled(i)'
        BY <2>1 DEF Settled
      <4>2. Reported(i) => Reported(i)'
        <5> SUFFICES ASSUME NEW k \in 1..Len(inbox), OwnList(inbox[k]),
                            \A m \in k..Len(inbox) : ~Lists(inbox[m], i)
                     PROVE  Reported(i)'
          BY DEF Reported
        <5>1. k \in 1..Len(inbox') /\ OwnList(inbox'[k])
          BY <1>0, <2>1
        <5>2. \A m \in k..Len(inbox') : ~Lists(inbox'[m], i)
          BY <1>0, <2>1
        <5> QED
          BY <5>1, <5>2 DEF Reported
      <4> QED
        BY <4>1, <4>2 DEF Deleted
    <3> QED
      BY <3>1, <3>2, <3>3
  <2> QED
    BY <2>2, <2>3, <2>4 DEF PresenceInv
<1>3. CASE inbox # <<>> /\ Head(inbox).kind # "list" /\ inbox' = Tail(inbox)
  <2>1. /\ Len(inbox') = Len(inbox) - 1 /\ Len(inbox) >= 1
        /\ \A i \in Ids : ~Lists(inbox[1], i) /\ ~Drops(inbox[1], i)
        /\ ~OwnList(inbox[1])
        /\ \A k \in 1..Len(inbox') : inbox'[k] = inbox[k + 1]
        /\ \A k \in 1..Len(inbox) : k = 1 \/ (k - 1 \in 1..Len(inbox')
                                              /\ inbox[k] = inbox'[k - 1])
    BY <1>0, <1>3, InboxTail DEF Lists, Drops, OwnList
  <2>2. OneReload'
    <3>1. \A k \in 1..Len(inbox') : OwnList(inbox'[k]) =>
             /\ command.phase = "listing"
             /\ \A m \in 1..Len(inbox') : OwnList(inbox'[m]) => m = k
      <4> SUFFICES ASSUME NEW k \in 1..Len(inbox'), OwnList(inbox'[k])
                   PROVE  /\ command.phase = "listing"
                          /\ \A m \in 1..Len(inbox') : OwnList(inbox'[m]) => m = k
        OBVIOUS
      <4>1. k + 1 \in 1..Len(inbox) /\ OwnList(inbox[k + 1])
        BY <1>0, <2>1
      <4>2. \A m \in 1..Len(inbox') : m + 1 \in 1..Len(inbox) /\ inbox'[m] = inbox[m + 1]
        BY <1>0, <2>1
      <4>3. command.phase = "listing" /\ \A m \in 1..Len(inbox) : OwnList(inbox[m]) => m = k + 1
        BY <4>1 DEF PresenceInv, OneReload
      <4> QED
        <5> SUFFICES ASSUME NEW m \in 1..Len(inbox'), OwnList(inbox'[m]) PROVE m = k
          BY <4>3, Zenon
        <5>1. m + 1 = k + 1
          BY <4>2, <4>3, Zenon
        <5>2. m \in Nat /\ k \in Nat
          BY <1>0, <2>1
        <5> QED
          BY <5>1, <5>2
    <3>2. \A k \in 1..Len(lists) : lists[k] => \A m \in 1..Len(inbox') : ~OwnList(inbox'[m])
      <4>1. \A m \in 1..Len(inbox') : m + 1 \in 1..Len(inbox) /\ inbox'[m] = inbox[m + 1]
        BY <1>0, <2>1
      <4> QED
        BY <4>1 DEF PresenceInv, OneReload
    <3> QED
      BY <3>1, <3>2 DEF Quiet, PresenceInv, OneReload
  <2>3. EditorInv'
    BY DEF Quiet, PresenceInv, EditorInv, Types, InventoryTypes
  <2>4. \A m \in 1..Len(inbox') : m + 1 \in 1..Len(inbox) /\ inbox'[m] = inbox[m + 1]
    BY <1>0, <2>1
  <2>5. ASSUME NEW i \in Ids PROVE PresenceAt(i)'
    <3> USE DEF PresenceInv, PresenceAt, Quiet
    <3>1. Known(i)'
      BY <2>4 DEF Known
    <3>2. Convex(i)'
      <4> SUFFICES ASSUME NEW k \in 1..Len(inbox'), Drops(inbox'[k], i), Earlier(i, k)'
                   PROVE  store'[i] = None /\ \A n \in k..Len(inbox') : ~Lists(inbox'[n], i)
        BY DEF Convex
      <4>1. k + 1 \in 1..Len(inbox) /\ Drops(inbox[k + 1], i)
        BY <2>4
      <4>2. Earlier(i, k + 1)
        <5>1. CASE cards[i] # None
          BY <5>1 DEF Earlier
        <5>2. ASSUME NEW m \in 1..k, Lists(inbox'[m], i) PROVE Earlier(i, k + 1)
          <6>1. m \in 1..Len(inbox') /\ m + 1 \in 1..(k + 1)
            BY <1>0, <2>1
          <6>2. Lists(inbox[m + 1], i)
            BY <2>4, <5>2, <6>1
          <6> QED
            BY <6>1, <6>2 DEF Earlier
        <5> QED
          BY <5>1, <5>2 DEF Earlier
      <4>3. store[i] = None /\ \A n \in (k + 1)..Len(inbox) : ~Lists(inbox[n], i)
        BY <4>1, <4>2 DEF Convex
      <4>4. ASSUME NEW n \in k..Len(inbox') PROVE ~Lists(inbox'[n], i)
        <5>1. n \in 1..Len(inbox') /\ n + 1 \in (k + 1)..Len(inbox)
          BY <1>0, <2>1
        <5> QED
          BY <2>4, <4>3, <5>1
      <4> QED
        BY <4>3, <4>4
    <3>3. Deleted(i)'
      <4>1. Settled(i) => Settled(i)'
        BY <2>4 DEF Settled
      <4>2. Reported(i) => Reported(i)'
        <5> SUFFICES ASSUME NEW k \in 1..Len(inbox), OwnList(inbox[k]),
                            \A m \in k..Len(inbox) : ~Lists(inbox[m], i)
                     PROVE  Reported(i)'
          BY DEF Reported
        <5>1. k - 1 \in 1..Len(inbox') /\ OwnList(inbox'[k - 1])
          BY <1>0, <2>1
        <5>2. ASSUME NEW m \in (k - 1)..Len(inbox') PROVE ~Lists(inbox'[m], i)
          <6>1. m \in 1..Len(inbox') /\ m + 1 \in k..Len(inbox)
            BY <1>0, <2>1, <5>1
          <6> QED
            BY <2>4, <6>1
        <5> QED
          BY <5>1, <5>2 DEF Reported
      <4> QED
        BY <4>1, <4>2 DEF Deleted
    <3> QED
      BY <3>1, <3>2, <3>3
  <2> QED
    BY <2>2, <2>3, <2>5 DEF PresenceInv
<1> QED
  BY <1>1, <1>2, <1>3 DEF Quiet

LEMMA CommitQuiet ==
    ASSUME Types, NEW kind \in {"check", "wake"}, NEW i \in Ids, NEW op, NEW verify,
           Commit(kind, i, op, verify)
    PROVE  /\ \A j \in Ids : store'[j] = None <=> store[j] = None
           /\ \E x \in Items : x.kind # "list" /\ inbox' = Append(inbox, x)
<1>1. /\ store' = IF Saved(i, op, verify) = None THEN store
                  ELSE [store EXCEPT ![i] = Saved(i, op, verify)]
      /\ inbox' = Append(inbox, [kind |-> kind, id |-> i])
  BY DEF Commit
<1>2. store \in [Ids -> Device \cup {None}]
  BY DEF Types, InventoryTypes, Devices
<1>3. Saved(i, op, verify) # None => store[i] # None
  BY DEF Saved, Accepts
<1>4. [kind |-> kind, id |-> i] \in Items /\ [kind |-> kind, id |-> i].kind # "list"
  BY DEF Items
<1>5. \A j \in Ids : store'[j] = None <=> store[j] = None
  BY <1>1, <1>2, <1>3
<1> QED
  BY <1>1, <1>4, <1>5

LEMMA OperationsQuiet ==
    ASSUME Types, NEW i \in Ids, CheckStep(i) \/ WakeStep(i)
    PROVE  Quiet /\ UNCHANGED command
<1>1. /\ UNCHANGED <<allocated, lists, command>>
      /\ \A j \in Ids : cards'[j] = None <=> cards[j] = None
  BY CheckShape, WakeShape DEF Dimmed, Answered, Kept
<1>2. CASE \/ \E state \in Answers : CheckAnswers(i, state)
           \/ CheckFails(i) \/ WakeFindsOnline(i) \/ WakeAborts(i)
           \/ \E before \in Answers : WakeSends(i, before)
           \/ \E state \in Answers, at \in Times : WakeOutcome(i, state, at)
  <2>1. UNCHANGED <<store, inbox>>
    BY <1>2 DEF CheckAnswers, CheckFails, WakeFindsOnline, WakeAborts, WakeSends, WakeOutcome,
                inventory
  <2> QED
    BY <1>1, <2>1 DEF Quiet
<1>3. CASE CommitCheck(i)
  BY <1>1, <1>3, CommitQuiet DEF CommitCheck, Quiet
<1>4. CASE CommitWake(i)
  <2>1. Commit("wake", i, wakes[i], wakes[i].verified)
    BY <1>4 DEF CommitWake
  <2> QED
    BY <1>1, <2>1, CommitQuiet DEF Quiet
<1>5. CASE ResumeCheck(i) \/ ResumeWake(i)
  <2>1. UNCHANGED store /\ inbox # <<>> /\ inbox' = Tail(inbox) /\ Head(inbox).kind # "list"
    BY <1>5 DEF ResumeCheck, ResumeWake, Arrives
  <2> QED
    BY <1>1, <2>1 DEF Quiet
<1> QED
  BY <1>2, <1>3, <1>4, <1>5 DEF CheckStep, WakeStep

LEMMA OthersQuiet ==
    ASSUME Types, \/ UNCHANGED vars \/ Tick \/ Sweeping \/ StopDone \/ Stop
                  \/ \E i \in Ids : BeginWake(i) \/ CancelWake(i)
    PROVE  Quiet /\ UNCHANGED command
<1>1. CASE \E i \in Ids : BeginWake(i)
  <2>1. PICK i \in Ids : BeginWake(i)
    BY <1>1
  <2>2. UNCHANGED inventory /\ cards[i] # None
        /\ cards' = [cards EXCEPT ![i] = [[@ EXCEPT !.waking = TRUE] EXCEPT !.state = "Unknown"]]
    BY <2>1 DEF BeginWake
  <2>3. cards[i] \in Card /\ cards \in [Ids -> Card \cup {None}]
    BY <2>2 DEF Types, OperationTypes
  <2>4. [[cards[i] EXCEPT !.waking = TRUE] EXCEPT !.state = "Unknown"] \in Card
    BY <2>3 DEF Card, Observable
  <2>5. \A j \in Ids : cards'[j] = None <=> cards[j] = None
    BY <2>2, <2>3, <2>4, NewValues
  <2> QED
    BY <2>2, <2>5 DEF Quiet, inventory
<1>2. CASE \E i \in Ids : CancelWake(i)
  BY <1>2 DEF CancelWake, Quiet, inventory
<1>3. CASE UNCHANGED vars \/ Tick \/ Sweeping \/ StopDone \/ Stop
  BY <1>3 DEF vars, Tick, Sweeping, StartSweep, StartBatch, EndSweep, StopDone, Stop, Quiet, inventory
<1> QED
  BY <1>1, <1>2, <1>3

(* A step that reads or shows no list.                                       *)
LEMMA SamePresence ==
    ASSUME NEW i \in Ids, UNCHANGED <<inbox, cards, lists>>, store'[i] = None <=> store[i] = None,
           i \in allocated' <=> i \in allocated, PresenceAt(i),
           (Deleted(i) /\ (command.phase = "listing" => command'.phase = "listing")) \/ Settled(i)
    PROVE  PresenceAt(i)'
<1>1. Known(i)' /\ Convex(i)'
  BY DEF PresenceAt, Known, Convex, Earlier
<1>2. Settled(i)' <=> Settled(i)
  BY DEF Settled
<1>3. Reported(i)' <=> Reported(i)
  BY DEF Reported
<1>4. Deleted(i)'
  BY <1>2, <1>3 DEF Deleted
<1> QED
  BY <1>1, <1>4 DEF PresenceAt

LEMMA NoReload ==
    ASSUME Types, PresenceInv, command.phase # "listing"
    PROVE  /\ \A k \in 1..Len(lists) : ~lists[k]
           /\ \A k \in 1..Len(inbox) : ~OwnList(inbox[k])
           /\ \A i \in Ids : i \in allocated /\ store[i] = None => Settled(i)
BY DEF PresenceInv, OneReload, PresenceAt, Deleted

LEMMA ReloadAsked ==
    ASSUME Types, PresenceInv, NEW own \in BOOLEAN, lists' = Append(lists, own), UNCHANGED inbox,
           IF own THEN command.phase # "listing" /\ command'.phase = "listing"
           ELSE UNCHANGED command
    PROVE  /\ OneReload'
           /\ \A k \in 1..Len(lists) : k \in 1..Len(lists') /\ lists'[k] = lists[k]
           /\ own => \E k \in 1..Len(lists') : lists'[k]
<1>0. lists \in Seq(BOOLEAN)
  BY DEF Types, InventoryTypes
<1>1. /\ Len(lists) \in Nat /\ Len(lists') = Len(lists) + 1 /\ lists'[Len(lists')] = own
      /\ \A k \in 1..Len(lists) : lists'[k] = lists[k]
      /\ \A k \in 1..Len(lists') : k = Len(lists') \/ (k \in 1..Len(lists)
                                                       /\ lists'[k] = lists[k])
  BY <1>0, ListsAppend
<1>2. CASE own
  <2>1. \A k \in 1..Len(lists') : lists'[k] => k = Len(lists')
    BY <1>1, <1>2, NoReload
  <2>2. \A k \in 1..Len(inbox) : ~OwnList(inbox[k])
    BY <1>2, NoReload
  <2> QED
    BY <1>1, <1>2, <2>1, <2>2 DEF OneReload
<1>3. CASE ~own
  <2>1. \A k \in 1..Len(lists') : lists'[k] => k \in 1..Len(lists) /\ lists[k]
    BY <1>1, <1>3
  <2>2. UNCHANGED command
    BY <1>3
  <2> QED
    BY <1>1, <1>3, <2>1, <2>2 DEF OneReload, PresenceInv
<1> QED
  BY <1>2, <1>3

(* A record is stored where one is, or under an id that was never used.      *)
LEMMA StoredPresence ==
    ASSUME NEW i \in Ids, Len(inbox) \in Nat, PresenceAt(i), store[i] # None \/ i \notin allocated,
           store'[i] # None, i \in allocated', UNCHANGED <<inbox, cards>>
    PROVE  PresenceAt(i)'
<1>1. \A k \in 1..Len(inbox) : ~(Drops(inbox[k], i) /\ Earlier(i, k))
  <2> SUFFICES ASSUME NEW k \in 1..Len(inbox), Drops(inbox[k], i), Earlier(i, k)
               PROVE  FALSE
    OBVIOUS
  <2>1. store[i] = None
    BY DEF PresenceAt, Convex
  <2>2. cards[i] = None /\ \A m \in 1..Len(inbox) : ~Lists(inbox[m], i)
    BY <2>1 DEF PresenceAt, Known
  <2>3. PICK m \in 1..k : Lists(inbox[m], i)
    BY <2>2 DEF Earlier
  <2> QED
    BY <2>2, <2>3
<1>2. Convex(i)'
  BY <1>1 DEF Convex, Earlier
<1> QED
  BY <1>2 DEF PresenceAt, Known, Deleted

LEMMA OtherPresence ==
    ASSUME NEW i \in Ids, PresenceAt(i), UNCHANGED <<inbox, cards>>, store'[i] = store[i],
           i \in allocated' <=> i \in allocated,
           command.phase = "listing" => command'.phase = "listing",
           \A k \in 1..Len(lists) : k \in 1..Len(lists') /\ lists'[k] = lists[k]
    PROVE  PresenceAt(i)'
<1>1. Known(i)' /\ Convex(i)'
  BY DEF PresenceAt, Known, Convex, Earlier
<1>2. Settled(i)' <=> Settled(i)
  BY DEF Settled
<1>3. Reported(i)' <=> Reported(i)
  BY DEF Reported
<1>4. Deleted(i)'
  BY <1>2, <1>3 DEF Deleted, PresenceAt
<1> QED
  BY <1>1, <1>4 DEF PresenceAt

LEMMA CommandsPresence ==
    ASSUME Types, PresenceInv,
           \/ Refresh \/ CloseEditor
           \/ \E i \in Ids : OpenEditor(i) \/ DeleteDevice(i)
           \/ \E form \in Forms : SaveEdit(form)
           \/ \E i \in Ids, found \in Discoveries, form \in Forms : DiscoverDevice(i, found, form)
    PROVE  PresenceInv'
<1> USE DEF PresenceInv
<1>0. /\ Len(inbox) \in Nat
      /\ \A i \in Ids : i \in allocated /\ store[i] = None /\ command.phase # "listing" => Settled(i)
      /\ [Free EXCEPT !.phase = "listing"].phase = "listing" /\ Free.phase = "free"
  BY NoReload, LenProperties DEF Free, Types, InventoryTypes
<1>1. CASE Refresh
  <2>1. /\ command.phase = "free" /\ lists' = Append(lists, TRUE)
        /\ command'.phase = "listing"
        /\ UNCHANGED <<store, allocated, inbox, cards>>
    BY <1>0, <1>1 DEF Refresh, Ready, Reload, operations
  <2>2. OneReload' /\ \A k \in 1..Len(lists) : k \in 1..Len(lists') /\ lists'[k] = lists[k]
    BY <2>1, ReloadAsked
  <2> QED
    BY <2>1, <2>2, OtherPresence DEF EditorInv
<1>2. CASE CloseEditor
  <2>1. /\ command.phase = "editing" /\ command'.phase = "free"
        /\ UNCHANGED <<store, allocated, lists, inbox, cards>>
    BY <1>0, <1>2 DEF CloseEditor, operations
  <2>2. OneReload'
    BY <2>1, NoReload DEF OneReload
  <2> QED
    BY <2>1, <2>2, OtherPresence DEF EditorInv
<1>3. ASSUME NEW i \in Ids, OpenEditor(i) PROVE PresenceInv'
  <2>1. /\ command.phase = "free" /\ UNCHANGED <<store, allocated, lists, inbox, cards>>
        /\ command'.phase = "editing" /\ command'.id = i
        /\ \/ cards[i] # None
           \/ i \notin allocated /\ command'.original = NewDevice
    BY <1>3 DEF OpenEditor, Ready, operations
  <2>2. cards[i] # None => store[i] # None
    BY <1>0, <2>1 DEF PresenceAt, Known, Settled
  <2>3. OneReload'
    BY <2>1, NoReload DEF OneReload
  <2>4. EditorInv'
    BY <2>1, <2>2 DEF EditorInv
  <2> QED
    BY <2>1, <2>3, <2>4, OtherPresence
<1>4. ASSUME NEW i \in Ids, DeleteDevice(i) PROVE PresenceInv'
  <2>1. /\ command.phase = "free" /\ lists' = Append(lists, TRUE) /\ command'.phase = "listing"
        /\ store' = [store EXCEPT ![i] = None] /\ UNCHANGED <<allocated, inbox, cards>>
        /\ store \in [Ids -> Device \cup {None}]
    BY <1>0, <1>4 DEF DeleteDevice, Ready, Reload, operations, Types, InventoryTypes, Devices
  <2>2. OneReload' /\ (\E k \in 1..Len(lists') : lists'[k])
        /\ \A k \in 1..Len(lists) : k \in 1..Len(lists') /\ lists'[k] = lists[k]
    BY <2>1, ReloadAsked
  <2>3. PresenceAt(i)'
    <3>1. Deleted(i)'
      BY <2>1, <2>2 DEF Deleted
    <3>2. Known(i)' /\ Convex(i)'
      BY <2>1 DEF PresenceAt, Known, Convex, Earlier
    <3> QED
      BY <3>1, <3>2 DEF PresenceAt
  <2>4. ASSUME NEW j \in Ids \ {i} PROVE PresenceAt(j)'
    BY <2>1, <2>2, OtherPresence
  <2> QED
    BY <2>1, <2>2, <2>3, <2>4 DEF EditorInv
<1>5. ASSUME NEW form \in Forms, SaveEdit(form) PROVE PresenceInv'
  <2>0. command.phase = "editing" /\ command.id \in Ids
    BY <1>5 DEF SaveEdit, Types, InventoryTypes
  <2> PICK i \in Ids : i = command.id
    BY <2>0
  <2>1. /\ command.phase = "editing" /\ Store(i, Edited(command.original, form))
        /\ lists' = Append(lists, TRUE) /\ command'.phase = "listing" /\ UNCHANGED <<inbox, cards>>
    BY <1>0, <1>5 DEF SaveEdit, Reload, operations
  <2>2. i \in Ids /\ Edited(command.original, form) \in Device
    BY <2>1, EditedType, ActivityAssumption DEF Types, InventoryTypes
  <2>3. /\ store'[i] # None /\ allocated' = allocated \cup {i}
        /\ \A j \in Ids \ {i} : store'[j] = store[j]
    BY <2>1, <2>2, StoreTypes
  <2>4. OneReload' /\ \A k \in 1..Len(lists) : k \in 1..Len(lists') /\ lists'[k] = lists[k]
    BY <2>1, ReloadAsked
  <2>5. store[i] # None \/ i \notin allocated
    BY <2>1 DEF EditorInv
  <2>6. PresenceAt(i)'
    BY <1>0, <2>1, <2>2, <2>3, <2>5, StoredPresence
  <2>7. ASSUME NEW j \in Ids \ {i} PROVE PresenceAt(j)'
    BY <2>1, <2>2, <2>3, <2>4, OtherPresence
  <2> QED
    BY <2>1, <2>4, <2>6, <2>7 DEF EditorInv
<1>6. ASSUME NEW i \in Ids, NEW found \in Discoveries, NEW form \in Forms,
             DiscoverDevice(i, found, form)
      PROVE  PresenceInv'
  <2>1. /\ command.phase # "editing" /\ Store(i, Edited(Discovered(found), form))
        /\ i \notin allocated
        /\ lists' = Append(lists, FALSE) /\ UNCHANGED <<command, inbox, cards>>
    BY <1>6 DEF DiscoverDevice, Reload, operations
  <2>2. Edited(Discovered(found), form) \in Device
    BY DiscoveredType, EditedType, ActivityAssumption
  <2>3. /\ store'[i] # None /\ allocated' = allocated \cup {i}
        /\ \A j \in Ids \ {i} : store'[j] = store[j]
    BY <2>1, <2>2, StoreTypes
  <2>4. OneReload' /\ \A k \in 1..Len(lists) : k \in 1..Len(lists') /\ lists'[k] = lists[k]
    BY <2>1, ReloadAsked
  <2>6. PresenceAt(i)'
    BY <1>0, <2>1, <2>2, <2>3, StoredPresence
  <2>7. ASSUME NEW j \in Ids \ {i} PROVE PresenceAt(j)'
    BY <2>1, <2>2, <2>3, <2>4, OtherPresence
  <2> QED
    BY <2>1, <2>4, <2>6, <2>7 DEF EditorInv
<1> QED
  BY <1>1, <1>2, <1>3, <1>4, <1>5, <1>6

LEMMA ReadPresence == ASSUME Types, PresenceInv, ReadList PROVE PresenceInv'
<1> USE DEF PresenceInv
<1> DEFINE x == [kind |-> "list", own |-> Head(lists), devices |-> store]
<1>1. /\ lists # <<>> /\ lists' = Tail(lists) /\ inbox' = Append(inbox, x)
      /\ UNCHANGED <<store, allocated, command, cards>>
      /\ lists \in Seq(BOOLEAN) /\ inbox \in Seq(Items)
  BY DEF ReadList, operations, Types, InventoryTypes
<1>2. /\ Len(lists) \in Nat /\ Len(lists) >= 1 /\ Len(lists') = Len(lists) - 1
      /\ lists[1] = Head(lists) /\ lists[1] \in BOOLEAN
      /\ \A k \in 1..Len(lists') : k + 1 \in 1..Len(lists) /\ lists'[k] = lists[k + 1]
      /\ \A k \in 1..Len(lists) : k = 1 \/ (k - 1 \in 1..Len(lists') /\ lists[k] = lists'[k - 1])
  <2>1. /\ Len(lists) \in Nat /\ Len(lists) >= 1 /\ Len(lists') = Len(lists) - 1
        /\ lists[1] = Head(lists) /\ lists[1] \in BOOLEAN
        /\ \A k \in 1..Len(lists') : lists'[k] = lists[k + 1]
    BY <1>1, HeadTailProperties, EmptySeq
  <2> QED
    BY <2>1
<1>3. x \in Items /\ OwnList(x) = lists[1] /\ \A i \in Ids : /\ Lists(x, i) <=> store[i] # None
                                                             /\ Drops(x, i) <=> store[i] = None
  BY <1>1, <1>2 DEF Items, OwnList, Lists, Drops, Types, InventoryTypes
<1>4. /\ Len(inbox) \in Nat /\ Len(inbox') = Len(inbox) + 1 /\ inbox'[Len(inbox')] = x
      /\ \A k \in 1..Len(inbox) : inbox'[k] = inbox[k]
      /\ \A k \in 1..Len(inbox') : k = Len(inbox') \/ (k \in 1..Len(inbox)
                                                       /\ inbox'[k] = inbox[k])
  BY <1>1, <1>3, InboxAppend
<1> HIDE DEF x
<1>5. OneReload'
  <2>1. ASSUME NEW k \in 1..Len(lists'), lists'[k]
        PROVE  /\ command.phase = "listing"
               /\ \A m \in 1..Len(lists') : lists'[m] => m = k
               /\ \A m \in 1..Len(inbox') : ~OwnList(inbox'[m])
    <3>1. /\ k + 1 \in 1..Len(lists) /\ lists[k + 1] /\ k + 1 # 1
      BY <1>2, <2>1
    <3>2. /\ command.phase = "listing"
          /\ \A m \in 1..Len(lists) : lists[m] => m = k + 1
          /\ \A m \in 1..Len(inbox) : ~OwnList(inbox[m])
      BY <3>1 DEF OneReload
    <3>3. ~lists[1]
      BY <1>2, <3>1, <3>2
    <3>4. \A m \in 1..Len(lists') : lists'[m] => m = k
      BY <1>2, <3>2
    <3> QED
      BY <1>3, <1>4, <3>2, <3>3, <3>4
  <2>2. ASSUME NEW k \in 1..Len(inbox'), OwnList(inbox'[k])
        PROVE  /\ command.phase = "listing"
               /\ \A m \in 1..Len(inbox') : OwnList(inbox'[m]) => m = k
    <3>1. CASE k = Len(inbox')
      <4>1. lists[1]
        BY <1>3, <1>4, <2>2, <3>1
      <4>2. command.phase = "listing" /\ \A m \in 1..Len(inbox) : ~OwnList(inbox[m])
        BY <1>2, <4>1 DEF OneReload
      <4> QED
        BY <1>4, <3>1, <4>2
    <3>2. CASE k # Len(inbox')
      <4>1. k \in 1..Len(inbox) /\ OwnList(inbox[k])
        BY <1>4, <2>2, <3>2
      <4>2. command.phase = "listing" /\ \A m \in 1..Len(inbox) : OwnList(inbox[m]) => m = k
        BY <4>1 DEF OneReload
      <4>3. ~lists[1]
        BY <1>2, <4>1 DEF OneReload
      <4> QED
        BY <1>3, <1>4, <4>2, <4>3
    <3> QED
      BY <3>1, <3>2
  <2> QED
    BY <1>1, <2>1, <2>2 DEF OneReload
<1>6. EditorInv'
  BY <1>1 DEF EditorInv
<1>7. ASSUME NEW i \in Ids PROVE PresenceAt(i)'
  <2> USE DEF PresenceAt
  <2>1. Known(i)'
    BY <1>1, <1>3, <1>4 DEF Known
  <2>2. Convex(i)'
    <3> SUFFICES ASSUME NEW k \in 1..Len(inbox'), Drops(inbox'[k], i), Earlier(i, k)'
                 PROVE  store'[i] = None /\ \A n \in k..Len(inbox') : ~Lists(inbox'[n], i)
      BY DEF Convex
    <3>1. CASE k = Len(inbox')
      BY <1>1, <1>3, <1>4, <3>1
    <3>2. CASE k # Len(inbox')
      <4>1. k \in 1..Len(inbox) /\ Drops(inbox[k], i)
        BY <1>4, <3>2
      <4>2. Earlier(i, k)
        BY <1>1, <1>4, <4>1 DEF Earlier
      <4>3. store[i] = None /\ \A n \in k..Len(inbox) : ~Lists(inbox[n], i)
        BY <4>1, <4>2 DEF Convex
      <4> QED
        BY <1>1, <1>3, <1>4, <4>1, <4>3
    <3> QED
      BY <3>1, <3>2
  <2>3. Deleted(i)'
    <3> SUFFICES ASSUME i \in allocated, store[i] = None
                 PROVE  \/ Settled(i)'
                        \/ command.phase = "listing"
                           /\ ((\E k \in 1..Len(lists') : lists'[k]) \/ Reported(i)')
      BY <1>1 DEF Deleted
    <3>1. ~Lists(x, i)
      BY <1>3
    <3>2. Settled(i) => Settled(i)'
      BY <1>1, <1>4, <3>1 DEF Settled
    <3>3. Reported(i) => Reported(i)'
      <4> SUFFICES ASSUME NEW k \in 1..Len(inbox), OwnList(inbox[k]),
                          \A m \in k..Len(inbox) : ~Lists(inbox[m], i)
                   PROVE  Reported(i)'
        BY DEF Reported
      <4>1. k \in 1..Len(inbox') /\ OwnList(inbox'[k])
        BY <1>4
      <4>2. \A m \in k..Len(inbox') : ~Lists(inbox'[m], i)
        BY <1>4, <3>1
      <4> QED
        BY <4>1, <4>2 DEF Reported
    <3>4. ASSUME NEW k \in 1..Len(lists), lists[k]
          PROVE  (\E m \in 1..Len(lists') : lists'[m]) \/ Reported(i)'
      <4>1. CASE k = 1
        <5>1. Len(inbox') \in 1..Len(inbox') /\ OwnList(inbox'[Len(inbox')])
          BY <1>3, <1>4, <3>4, <4>1
        <5>2. \A m \in Len(inbox')..Len(inbox') : ~Lists(inbox'[m], i)
          BY <1>4, <3>1
        <5> QED
          BY <5>1, <5>2 DEF Reported
      <4>2. CASE k # 1
        BY <1>2, <3>4, <4>2
      <4> QED
        BY <4>1, <4>2
    <3> QED
      BY <3>2, <3>3, <3>4 DEF Deleted
  <2> QED
    BY <2>1, <2>2, <2>3
<1> QED
  BY <1>5, <1>6, <1>7

LEMMA ShowPresence == ASSUME Types, PresenceInv, ShowList PROVE PresenceInv'
<1> USE DEF PresenceInv
<1>1. /\ inbox # <<>> /\ inbox' = Tail(inbox) /\ inbox \in Seq(Items)
      /\ Head(inbox).kind = "list" /\ Head(inbox).own \in BOOLEAN
      /\ Head(inbox).devices \in Devices
      /\ command' = IF Head(inbox).own THEN Free ELSE command
      /\ UNCHANGED <<store, allocated, lists>>
  BY ShowListFacts DEF Types, InventoryTypes
<1>2. /\ Len(inbox) \in Nat /\ Len(inbox) >= 1 /\ Len(inbox') = Len(inbox) - 1
      /\ 1 \in 1..Len(inbox)
      /\ inbox[1] = Head(inbox)
      /\ \A k \in 1..Len(inbox') : k + 1 \in 1..Len(inbox) /\ inbox'[k] = inbox[k + 1]
      /\ \A k \in 1..Len(inbox) : k = 1 \/ (k - 1 \in 1..Len(inbox')
                                            /\ inbox[k] = inbox'[k - 1])
  <2>1. /\ Len(inbox) \in Nat /\ Len(inbox) >= 1 /\ Len(inbox') = Len(inbox) - 1
        /\ inbox[1] = Head(inbox)
        /\ \A k \in 1..Len(inbox') : inbox'[k] = inbox[k + 1]
        /\ \A k \in 1..Len(inbox) : k = 1 \/ (k - 1 \in 1..Len(inbox')
                                              /\ inbox[k] = inbox'[k - 1])
    BY <1>1, InboxTail
  <2> QED
    BY <2>1
<1>3. OwnList(inbox[1]) <=> Head(inbox).own
  BY <1>1, <1>2 DEF OwnList
<1>4. \A i \in Ids : cards'[i] # None <=> Lists(inbox[1], i)
  <2> SUFFICES ASSUME NEW i \in Ids
               PROVE  cards'[i] # None <=> Lists(inbox[1], i)
    BY Zenon
  <2>1. /\ cards'[i] = Synchronized(cards[i], Head(inbox).devices[i])
        /\ cards[i] \in Card \cup {None}
    BY ShowListFacts DEF ShownAs, Types, OperationTypes
  <2>2. Head(inbox).devices[i] \in Device \cup {None}
    BY <1>1 DEF Devices
  <2>3. cards'[i] = None <=> Head(inbox).devices[i] = None
    BY <2>1, <2>2, SynchronizedType
  <2> QED
    BY <1>1, <1>2, <2>3 DEF Lists
<1>5. OneReload'
  <2>1. CASE Head(inbox).own
    <3>1. \A m \in 1..Len(inbox) : OwnList(inbox[m]) => m = 1
      BY <1>2, <1>3, <2>1 DEF OneReload
    <3>2. \A k \in 1..Len(lists) : ~lists[k]
      BY <1>2, <1>3, <2>1 DEF OneReload
    <3>3. \A m \in 1..Len(inbox') : ~OwnList(inbox'[m])
      BY <1>2, <3>1
    <3> QED
      BY <1>1, <3>2, <3>3 DEF OneReload
  <2>2. CASE ~Head(inbox).own
    <3>0. UNCHANGED command
      BY <1>1, <2>2
    <3>1. \A k \in 1..Len(inbox') : OwnList(inbox'[k]) =>
             /\ command.phase = "listing"
             /\ \A m \in 1..Len(inbox') : OwnList(inbox'[m]) => m = k
      <4> SUFFICES ASSUME NEW k \in 1..Len(inbox'), OwnList(inbox'[k])
                   PROVE  /\ command.phase = "listing"
                          /\ \A m \in 1..Len(inbox') : OwnList(inbox'[m]) => m = k
        OBVIOUS
      <4>1. command.phase = "listing" /\ \A m \in 1..Len(inbox) : OwnList(inbox[m]) => m = k + 1
        BY <1>2 DEF OneReload
      <4> QED
        BY <1>2, <4>1
    <3>2. \A k \in 1..Len(lists) : lists[k] => \A m \in 1..Len(inbox') : ~OwnList(inbox'[m])
      BY <1>2 DEF OneReload
    <3> QED
      BY <1>1, <3>0, <3>1, <3>2 DEF OneReload
  <2> QED
    BY <1>1, <2>1, <2>2
<1>6. EditorInv'
  BY <1>1 DEF EditorInv, Free
<1>7. ASSUME NEW i \in Ids PROVE PresenceAt(i)'
  <2> USE DEF PresenceAt
  <2>1. Known(i)'
    BY <1>1, <1>2, <1>4 DEF Known
  <2>2. Convex(i)'
    <3> SUFFICES ASSUME NEW k \in 1..Len(inbox'), Drops(inbox'[k], i), Earlier(i, k)'
                 PROVE  store'[i] = None /\ \A n \in k..Len(inbox') : ~Lists(inbox'[n], i)
      BY DEF Convex
    <3>1. k + 1 \in 1..Len(inbox) /\ Drops(inbox[k + 1], i)
      BY <1>2
    <3>2. Earlier(i, k + 1)
      <4>1. CASE cards'[i] # None
        <5>1. 1 \in 1..(k + 1) /\ Lists(inbox[1], i)
          BY <1>4, <4>1
        <5> QED
          BY <5>1 DEF Earlier
      <4>2. ASSUME NEW m \in 1..k, Lists(inbox'[m], i) PROVE Earlier(i, k + 1)
        <5>1. m \in 1..Len(inbox') /\ m + 1 \in 1..(k + 1)
          BY <1>2
        <5>2. Lists(inbox[m + 1], i)
          BY <1>2, <4>2, <5>1
        <5> QED
          BY <5>1, <5>2 DEF Earlier
      <4> QED
        BY <4>1, <4>2 DEF Earlier
    <3>3. store[i] = None /\ \A n \in (k + 1)..Len(inbox) : ~Lists(inbox[n], i)
      BY <3>1, <3>2 DEF Convex
    <3>4. ASSUME NEW n \in k..Len(inbox') PROVE ~Lists(inbox'[n], i)
      <4>1. n \in 1..Len(inbox') /\ n + 1 \in (k + 1)..Len(inbox)
        BY <1>2
      <4> QED
        BY <1>2, <3>3, <4>1
    <3> QED
      BY <1>1, <3>3, <3>4
  <2>3. Deleted(i)'
    <3> SUFFICES ASSUME i \in allocated, store[i] = None
                 PROVE  \/ Settled(i)'
                        \/ command'.phase = "listing"
                           /\ ((\E k \in 1..Len(lists) : lists[k]) \/ Reported(i)')
      BY <1>1 DEF Deleted
    <3>1. CASE \A m \in 1..Len(inbox) : ~Lists(inbox[m], i)
      BY <1>2, <1>4, <3>1 DEF Settled
    <3>2. ASSUME command.phase = "listing", NEW k \in 1..Len(lists), lists[k]
          PROVE  command'.phase = "listing" /\ \E m \in 1..Len(lists) : lists[m]
      <4>1. ~Head(inbox).own
        BY <1>2, <1>3, <3>2 DEF OneReload
      <4> QED
        BY <1>1, <3>2, <4>1
    <3>3. ASSUME command.phase = "listing", NEW k \in 1..Len(inbox), k # 1, OwnList(inbox[k]),
                 \A m \in k..Len(inbox) : ~Lists(inbox[m], i)
          PROVE  command'.phase = "listing" /\ Reported(i)'
      <4>1. ~Head(inbox).own
        BY <1>2, <1>3, <3>3 DEF OneReload
      <4>2. k - 1 \in 1..Len(inbox') /\ OwnList(inbox'[k - 1])
        BY <1>2, <3>3
      <4>3. ASSUME NEW m \in (k - 1)..Len(inbox') PROVE ~Lists(inbox'[m], i)
        <5>1. m \in 1..Len(inbox') /\ m + 1 \in k..Len(inbox)
          BY <1>2, <4>2
        <5> QED
          BY <1>2, <3>3, <5>1
      <4>4. Reported(i)'
        BY <4>2, <4>3 DEF Reported
      <4> QED
        BY <1>1, <3>3, <4>1, <4>4
    <3>4. Settled(i) \/ (\E k \in 1..Len(inbox) : k = 1 /\ \A m \in k..Len(inbox) : ~Lists(inbox[m], i))
          => \A m \in 1..Len(inbox) : ~Lists(inbox[m], i)
      BY DEF Settled
    <3> QED
      BY <3>1, <3>2, <3>3, <3>4 DEF Deleted, Reported
  <2> QED
    BY <2>1, <2>2, <2>3
<1> QED
  BY <1>5, <1>6, <1>7

LEMMA InitPresence == ASSUME Init PROVE PresenceInv
<1>1. /\ Len(inbox) = 0 /\ Len(lists) = 0 /\ command.phase = "free"
      /\ \A i \in Ids : /\ i \in allocated <=> store[i] # None
                        /\ cards[i] # None => store[i] # None
  BY EmptySeq DEF Init, Free
<1> QED
  BY <1>1 DEF PresenceInv, OneReload, EditorInv, PresenceAt, Known, Convex, Deleted

LEMMA NextPresence ==
    ASSUME ~ListMayFail, Types, PresenceInv, [Next]_vars
    PROVE  PresenceInv'
<1>1. CASE \E i \in Ids : CheckStep(i) \/ WakeStep(i)
  BY <1>1, OperationsQuiet, QuietPresence
<1>2. CASE \/ UNCHANGED vars \/ Tick \/ Sweeping \/ StopDone \/ Stop
           \/ \E i \in Ids : BeginWake(i) \/ CancelWake(i)
  BY <1>2, OthersQuiet, QuietPresence
<1>3. CASE Loading
  BY <1>3, ReadPresence, ShowPresence DEF Loading, ListFails
<1>4. CASE UserStep
  BY <1>2, <1>4, CommandsPresence DEF UserStep
<1> QED
  BY <1>1, <1>2, <1>3, <1>4 DEF Next
-----------------------------------------------------------------------------
(* A card is marked while its wake runs; a wake whose card was dropped is of *)
(* a device that is gone for good.                                           *)
GoneForGood(i) ==
    /\ i \in allocated /\ store[i] = None
    /\ \A k \in 1..Len(inbox) : ~Lists(inbox[k], i)
WriterAt(i) ==
    /\ checks[i].fresh => ~cards[i].waking
    /\ wakes[i].phase # "idle" /\ cards[i] # None => cards[i].waking
    /\ wakes[i].phase # "idle" /\ cards[i] = None => GoneForGood(i)
WriterInv == \A i \in Ids : WriterAt(i)

LEMMA QuietGone ==
    ASSUME Types, Quiet, NEW i \in Ids, GoneForGood(i)
    PROVE  GoneForGood(i)'
<1>0. inbox \in Seq(Items)
  BY DEF Types, InventoryTypes
<1>1. i \in allocated' /\ store'[i] = None
  BY DEF Quiet, GoneForGood
<1>2. CASE UNCHANGED inbox
  BY <1>1, <1>2 DEF GoneForGood
<1>3. ASSUME NEW x \in Items, x.kind # "list", inbox' = Append(inbox, x)
      PROVE  GoneForGood(i)'
  <2>1. \A k \in 1..Len(inbox') : inbox'[k] = x \/ (k \in 1..Len(inbox) /\ inbox'[k] = inbox[k])
    BY <1>0, <1>3, InboxAppend
  <2>2. ~Lists(x, i)
    BY <1>3 DEF Lists
  <2> QED
    BY <1>1, <2>1, <2>2 DEF GoneForGood
<1>4. CASE inbox # <<>> /\ inbox' = Tail(inbox)
  <2>1. \A k \in 1..Len(inbox') : k + 1 \in 1..Len(inbox) /\ inbox'[k] = inbox[k + 1]
    BY <1>0, <1>4, InboxTail
  <2> QED
    BY <1>1, <2>1 DEF GoneForGood
<1> QED
  BY <1>2, <1>3, <1>4 DEF Quiet

LEMMA SameWriter ==
    ASSUME NEW i \in Ids, WriterAt(i), GoneForGood(i) => GoneForGood(i)',
           cards'[i] = cards[i], checks'[i] = checks[i], wakes'[i] = wakes[i]
    PROVE  WriterAt(i)'
  BY DEF WriterAt

LEMMA OperationsWriter ==
    ASSUME Types, WriterInv, NEW i \in Ids, CheckStep(i) \/ WakeStep(i)
    PROVE  WriterInv'
<1>1. \A j \in Ids : GoneForGood(j) => GoneForGood(j)'
  BY OperationsQuiet, QuietGone
<1>2. checks[i].fresh => cards[i] # None
  BY DEF Types, FreshInv
<1>3. CASE CheckStep(i)
  <2>1. /\ wakes'[i] = wakes[i] /\ (checks'[i].fresh => checks[i].fresh)
        /\ \/ cards'[i] = cards[i]
           \/ cards'[i].waking = cards[i].waking /\ cards[i] # None /\ cards'[i] # None
        /\ \A j \in Ids \ {i} : /\ cards'[j] = cards[j] /\ checks'[j] = checks[j]
                                /\ wakes'[j] = wakes[j]
    BY <1>3, CheckShape
  <2>2. WriterAt(i)'
    BY <1>1, <2>1 DEF WriterInv, WriterAt
  <2> QED
    BY <1>1, <2>1, <2>2, SameWriter DEF WriterInv
<1>4. CASE WakeStep(i)
  <2>1. /\ checks'[i] = checks[i] /\ Marked(cards[i], wakes'[i], cards'[i])
        /\ Advances(wakes[i], wakes'[i])
        /\ cards'[i] # None <=> cards[i] # None
        /\ \A j \in Ids \ {i} : /\ cards'[j] = cards[j] /\ checks'[j] = checks[j]
                                /\ wakes'[j] = wakes[j]
    BY <1>4, WakeShape DEF Dimmed, Answered, Kept
  <2>2. WriterAt(i)'
    <3>1. checks'[i].fresh => ~cards'[i].waking
      BY <1>2, <2>1 DEF WriterInv, WriterAt, Marked
    <3>2. wakes'[i].phase # "idle" /\ cards'[i] # None => cards'[i].waking
      BY <2>1 DEF WriterInv, WriterAt, Marked, Advances
    <3>3. wakes'[i].phase # "idle" /\ cards'[i] = None => GoneForGood(i)'
      BY <1>1, <2>1 DEF WriterInv, WriterAt, Advances
    <3> QED
      BY <3>1, <3>2, <3>3 DEF WriterAt
  <2> QED
    BY <1>1, <2>1, <2>2, SameWriter DEF WriterInv
<1> QED
  BY <1>3, <1>4

LEMMA OthersWriter ==
    ASSUME Types, WriterInv,
           \/ UNCHANGED vars \/ Tick \/ Sweeping \/ StopDone \/ Stop
           \/ \E i \in Ids : BeginWake(i) \/ CancelWake(i)
    PROVE  WriterInv'
<1>1. \A j \in Ids : GoneForGood(j) => GoneForGood(j)'
  BY OthersQuiet, QuietGone
<1>2. CASE UNCHANGED vars \/ Tick \/ StartSweep \/ EndSweep \/ StopDone \/ Stop
  <2>1. UNCHANGED <<cards, checks, wakes>>
    BY <1>2 DEF vars, Tick, StartSweep, EndSweep, StopDone, Stop
  <2> QED
    BY <1>1, <2>1, SameWriter DEF WriterInv
<1>3. CASE StartBatch
  <2>1. PICK batch \in SUBSET sweep.pending :
          checks' = [i \in Ids |->
               IF i \in batch /\ Probes(i)
               THEN [Idle EXCEPT !.phase = "probing", !.dev = Copy(cards[i].dev),
                                 !.fresh = TRUE, !.at = now]
               ELSE checks[i]]
    BY <1>3 DEF StartBatch
  <2>2. UNCHANGED <<cards, wakes>>
    BY <1>3 DEF StartBatch
  <2>3. ASSUME NEW i \in Ids PROVE checks'[i].fresh => ~cards[i].waking
    BY <2>1 DEF Probes, WriterInv, WriterAt
  <2> QED
    BY <1>1, <2>2, <2>3 DEF WriterInv, WriterAt
<1>4. ASSUME NEW i \in Ids, BeginWake(i) PROVE WriterInv'
  <2>1. /\ cards[i] # None
        /\ cards' = [cards EXCEPT ![i] = [[@ EXCEPT !.waking = TRUE] EXCEPT !.state = "Unknown"]]
        /\ checks' = [checks EXCEPT ![i] = [@ EXCEPT !.fresh = FALSE]]
        /\ \A j \in Ids \ {i} : wakes'[j] = wakes[j]
        /\ cards \in [Ids -> Card \cup {None}] /\ checks \in [Ids -> CheckOp]
    BY <1>4 DEF BeginWake, Types, OperationTypes
  <2>2. cards[i] \in Card /\ checks[i] \in CheckOp
        /\ cards'[i] = [[cards[i] EXCEPT !.waking = TRUE] EXCEPT !.state = "Unknown"]
        /\ checks'[i] = [checks[i] EXCEPT !.fresh = FALSE]
        /\ \A j \in Ids \ {i} : cards'[j] = cards[j] /\ checks'[j] = checks[j]
    BY <2>1
  <2>3. cards'[i] \in Card /\ cards'[i].waking /\ ~checks'[i].fresh
    BY <2>2 DEF Card, Observable, CheckOp
  <2>4. WriterAt(i)'
    BY <2>3, NewValues DEF WriterAt
  <2> QED
    BY <1>1, <2>1, <2>2, <2>4, SameWriter DEF WriterInv
<1>5. ASSUME NEW i \in Ids, CancelWake(i) PROVE WriterInv'
  <2>1. wakes' = [wakes EXCEPT ![i].cancelled = TRUE] /\ UNCHANGED <<cards, checks>>
    BY <1>5 DEF CancelWake
  <2>2. wakes'[i].phase = wakes[i].phase /\ \A j \in Ids \ {i} : wakes'[j] = wakes[j]
    BY <2>1 DEF Types, OperationTypes, WakeOp
  <2> QED
    BY <1>1, <2>1, <2>2 DEF WriterInv, WriterAt
<1> QED
  BY <1>2, <1>3, <1>4, <1>5 DEF Sweeping

(* A command never stores a record under the id of a deleted device.         *)
LEMMA CommandsGone ==
    ASSUME Types, PresenceInv, NEW j \in Ids, GoneForGood(j),
           \/ Refresh \/ CloseEditor
           \/ \E i \in Ids : OpenEditor(i) \/ DeleteDevice(i)
           \/ \E form \in Forms : SaveEdit(form)
           \/ \E i \in Ids, found \in Discoveries, form \in Forms : DiscoverDevice(i, found, form)
    PROVE  GoneForGood(j)'
<1>0. store \in [Ids -> Device \cup {None}] /\ j \in allocated /\ store[j] = None
  BY DEF Types, InventoryTypes, Devices, GoneForGood
<1>1. CASE Refresh \/ CloseEditor \/ \E i \in Ids : OpenEditor(i)
  BY <1>1 DEF Refresh, CloseEditor, OpenEditor, GoneForGood
<1>2. ASSUME NEW i \in Ids, DeleteDevice(i) PROVE GoneForGood(j)'
  <2>1. store' = [store EXCEPT ![i] = None] /\ UNCHANGED <<allocated, inbox>>
    BY <1>2 DEF DeleteDevice
  <2> QED
    BY <1>0, <2>1 DEF GoneForGood
<1>3. ASSUME NEW form \in Forms, SaveEdit(form) PROVE GoneForGood(j)'
  <2>1. command.phase = "editing" /\ command.id \in Ids /\ UNCHANGED inbox
        /\ Store(command.id, Edited(command.original, form))
        /\ Edited(command.original, form) \in Device
    BY <1>3, EditedType, ActivityAssumption DEF SaveEdit, Types, InventoryTypes
  <2>2. command.id # j
    BY <1>0, <2>1 DEF PresenceInv, EditorInv
  <2>3. store'[j] = store[j] /\ j \in allocated'
    BY <1>0, <2>1, <2>2, StoreTypes
  <2> QED
    BY <1>0, <2>1, <2>3 DEF GoneForGood
<1>4. ASSUME NEW i \in Ids, NEW found \in Discoveries, NEW form \in Forms,
             DiscoverDevice(i, found, form)
      PROVE  GoneForGood(j)'
  <2>1. i # j /\ UNCHANGED inbox
        /\ Store(i, Edited(Discovered(found), form)) /\ Edited(Discovered(found), form) \in Device
    BY <1>0, <1>4, DiscoveredType, EditedType, ActivityAssumption DEF DiscoverDevice
  <2>2. store'[j] = store[j] /\ j \in allocated'
    BY <1>0, <2>1, StoreTypes
  <2> QED
    BY <1>0, <2>1, <2>2 DEF GoneForGood
<1> QED
  BY <1>1, <1>2, <1>3, <1>4

LEMMA CommandsWriter ==
    ASSUME Types, PresenceInv, WriterInv,
           \/ Refresh \/ CloseEditor
           \/ \E i \in Ids : OpenEditor(i) \/ DeleteDevice(i)
           \/ \E form \in Forms : SaveEdit(form)
           \/ \E i \in Ids, found \in Discoveries, form \in Forms : DiscoverDevice(i, found, form)
    PROVE  WriterInv'
<1>1. UNCHANGED <<cards, checks, wakes>>
  BY DEF Refresh, CloseEditor, OpenEditor, DeleteDevice, SaveEdit, DiscoverDevice, operations
<1>2. \A j \in Ids : GoneForGood(j) => GoneForGood(j)'
  BY CommandsGone
<1> QED
  BY <1>1, <1>2, SameWriter DEF WriterInv

LEMMA ReadWriter == ASSUME Types, WriterInv, ReadList PROVE WriterInv'
<1> DEFINE x == [kind |-> "list", own |-> Head(lists), devices |-> store]
<1>1. /\ inbox' = Append(inbox, x) /\ UNCHANGED <<store, allocated, cards, checks, wakes>>
      /\ inbox \in Seq(Items) /\ Head(lists) \in BOOLEAN
  BY HeadTailProperties DEF ReadList, operations, Types, InventoryTypes
<1>2. x \in Items /\ \A i \in Ids : Lists(x, i) <=> store[i] # None
  BY <1>1 DEF Items, Lists, Types, InventoryTypes
<1> HIDE DEF x
<1>3. \A k \in 1..Len(inbox') : inbox'[k] = x \/ (k \in 1..Len(inbox) /\ inbox'[k] = inbox[k])
  BY <1>1, <1>2, InboxAppend
<1>4. \A i \in Ids : GoneForGood(i) => GoneForGood(i)'
  BY <1>1, <1>2, <1>3 DEF GoneForGood
<1> QED
  BY <1>1, <1>4, SameWriter DEF WriterInv

LEMMA ShowWriter == ASSUME Types, PresenceInv, WriterInv, ShowList PROVE WriterInv'
<1> DEFINE devices == Head(inbox).devices
<1>1. /\ inbox # <<>> /\ inbox' = Tail(inbox) /\ inbox \in Seq(Items)
      /\ Head(inbox).kind = "list" /\ devices \in Devices /\ UNCHANGED <<store, allocated>>
  BY ShowListFacts DEF Types, InventoryTypes
<1>2. /\ 1 \in 1..Len(inbox) /\ inbox[1] = Head(inbox)
      /\ \A k \in 1..Len(inbox') : k + 1 \in 1..Len(inbox) /\ inbox'[k] = inbox[k + 1]
  BY <1>1, InboxTail
<1>3. \A i \in Ids : GoneForGood(i) => GoneForGood(i)'
  BY <1>1, <1>2 DEF GoneForGood
<1>4. ASSUME NEW i \in Ids PROVE WriterAt(i)'
  <2>1. /\ ShownAs(devices, i) /\ checks[i] \in CheckOp /\ wakes[i] \in WakeOp
        /\ cards[i] \in Card \cup {None} /\ devices[i] \in Device \cup {None}
        /\ (cards[i] = None => ~checks[i].fresh)
    BY <1>1, ShowListFacts DEF Types, OperationTypes, Devices, FreshInv
  <2>2. /\ wakes'[i].phase = wakes[i].phase
        /\ checks'[i].fresh => checks[i].fresh
    BY <2>1, ShownKeeps
  <2>3. cards'[i] = Synchronized(cards[i], devices[i])
    BY <2>1 DEF ShownAs
  <2>4. CASE devices[i] = None
    <3>1. cards'[i] = None
      BY <2>3, <2>4 DEF Synchronized
    <3>2. ~checks'[i].fresh
      BY <2>1, <2>2, <2>4 DEF ShownAs, CheckOp
    <3>3. cards[i] # None => GoneForGood(i)
      <4> SUFFICES ASSUME cards[i] # None
                   PROVE  GoneForGood(i)
        OBVIOUS
      <4>1. Drops(inbox[1], i) /\ Earlier(i, 1)
        BY <1>1, <1>2, <2>4 DEF Drops, Earlier
      <4>2. store[i] = None /\ \A n \in 1..Len(inbox) : ~Lists(inbox[n], i)
        BY <1>2, <4>1 DEF PresenceInv, PresenceAt, Convex
      <4>3. i \in allocated
        BY DEF PresenceInv, PresenceAt, Known
      <4> QED
        BY <4>2, <4>3 DEF GoneForGood
    <3>4. wakes[i].phase # "idle" => GoneForGood(i)'
      BY <1>3, <3>3 DEF WriterInv, WriterAt
    <3> QED
      BY <2>2, <3>1, <3>2, <3>4 DEF WriterAt
  <2>5. CASE devices[i] # None /\ cards[i] = None
    <3>1. ~GoneForGood(i)
      BY <1>1, <1>2, <2>5 DEF GoneForGood, Lists
    <3>2. wakes[i].phase = "idle"
      BY <2>5, <3>1 DEF WriterInv, WriterAt
    <3> QED
      BY <2>1, <2>2, <2>5, <3>2 DEF WriterAt
  <2>6. CASE devices[i] # None /\ cards[i] # None
    <3>1. cards'[i] \in {[cards[i] EXCEPT !.dev = devices[i], !.state = "Unknown"],
                         [cards[i] EXCEPT !.dev = devices[i]]}
      BY <2>3, <2>6 DEF Synchronized
    <3>2. cards'[i] # None
      BY <2>1, <2>3, <2>6, SynchronizedType
    <3>3. (cards'[i].waking => cards[i].waking) /\ (cards[i].waking => cards'[i].waking)
      BY <2>1, <2>6, <3>1 DEF Card
    <3> QED
      BY <2>2, <2>6, <3>2, <3>3 DEF WriterInv, WriterAt
  <2> QED
    BY <2>4, <2>5, <2>6
<1> QED
  BY <1>4 DEF WriterInv

LEMMA NextWriter ==
    ASSUME ~ListMayFail, Types, PresenceInv, WriterInv, [Next]_vars
    PROVE  WriterInv'
<1>1. CASE \/ UNCHANGED vars \/ Tick \/ Sweeping \/ StopDone \/ Stop
           \/ \E i \in Ids : BeginWake(i) \/ CancelWake(i)
  BY <1>1, OthersWriter
<1>2. CASE UserStep
  BY <1>1, <1>2, CommandsWriter DEF UserStep
<1>3. CASE Loading
  BY <1>3, ReadWriter, ShowWriter DEF Loading, ListFails
<1> QED
  BY <1>1, <1>2, <1>3, OperationsWriter DEF Next

LEMMA PresenceHolds ==
    ASSUME ~ListMayFail
    PROVE  Spec => [](Types /\ PresenceInv)
<1>1. Init => Types /\ PresenceInv
  BY InitTypes, InitPresence
<1>2. Types /\ PresenceInv /\ [Next]_vars => (Types /\ PresenceInv)'
  BY NextTypes, NextPresence
<1> QED
  BY <1>1, <1>2, PTL DEF Spec

(* While no reload fails, at most one operation may still write to a card,   *)
(* and a card that offers Wake has none in flight: ids are not used again,   *)
(* so a dropped card whose wake still runs cannot come back.                 *)
THEOREM OneWriter ==
    ASSUME ~ListMayFail
    PROVE  Spec => []OneWriterPerCard
<1>1. Init => WriterInv
  <2>1. ASSUME Init, NEW i \in Ids PROVE checks[i].fresh = FALSE /\ wakes[i].phase = "idle"
    <3>1. checks[i] = Idle /\ wakes[i] = NoWake
      BY <2>1 DEF Init
    <3> QED
      BY <3>1 DEF Idle, NoWake
  <2> QED
    BY <2>1 DEF WriterInv, WriterAt
<1>2. Types /\ PresenceInv /\ WriterInv /\ [Next]_vars => WriterInv'
  BY NextWriter
<1>3. Types /\ WriterInv => OneWriterPerCard
  <2> SUFFICES ASSUME Types, WriterInv, NEW i \in Ids
               PROVE  /\ ~(checks[i].fresh /\ wakes[i].fresh)
                      /\ cards[i] # None /\ ~cards[i].waking => wakes[i].phase = "idle"
    BY DEF OneWriterPerCard
  <2>1. wakes[i].fresh => wakes[i].phase # "idle" /\ cards[i] # None
    BY DEF Types, OperationTypes, FreshInv
  <2> QED
    BY <2>1 DEF WriterInv, WriterAt
<1> QED
  BY <1>1, <1>2, <1>3, PresenceHolds, PTL DEF Spec
-----------------------------------------------------------------------------
(* What is stored as Verified, or verified by a wake on its way, was seen.   *)
Proved(i, d) == [id |-> i, target |-> WakeTarget(d)] \in witnessed
VerifiedAt(i) ==
    /\ store[i] # None /\ store[i].cap = "Verified" => Proved(i, store[i])
    /\ wakes[i].verified => Proved(i, wakes[i].dev)
VerifiedInv == \A i \in Ids : VerifiedAt(i)

LEMMA SameVerified ==
    ASSUME NEW i \in Ids, VerifiedAt(i), witnessed \subseteq witnessed',
           \/ store'[i] = store[i]
           \/ store'[i] = None
           \/ store'[i].cap = "Verified" => Proved(i, store'[i])
           \/ /\ store[i] # None
              /\ store'[i].cap = "Verified" => store[i].cap = "Verified"
              /\ WakeTarget(store'[i]) = WakeTarget(store[i]),
           wakes'[i].verified => wakes[i].verified /\ wakes'[i].dev = wakes[i].dev
    PROVE  VerifiedAt(i)'
  BY DEF VerifiedAt, Proved

(* An accepted observation keeps the wake settings, and raises to Verified   *)
(* only by the answer of a verified wake of these settings.                  *)
LEMMA SavedVerified ==
    ASSUME NEW i \in Ids, store[i] # None => store[i] \in Device, NEW op, NEW verify,
           Saved(i, op, verify) # None
    PROVE  /\ store[i] # None
           /\ WakeTarget(Saved(i, op, verify)) = WakeTarget(store[i])
           /\ Saved(i, op, verify).cap = "Verified" =>
                 \/ store[i].cap = "Verified"
                 \/ verify /\ WakeTarget(store[i]) = WakeTarget(op.dev)
<1> DEFINE d == Saved(i, op, verify)
<1>1. d = Observed(store[i], op.dev, op.at, op.state, verify)
      /\ store[i] # None /\ store[i] \in Device
  BY DEF Saved, Accepts
<1>2. /\ d.host = store[i].host /\ d.ip = store[i].ip /\ d.mac = store[i].mac
      /\ d.check = store[i].check /\ d.wake = store[i].wake
      /\ d.cap = IF Qualifies(store[i], op.dev, op.state, verify)
                 THEN "Verified" ELSE store[i].cap
  BY <1>1 DEF Observed, Device
<1>3. WakeTarget(d) = WakeTarget(store[i])
  BY <1>2 DEF WakeTarget, StatusTarget
<1>4. d.cap = "Verified" => \/ store[i].cap = "Verified"
                            \/ verify /\ WakeTarget(store[i]) = WakeTarget(op.dev)
  BY <1>2 DEF Qualifies, SameWake
<1> QED
  BY <1>1, <1>3, <1>4

LEMMA CommitVerified ==
    ASSUME Types, VerifiedInv, NEW kind, NEW i \in Ids, NEW op, NEW verify,
           Commit(kind, i, op, verify), verify => Proved(i, op.dev)
    PROVE  /\ \A j \in Ids \ {i} : store'[j] = store[j]
           /\ store'[i] # None /\ store'[i].cap = "Verified" => Proved(i, store'[i])
<1>1. /\ store' = IF Saved(i, op, verify) = None THEN store
                  ELSE [store EXCEPT ![i] = Saved(i, op, verify)]
      /\ store \in [Ids -> Device \cup {None}]
  BY DEF Commit, Types, InventoryTypes, Devices
<1>2. CASE Saved(i, op, verify) = None
  BY <1>1, <1>2 DEF VerifiedInv, VerifiedAt
<1>3. CASE Saved(i, op, verify) # None
  <2>1. store'[i] = Saved(i, op, verify) /\ \A j \in Ids \ {i} : store'[j] = store[j]
    BY <1>1, <1>3
  <2>2. store[i] # None => store[i] \in Device
    BY <1>1
  <2>3. /\ store[i] # None
        /\ WakeTarget(Saved(i, op, verify)) = WakeTarget(store[i])
        /\ Saved(i, op, verify).cap = "Verified" =>
                 \/ store[i].cap = "Verified"
                 \/ verify /\ WakeTarget(store[i]) = WakeTarget(op.dev)
    BY <1>3, <2>2, SavedVerified
  <2>4. store'[i].cap = "Verified" => Proved(i, store'[i])
    BY <2>1, <2>3 DEF Proved, VerifiedInv, VerifiedAt
  <2> QED
    BY <2>1, <2>4
<1> QED
  BY <1>2, <1>3

LEMMA OperationsVerified ==
    ASSUME Types, VerifiedInv, NEW i \in Ids, CheckStep(i) \/ WakeStep(i)
    PROVE  VerifiedInv'
<1>1. /\ wakes \in [Ids -> WakeOp] /\ wakes[i] \in WakeOp
      /\ wakes[i].verified => Proved(i, wakes[i].dev)
  BY DEF Types, OperationTypes, VerifiedInv, VerifiedAt
<1>2. \A j \in Ids \ {i} : wakes'[j] = wakes[j]
  BY CheckShape, WakeShape
<1>3. ASSUME witnessed \subseteq witnessed', wakes'[i].verified => Proved(i, wakes[i].dev)',
             \/ UNCHANGED store
             \/ /\ \A j \in Ids \ {i} : store'[j] = store[j]
                /\ store'[i] # None /\ store'[i].cap = "Verified" => Proved(i, store'[i])
      PROVE  VerifiedInv'
  <2>1. VerifiedAt(i)'
    BY <1>3 DEF VerifiedInv, VerifiedAt, Proved
  <2>2. \A j \in Ids \ {i} : VerifiedAt(j)'
    BY <1>2, <1>3 DEF VerifiedInv, VerifiedAt, Proved
  <2> QED
    BY <2>1, <2>2 DEF VerifiedInv
<1>4. ASSUME NEW state \in Answers, CheckAnswers(i, state) PROVE VerifiedInv'
  BY <1>1, <1>3, <1>4 DEF CheckAnswers, inventory, Proved
<1>5. CASE CheckFails(i) \/ ResumeCheck(i)
  BY <1>1, <1>3, <1>5 DEF CheckFails, ResumeCheck, inventory, Proved
<1>6. CASE CommitCheck(i)
  <2>1. Commit("check", i, checks[i], FALSE) /\ UNCHANGED <<wakes, witnessed>>
    BY <1>6 DEF CommitCheck, Commit
  <2>2. /\ \A j \in Ids \ {i} : store'[j] = store[j]
        /\ store'[i] # None /\ store'[i].cap = "Verified" => Proved(i, store'[i])
    BY <2>1, CommitVerified
  <2> QED
    BY <1>1, <1>3, <2>1, <2>2 DEF Proved
<1>7. CASE WakeFindsOnline(i) \/ \E before \in Answers : WakeSends(i, before)
  <2>1. /\ UNCHANGED <<store, witnessed>>
        /\ wakes'[i].dev = wakes[i].dev
        /\ wakes'[i].verified => wakes[i].verified
    BY <1>1, <1>7 DEF WakeFindsOnline, WakeSends, inventory, WakeOp
  <2> QED
    BY <1>1, <1>3, <2>1 DEF Proved
<1>8. ASSUME NEW state \in Answers, NEW at \in Times, WakeOutcome(i, state, at) PROVE VerifiedInv'
  <2>1. /\ wakes' = [wakes EXCEPT ![i].phase = "applying", ![i].state = state, ![i].at = at,
                                  ![i].verified = Verifies(wakes[i].before, state)]
        /\ witnessed' = witnessed \cup
             (IF state = "Online" /\ wakes[i].before = "Offline"
              THEN {[id |-> i, target |-> WakeTarget(wakes[i].dev)]} ELSE {})
        /\ UNCHANGED store
    BY <1>8 DEF WakeOutcome, inventory
  <2>2. wakes'[i].dev = wakes[i].dev
    BY <1>1, <2>1 DEF WakeOp
  <2>3. wakes'[i].verified => state = "Online" /\ wakes[i].before = "Offline"
    BY <1>1, <2>1 DEF WakeOp, Verifies
  <2>4. wakes'[i].verified =>
          [id |-> i, target |-> WakeTarget(wakes'[i].dev)] \in witnessed'
    BY <2>1, <2>2, <2>3
  <2>5. wakes'[i].verified => Proved(i, wakes[i].dev)'
    BY <2>4 DEF Proved
  <2> QED
    BY <1>3, <2>1, <2>5
<1>9. CASE WakeAborts(i) \/ ResumeWake(i)
  <2>1. UNCHANGED <<store, witnessed>> /\ wakes'[i] = NoWake
    BY <1>1, <1>9 DEF WakeAborts, ResumeWake, EndWake, inventory
  <2> QED
    BY <1>3, <2>1 DEF NoWake
<1>10. CASE CommitWake(i)
  <2>1. /\ Commit("wake", i, wakes[i], wakes[i].verified) /\ UNCHANGED witnessed
        /\ wakes' = [wakes EXCEPT ![i] = [@ EXCEPT !.phase = "committed",
                                   !.saved = Saved(i, wakes[i], wakes[i].verified)]]
    BY <1>10 DEF CommitWake, Commit, Committed
  <2>2. wakes'[i].dev = wakes[i].dev /\ (wakes'[i].verified => wakes[i].verified)
    BY <1>1, <2>1 DEF WakeOp
  <2>3. /\ \A j \in Ids \ {i} : store'[j] = store[j]
        /\ store'[i] # None /\ store'[i].cap = "Verified" => Proved(i, store'[i])
    BY <1>1, <2>1, CommitVerified
  <2> QED
    BY <1>1, <1>3, <2>1, <2>2, <2>3 DEF Proved
<1> QED
  BY <1>4, <1>5, <1>6, <1>7, <1>8, <1>9, <1>10 DEF CheckStep, WakeStep

LEMMA NewNotVerified ==
    ASSUME NEW d \in Device, d.cap # "Verified", NEW form \in Form
    PROVE  Edited(d, form).cap # "Verified"
<1>1. Edited(d, form).cap = EditedCapability(d, form)
  BY DEF Edited, Device
<1> QED
  BY <1>1 DEF EditedCapability

(* A command keeps Verified only for the wake settings that are stored.      *)
LEMMA StoreVerified ==
    ASSUME Types, VerifiedInv, NEW i \in Ids, NEW d \in Device, Store(i, d),
           store[i] = None => d.cap # "Verified"
    PROVE  /\ \A j \in Ids \ {i} : store'[j] = store[j]
           /\ store'[i].cap = "Verified" => Proved(i, store'[i])
<1>1. /\ store'[i] = IF store[i] = None THEN d ELSE Merged(store[i], d)
      /\ \A j \in Ids \ {i} : store'[j] = store[j]
  BY StoreTypes
<1>2. CASE store[i] # None
  <2>1. store[i] \in Device
    BY <1>2 DEF Types, InventoryTypes, Devices
  <2>2. /\ WakeTarget(Merged(store[i], d)) = WakeTarget(d)
        /\ Merged(store[i], d).cap = MergedCapability(store[i], d)
    BY <2>1, MergedFacts
  <2>3. MergedCapability(store[i], d) = "Verified"
        => store[i].cap = "Verified" /\ WakeTarget(store[i]) = WakeTarget(d)
    BY DEF MergedCapability, SameWake
  <2> QED
    BY <1>1, <1>2, <2>2, <2>3 DEF VerifiedInv, VerifiedAt, Proved
<1>3. CASE store[i] = None
  BY <1>1, <1>3
<1> QED
  BY <1>1, <1>2, <1>3

LEMMA CommandsVerified ==
    ASSUME Types, PresenceInv, VerifiedInv,
           \/ Refresh \/ CloseEditor
           \/ \E i \in Ids : OpenEditor(i) \/ DeleteDevice(i)
           \/ \E form \in Forms : SaveEdit(form)
           \/ \E i \in Ids, found \in Discoveries, form \in Forms : DiscoverDevice(i, found, form)
    PROVE  VerifiedInv'
<1>0. UNCHANGED <<wakes, witnessed>> /\ store \in [Ids -> Device \cup {None}]
  BY DEF Refresh, CloseEditor, OpenEditor, DeleteDevice, SaveEdit, DiscoverDevice, operations,
         Types, InventoryTypes, Devices
<1>1. ASSUME NEW i \in Ids, \A j \in Ids \ {i} : store'[j] = store[j],
             store'[i] = None \/ (store'[i].cap = "Verified" => Proved(i, store'[i]))
      PROVE  VerifiedInv'
  BY <1>0, <1>1, SameVerified DEF VerifiedInv
<1>2. CASE Refresh \/ CloseEditor \/ \E i \in Ids : OpenEditor(i)
  <2>1. UNCHANGED store
    BY <1>2 DEF Refresh, CloseEditor, OpenEditor
  <2> QED
    BY <1>0, <2>1, SameVerified DEF VerifiedInv
<1>3. ASSUME NEW i \in Ids, DeleteDevice(i) PROVE VerifiedInv'
  <2>1. store' = [store EXCEPT ![i] = None]
    BY <1>3 DEF DeleteDevice
  <2> QED
    BY <1>0, <1>1, <2>1
<1>4. ASSUME NEW form \in Forms, SaveEdit(form) PROVE VerifiedInv'
  <2>0. command.phase = "editing" /\ command.id \in Ids /\ command.original \in Device
    BY <1>4 DEF SaveEdit, Types, InventoryTypes
  <2> PICK i \in Ids : i = command.id
    BY <2>0
  <2>1. Store(i, Edited(command.original, form)) /\ form \in Form
    BY <1>4, ActivityAssumption DEF SaveEdit
  <2>2. Edited(command.original, form) \in Device
    BY <2>0, <2>1, EditedType
  <2>3. store[i] = None => command.original = NewDevice
    BY <2>0 DEF PresenceInv, EditorInv
  <2>4. NewDevice.cap # "Verified" /\ NewDevice \in Device
    BY NewDeviceType DEF NewDevice
  <2>5. store[i] = None => Edited(command.original, form).cap # "Verified"
    BY <2>1, <2>3, <2>4, NewNotVerified
  <2>6. /\ \A j \in Ids \ {i} : store'[j] = store[j]
        /\ store'[i].cap = "Verified" => Proved(i, store'[i])
    BY <2>1, <2>2, <2>5, StoreVerified
  <2> QED
    BY <1>1, <2>6
<1>5. ASSUME NEW i \in Ids, NEW found \in Discoveries, NEW form \in Forms,
             DiscoverDevice(i, found, form)
      PROVE  VerifiedInv'
  <2>1. Store(i, Edited(Discovered(found), form)) /\ form \in Form /\ found \in Found
    BY <1>5, ActivityAssumption DEF DiscoverDevice
  <2>2. Discovered(found) \in Device /\ Discovered(found).cap # "Verified"
    BY <2>1, DiscoveredType, NewDeviceType DEF Discovered, NewDevice
  <2>3. Edited(Discovered(found), form) \in Device
        /\ Edited(Discovered(found), form).cap # "Verified"
    BY <2>1, <2>2, EditedType, NewNotVerified
  <2>4. /\ \A j \in Ids \ {i} : store'[j] = store[j]
        /\ store'[i].cap = "Verified" => Proved(i, store'[i])
    BY <2>1, <2>3, StoreVerified
  <2> QED
    BY <1>1, <2>4
<1> QED
  BY <1>2, <1>3, <1>4, <1>5

LEMMA OthersVerified ==
    ASSUME Types, VerifiedInv,
           \/ UNCHANGED vars \/ Tick \/ Sweeping \/ StopDone \/ Stop \/ Loading
           \/ \E i \in Ids : BeginWake(i) \/ CancelWake(i)
    PROVE  VerifiedInv'
<1>0. \A i \in Ids : wakes[i] \in WakeOp
  BY Zenon DEF Types, OperationTypes
<1>1. UNCHANGED <<store, witnessed>>
  BY Zenon DEF vars, Tick, Sweeping, StartSweep, StartBatch, EndSweep, StopDone, Stop, Loading, ReadList,
         ShowList, ListFails, BeginWake, CancelWake, inventory
<1>2. ASSUME NEW j \in Ids PROVE wakes'[j].verified => wakes[j].verified /\ wakes'[j].dev = wakes[j].dev
  <2>1. CASE \/ UNCHANGED vars \/ Tick \/ Sweeping \/ StopDone \/ Stop \/ ReadList \/ ListFails
    BY <2>1 DEF vars, Tick, Sweeping, StartSweep, StartBatch, EndSweep, StopDone, Stop, ReadList,
                ListFails, operations
  <2>2. CASE ShowList
    <3>1. ShownAs(Head(inbox).devices, j)
      BY <2>2, ShowListFacts
    <3>2. checks[j] \in CheckOp
      BY DEF Types, OperationTypes
    <3> QED
      BY <1>0, <3>1, <3>2, ShownKeeps
  <2>3. ASSUME NEW i \in Ids, BeginWake(i) \/ CancelWake(i)
        PROVE  wakes'[j].verified => wakes[j].verified /\ wakes'[j].dev = wakes[j].dev
    <3>1. CASE i # j
      BY <2>3, <3>1 DEF BeginWake, CancelWake, Types, OperationTypes
    <3>2. CASE i = j /\ BeginWake(i)
      <4>1. wakes'[j] = [NoWake EXCEPT !.phase = "looking", !.fresh = TRUE,
                                       !.dev = Copy(cards[i].dev), !.at = now]
        BY <3>2 DEF BeginWake, Types, OperationTypes
      <4>2. wakes'[j].verified = FALSE
        BY <4>1 DEF NoWake
      <4> QED
        BY <4>2
    <3>3. CASE i = j /\ CancelWake(i)
      <4>1. wakes'[j] = [wakes[j] EXCEPT !.cancelled = TRUE] /\ wakes[j] \in WakeOp
        BY <1>0, <3>3 DEF CancelWake, Types, OperationTypes
      <4>2. /\ [wakes[j] EXCEPT !.cancelled = TRUE].verified = wakes[j].verified
            /\ [wakes[j] EXCEPT !.cancelled = TRUE].dev = wakes[j].dev
        BY <4>1 DEF WakeOp
      <4> QED
        BY <4>1, <4>2
    <3> QED
      BY ONLY <2>3, <3>1, <3>2, <3>3, Zenon
  <2> QED
    BY <2>1, <2>2, <2>3, Zenon DEF Loading
<1> QED
  BY <1>1, <1>2, SameVerified DEF VerifiedInv

(* While no reload fails, Verified is stored only for a target and settings  *)
(* that a wake was seen to bring from Offline to Online, however edits,      *)
(* observations, deletions and reloads are interleaved with it.              *)
THEOREM VerifiedWasSeen ==
    ASSUME ~ListMayFail
    PROVE  Spec => []VerifiedWasWitnessed
<1>1. Init => VerifiedInv
  <2> SUFFICES ASSUME Init, NEW i \in Ids
               PROVE  VerifiedAt(i)
    BY DEF VerifiedInv
  <2>1. wakes[i] = NoWake /\ store = InitialDevices
    BY DEF Init
  <2>2. ~wakes[i].verified
    BY <2>1 DEF NoWake
  <2>3. store[i] # None /\ store[i].cap = "Verified" => Proved(i, store[i])
    BY <2>1 DEF Init, Proved
  <2> QED
    BY <2>2, <2>3 DEF VerifiedAt
<1>2. Types /\ PresenceInv /\ VerifiedInv /\ [Next]_vars => VerifiedInv'
  <2> SUFFICES ASSUME Types, PresenceInv, VerifiedInv, [Next]_vars
               PROVE  VerifiedInv'
    OBVIOUS
  <2>1. CASE UserStep
    BY <2>1, CommandsVerified, OthersVerified DEF UserStep
  <2> QED
    BY <2>1, OthersVerified, OperationsVerified DEF Next
<1>3. VerifiedInv => VerifiedWasWitnessed
  BY DEF VerifiedInv, VerifiedAt, VerifiedWasWitnessed, Proved
<1> QED
  BY <1>1, <1>2, <1>3, PresenceHolds, PTL DEF Spec
-----------------------------------------------------------------------------
(* The cards and the store.  Once every reload asked for was read, and the   *)
(* latest did not fail, the queue holds the rest: what it begins with does   *)
(* not matter, but the last list in it, or the cards when there is none,     *)
(* agree with the store, and so do the answers that come after.              *)
Configured(d, e) == /\ SameWake(d, e) /\ d.name = e.name
                    /\ d.cap = "Disabled" <=> e.cap = "Disabled"
Agrees(i, d) == (d = None <=> store[i] = None) /\ (d # None => Configured(d, store[i]))
CardAgrees(i) == /\ cards[i] = None <=> store[i] = None
                 /\ cards[i] # None => Configured(cards[i].dev, store[i])
Brings(i, op) == op.saved # None => Agrees(i, op.saved)
AnswerAgrees(x) == /\ x.kind = "check" => Brings(x.id, checks[x.id])
                   /\ x.kind = "wake" => Brings(x.id, wakes[x.id])
Agreed(k) ==
    /\ k = 0 => \A i \in Ids : CardAgrees(i)
    /\ k > 0 => inbox[k].kind = "list" /\ \A i \in Ids : Agrees(i, inbox[k].devices[i])
    /\ \A m \in 1..Len(inbox) : m > k => inbox[m].kind # "list" /\ AnswerAgrees(inbox[m])
FollowInv == lists = <<>> /\ ~missed => \E k \in 0..Len(inbox) : Agreed(k)

LEMMA ConfiguredTransitive ==
    ASSUME NEW d, NEW e, NEW f, Configured(d, e), Configured(e, f)
    PROVE  Configured(d, f)
  BY DEF Configured, SameWake

LEMMA SavedConfigured ==
    ASSUME Types, NEW i \in Ids, NEW op, op.dev \in Device, op.at \in Times \cup {0},
           op.state \in Observable, NEW verify, Saved(i, op, verify) # None
    PROVE  store[i] # None /\ Configured(Saved(i, op, verify), store[i])
<1> DEFINE d == Saved(i, op, verify)
<1>1. /\ store[i] # None /\ store[i] \in Device /\ SameWake(d, store[i])
      /\ d.cap = IF Qualifies(store[i], op.dev, op.state, verify) THEN "Verified" ELSE store[i].cap
  BY SavedFacts DEF SameWake
<1>2. d.name = store[i].name
  BY <1>1 DEF Saved, Observed, Device
<1>3. d.cap = "Disabled" <=> store[i].cap = "Disabled"
  BY <1>1 DEF Qualifies
<1> QED
  BY <1>1, <1>2, <1>3 DEF Configured

(* A step that neither changes what a card is configured as nor what an      *)
(* operation is to bring to it.                                              *)
Calm == \A i \in Ids :
    /\ cards'[i] = None <=> cards[i] = None
    /\ cards[i] # None => cards'[i].dev = cards[i].dev
    /\ checks'[i].saved \in {checks[i].saved, None} /\ wakes'[i].saved \in {wakes[i].saved, None}

LEMMA ItemKinds ==
    ASSUME inbox \in Seq(Items)
    PROVE  /\ Len(inbox) \in Nat
           /\ \A k \in 1..Len(inbox) : inbox[k] \in Items
           /\ \A x \in Items : x.kind \in {"check", "wake"} => x.id \in Ids
  BY ElementOfSeq, LenProperties DEF Items

Undisturbed == Calm /\ UNCHANGED <<store, inbox, lists, missed>>

LEMMA CalmFollows ==
    ASSUME Types, FollowInv, Undisturbed
    PROVE  FollowInv'
<1> USE DEF Undisturbed
<1>1. inbox \in Seq(Items)
  BY DEF Types, InventoryTypes
<1> SUFFICES ASSUME lists = <<>>, ~missed, NEW k \in 0..Len(inbox), Agreed(k)
             PROVE  Agreed(k)'
  BY DEF FollowInv
<1>2. ASSUME NEW m \in 1..Len(inbox), m > k PROVE AnswerAgrees(inbox[m])'
  BY <1>1, <1>2, ItemKinds DEF Agreed, AnswerAgrees, Brings, Agrees, Calm
<1>3. k = 0 => \A i \in Ids : CardAgrees(i)'
  BY DEF Agreed, CardAgrees, Calm
<1> QED
  BY <1>2, <1>3 DEF Agreed, Agrees
(* An answer is stored, and its result joins the queue.                      *)
Stores(kind, i, op, verify) ==
    /\ op.dev \in Device /\ op.at \in Times \cup {0} /\ op.state \in Observable
    /\ Commit(kind, i, op, verify)
    /\ \A j \in Ids : /\ checks'[j] = checks[j] \/ (kind = "check" /\ j = i)
                      /\ wakes'[j] = wakes[j] \/ (kind = "wake" /\ j = i)
    /\ kind = "check" => checks'[i].saved = Saved(i, op, verify)
    /\ kind = "wake" => wakes'[i].saved = Saved(i, op, verify)

LEMMA CommitFollows ==
    ASSUME Types, FollowInv, NEW kind \in {"check", "wake"}, NEW i \in Ids, NEW op, NEW verify,
           Stores(kind, i, op, verify)
    PROVE  FollowInv'
<1>0. /\ op.dev \in Device /\ op.at \in Times \cup {0} /\ op.state \in Observable
      /\ \A j \in Ids : /\ checks'[j] = checks[j] \/ (kind = "check" /\ j = i)
                        /\ wakes'[j] = wakes[j] \/ (kind = "wake" /\ j = i)
      /\ kind = "check" => checks'[i].saved = Saved(i, op, verify)
      /\ kind = "wake" => wakes'[i].saved = Saved(i, op, verify)
  BY DEF Stores
<1> DEFINE new == [kind |-> kind, id |-> i]
<1>1. /\ store' = IF Saved(i, op, verify) = None THEN store
                  ELSE [store EXCEPT ![i] = Saved(i, op, verify)]
      /\ inbox' = Append(inbox, new) /\ UNCHANGED <<cards, lists, missed>>
  BY DEF Stores, Commit
<1>2. /\ inbox \in Seq(Items) /\ store \in [Ids -> Device \cup {None}] /\ new \in Items
  BY DEF Types, InventoryTypes, Devices, Items
<1>3. \A j \in Ids : /\ store'[j] = None <=> store[j] = None
                     /\ store[j] # None => Configured(store[j], store'[j])
  <2>1. ASSUME NEW j \in Ids, store'[j] = store[j]
        PROVE  /\ store'[j] = None <=> store[j] = None
               /\ store[j] # None => Configured(store[j], store'[j])
    BY <2>1 DEF Configured, SameWake
  <2>2. CASE Saved(i, op, verify) # None
    <3>1. store'[i] = Saved(i, op, verify) /\ store[i] # None
          /\ Configured(store'[i], store[i])
      BY <1>0, <1>1, <1>2, <2>2, SavedConfigured
    <3>2. Configured(store[i], store'[i])
      BY <3>1 DEF Configured, SameWake
    <3> QED
      BY <1>1, <1>2, <2>1, <2>2, <3>1, <3>2
  <2> QED
    BY <1>1, <2>1, <2>2
<1>4. \A j \in Ids : \A d : Agrees(j, d) => Agrees(j, d)'
  BY <1>3, ConfiguredTransitive DEF Agrees
<1>5. \A j \in Ids : CardAgrees(j) => CardAgrees(j)'
  <2> SUFFICES ASSUME NEW j \in Ids, CardAgrees(j) PROVE CardAgrees(j)'
    OBVIOUS
  <2>1. CASE cards[j] = None
    BY <1>1, <1>3, <2>1 DEF CardAgrees
  <2>2. CASE cards[j] # None
    <3>1. store[j] # None /\ Configured(cards[j].dev, store[j]) /\ Configured(store[j], store'[j])
      BY <1>3, <2>2 DEF CardAgrees
    <3>2. Configured(cards[j].dev, store'[j])
      BY <3>1, ConfiguredTransitive
    <3> QED
      BY <1>1, <1>3, <2>2, <3>1, <3>2 DEF CardAgrees
  <2> QED
    BY <2>1, <2>2
<1>6. /\ kind = "check" => Brings(i, checks[i])'
      /\ kind = "wake" => Brings(i, wakes[i])'
  <2>1. Saved(i, op, verify) # None => store'[i] = Saved(i, op, verify)
    BY <1>1, <1>2
  <2> QED
    BY <1>0, <2>1 DEF Brings, Agrees, Configured, SameWake
<1> SUFFICES ASSUME lists = <<>>, ~missed, NEW k \in 0..Len(inbox), Agreed(k)
             PROVE  Agreed(k)' /\ k \in 0..Len(inbox')
  BY <1>1 DEF FollowInv
<1>7. /\ k \in 0..Len(inbox') /\ k \in Nat /\ Len(inbox) \in Nat
      /\ k > 0 => k \in 1..Len(inbox) /\ inbox'[k] = inbox[k]
      /\ \A m \in 1..Len(inbox') : inbox'[m] = new
                                   \/ (m \in 1..Len(inbox) /\ inbox'[m] = inbox[m])
  BY <1>1, <1>2, InboxAppend
<1>8. AnswerAgrees(new)'
  BY <1>6 DEF AnswerAgrees
<1>9. ASSUME NEW x \in Items, AnswerAgrees(x) PROVE AnswerAgrees(x)'
  <2>1. x.kind \in {"check", "wake"} => x.id \in Ids
    BY ItemKinds, <1>2
  <2>2. ASSUME NEW j \in Ids, kind # "check" \/ j # i, Brings(j, checks[j])
        PROVE  Brings(j, checks[j])'
    <3>1. checks'[j] = checks[j]
      BY <1>0, <2>2
    <3> QED
      BY <1>4, <2>2, <3>1 DEF Brings, Agrees
  <2>3. ASSUME NEW j \in Ids, kind # "wake" \/ j # i, Brings(j, wakes[j])
        PROVE  Brings(j, wakes[j])'
    <3>1. wakes'[j] = wakes[j]
      BY <1>0, <2>3
    <3> QED
      BY <1>4, <2>3, <3>1 DEF Brings, Agrees
  <2>4. /\ x.kind = "check" => Brings(x.id, checks[x.id])'
        /\ x.kind = "wake" => Brings(x.id, wakes[x.id])'
    BY <1>6, <1>9, <2>1, <2>2, <2>3 DEF AnswerAgrees
  <2> QED
    BY <2>4 DEF AnswerAgrees
<1>10. \A m \in 1..Len(inbox') : m > k => inbox'[m].kind # "list" /\ AnswerAgrees(inbox[m])'
  <2> SUFFICES ASSUME NEW m \in 1..Len(inbox'), m > k
               PROVE  inbox'[m].kind # "list" /\ AnswerAgrees(inbox[m])'
    OBVIOUS
  <2>1. CASE inbox'[m] = new
    BY <1>8, <2>1
  <2>2. CASE m \in 1..Len(inbox) /\ inbox'[m] = inbox[m]
    <3>1. inbox[m] \in Items /\ inbox[m].kind # "list" /\ AnswerAgrees(inbox[m])
      BY <1>2, <2>2, ItemKinds DEF Agreed
    <3> QED
      BY <1>9, <2>2, <3>1
  <2> QED
    BY <1>7, <2>1, <2>2
<1>11. k > 0 => inbox'[k].kind = "list" /\ \A j \in Ids : Agrees(j, inbox[k].devices[j])'
  BY <1>4, <1>7 DEF Agreed
<1>12. k = 0 => \A j \in Ids : CardAgrees(j)'
  BY <1>5 DEF Agreed
<1> QED
  BY <1>7, <1>10, <1>11, <1>12 DEF Agreed

(* The result at the head of the queue is taken.                             *)
Takes(kind, i, op) ==
    /\ Arrives(kind, i) /\ UNCHANGED <<store, lists, missed>>
    /\ \A j \in Ids : /\ cards'[j] = cards[j] \/ j = i
                      /\ checks'[j].saved \in {checks[j].saved, None}
                       /\ wakes'[j].saved \in {wakes[j].saved, None}
    /\ cards'[i] = None <=> cards[i] = None
    /\ cards[i] # None => \/ cards'[i].dev = cards[i].dev
                          \/ op.saved # None /\ cards'[i].dev = op.saved

LEMMA ResumeFollows ==
    ASSUME Types, FollowInv, NEW kind \in {"check", "wake"}, NEW i \in Ids,
           NEW op, op = IF kind = "check" THEN checks[i] ELSE wakes[i], Takes(kind, i, op)
    PROVE  FollowInv'
<1>0. /\ UNCHANGED <<store, lists, missed>>
      /\ \A j \in Ids : /\ cards'[j] = cards[j] \/ j = i
                        /\ checks'[j].saved \in {checks[j].saved, None}
                         /\ wakes'[j].saved \in {wakes[j].saved, None}
      /\ cards'[i] = None <=> cards[i] = None
      /\ cards[i] # None => \/ cards'[i].dev = cards[i].dev
                            \/ op.saved # None /\ cards'[i].dev = op.saved
  BY DEF Takes
<1> DEFINE head == [kind |-> kind, id |-> i]
<1>1. inbox \in Seq(Items) /\ inbox # <<>> /\ inbox' = Tail(inbox) /\ Head(inbox) = head
  BY DEF Takes, Arrives, Types, InventoryTypes
<1>2. /\ Len(inbox) \in Nat /\ Len(inbox) >= 1 /\ Len(inbox') = Len(inbox) - 1
      /\ inbox[1] = head
      /\ \A m \in 1..Len(inbox') : inbox'[m] = inbox[m + 1] /\ m + 1 \in 1..Len(inbox)
  <2>1. /\ Len(inbox) \in Nat /\ Len(inbox) >= 1 /\ Len(inbox') = Len(inbox) - 1
        /\ inbox[1] = head /\ \A m \in 1..Len(inbox') : inbox'[m] = inbox[m + 1]
    BY <1>1, InboxTail
  <2> QED
    BY <2>1
<1> SUFFICES ASSUME lists = <<>>, ~missed, NEW k \in 0..Len(inbox), Agreed(k)
             PROVE  \E n \in 0..Len(inbox') : Agreed(n)'
  BY <1>0 DEF FollowInv
<1>3. k # 1
  BY <1>2 DEF Agreed
<1>4. ASSUME NEW x \in Items, AnswerAgrees(x) PROVE AnswerAgrees(x)'
  BY <1>0, <1>1, <1>4, ItemKinds DEF AnswerAgrees, Brings, Agrees
<1>5. ASSUME NEW m \in 1..Len(inbox'), m + 1 > k
      PROVE  inbox'[m].kind # "list" /\ AnswerAgrees(inbox[m])'
  <2>1. inbox'[m] = inbox[m + 1] /\ m + 1 \in 1..Len(inbox) /\ inbox[m + 1] \in Items
    BY <1>1, <1>2, ItemKinds
  <2>2. inbox[m + 1].kind # "list" /\ AnswerAgrees(inbox[m + 1])
    BY <1>5, <2>1 DEF Agreed
  <2> QED
    BY <1>4, <2>1, <2>2
<1>6. CASE k = 0
  <2>1. op.saved # None => Agrees(i, op.saved)
    BY <1>2, <1>6 DEF Agreed, AnswerAgrees, Brings
  <2>2. ASSUME NEW j \in Ids PROVE CardAgrees(j)'
    <3>1. CardAgrees(j)
      BY <1>6 DEF Agreed
    <3> QED
      BY <1>0, <2>1, <3>1 DEF CardAgrees, Agrees
  <2>3. Agreed(0)'
    BY <1>2, <1>5, <1>6, <2>2 DEF Agreed
  <2> QED
    BY <1>2, <2>3
<1>7. CASE k > 1
  <2>1. k - 1 \in 1..Len(inbox') /\ inbox'[k - 1] = inbox[k]
    BY <1>2, <1>7
  <2>2. inbox'[k - 1].kind = "list" /\ \A j \in Ids : Agrees(j, inbox[k - 1].devices[j])'
    BY <1>0, <1>7, <2>1 DEF Agreed, Agrees
  <2>3. Agreed(k - 1)'
    BY <1>2, <1>5, <1>7, <2>1, <2>2 DEF Agreed
  <2> QED
    BY <1>2, <2>1, <2>3
<1> QED
  BY <1>2, <1>3, <1>6, <1>7
(* A step of a check or of a wake is one of these.                           *)
LEMMA CheckKind ==
    ASSUME Types, NEW i \in Ids, CheckStep(i)
    PROVE  Undisturbed \/ Stores("check", i, checks[i], FALSE) \/ Takes("check", i, checks[i])
<1>1. /\ checks[i] \in CheckOp /\ checks \in [Ids -> CheckOp] /\ checks[i].saved \in Device \cup {None}
      /\ cards \in [Ids -> Card \cup {None}]
      /\ checks[i].fresh => cards[i] \in Card /\ cards[i] # None
      /\ checks[i].phase # "idle" => checks[i].dev \in Device
  BY DEF Types, OperationTypes, FreshInv, CheckOp
<1>2. /\ \A j \in Ids \ {i} : cards'[j] = cards[j] /\ checks'[j] = checks[j]
      /\ UNCHANGED <<wakes, lists, missed>>
  BY CheckShape
<1>3. ASSUME NEW state \in Answers, CheckAnswers(i, state) PROVE Undisturbed
  <2>1. checks' = [checks EXCEPT ![i] =
                     IF @.fresh /\ ~Stopped
                     THEN [@ EXCEPT !.phase = "applying", !.state = state] ELSE Idle]
        /\ UNCHANGED <<cards, inventory>>
    BY <1>3 DEF CheckAnswers
  <2>2. checks'[i].saved \in {checks[i].saved, None}
    BY <1>1, <2>1 DEF CheckOp, Idle
  <2>3. Calm
    BY <1>2, <2>1, <2>2 DEF Calm
  <2> QED
    BY <2>1, <2>3 DEF Undisturbed, inventory
<1>4. CASE CheckFails(i)
  <2>1. /\ checks' = [checks EXCEPT ![i] = Idle]
        /\ cards' \in {cards, [cards EXCEPT ![i] = ShowUnknown(@, checks[i])]}
        /\ UNCHANGED inventory
    BY <1>4 DEF CheckFails
  <2>2. checks'[i].saved = None
    BY <1>1, <2>1 DEF Idle
  <2>3. \/ cards'[i] = cards[i]
        \/ cards[i] # None /\ cards'[i] # None /\ cards'[i].dev = cards[i].dev
    <3>1. CASE checks[i].fresh
      <4>1. [cards[i] EXCEPT !.state = "Unknown"] \in Card
        BY <1>1, <3>1 DEF Card, Observable
      <4> QED
        BY <1>1, <2>1, <3>1, <4>1, NewValues DEF ShowUnknown, Card
    <3>2. CASE ~checks[i].fresh
      BY <1>1, <2>1, <3>2 DEF ShowUnknown
    <3> QED
      BY <3>1, <3>2
  <2>4. Calm
    BY <1>2, <2>2, <2>3 DEF Calm
  <2> QED
    BY <2>1, <2>4 DEF Undisturbed, inventory
<1>5. CASE CommitCheck(i)
  <2>1. /\ Commit("check", i, checks[i], FALSE) /\ checks[i].phase = "applying"
        /\ checks' = [checks EXCEPT ![i] = [@ EXCEPT !.phase = "committed",
                                                     !.saved = Saved(i, checks[i], FALSE)]]
    BY <1>5 DEF CommitCheck, Commit, Committed
  <2>2. checks'[i].saved = Saved(i, checks[i], FALSE)
    BY <1>1, <2>1 DEF CheckOp
  <2>3. checks[i].dev \in Device /\ checks[i].at \in Times \cup {0} /\ checks[i].state \in Observable
    BY <1>1, <2>1 DEF CheckOp
  <2> QED
    BY <1>2, <2>1, <2>2, <2>3 DEF Stores
<1>6. CASE ResumeCheck(i)
  <2>1. /\ Arrives("check", i) /\ UNCHANGED store
        /\ cards' = [cards EXCEPT ![i] = Show(@, checks[i])]
        /\ checks' = [checks EXCEPT ![i] = Idle]
    BY <1>6 DEF ResumeCheck
  <2>2. checks'[i].saved = None
    BY <1>1, <2>1 DEF Idle
  <2>3. /\ cards'[i] = None <=> cards[i] = None
        /\ cards[i] # None => \/ cards'[i].dev = cards[i].dev
                              \/ checks[i].saved # None /\ cards'[i].dev = checks[i].saved
    <3>1. CASE checks[i].saved = None \/ ~checks[i].fresh
      BY <1>1, <2>1, <3>1 DEF Show
    <3>2. CASE checks[i].saved # None /\ checks[i].fresh
      <4>1. checks[i].phase # "idle"
        BY <3>2 DEF Types, OperationTypes
      <4>2. Show(cards[i], checks[i]) \in Card
        BY <1>1, <3>2, <4>1, ShowType DEF CheckOp
      <4>3. cards'[i] = [cards[i] EXCEPT !.dev = checks[i].saved, !.state = checks[i].state,
                                         !.shownFor = StatusTarget(checks[i].dev)]
            /\ cards'[i] = Show(cards[i], checks[i])
        BY <1>1, <2>1, <3>2 DEF Show
      <4> QED
        BY <1>1, <3>2, <4>2, <4>3, NewValues DEF Card
    <3> QED
      BY <3>1, <3>2
  <2> QED
    BY <1>2, <2>1, <2>2, <2>3 DEF Takes
<1> QED
  BY <1>3, <1>4, <1>5, <1>6 DEF CheckStep
LEMMA WakeKind ==
    ASSUME Types, NEW i \in Ids, WakeStep(i)
    PROVE  \/ Undisturbed \/ Stores("wake", i, wakes[i], wakes[i].verified)
           \/ Takes("wake", i, wakes[i])
<1>1. /\ wakes[i] \in WakeOp /\ wakes \in [Ids -> WakeOp] /\ wakes[i].saved \in Device \cup {None}
      /\ cards \in [Ids -> Card \cup {None}] /\ cards[i] \in Card \cup {None}
      /\ wakes[i].fresh => cards[i] \in Card /\ cards[i] # None
      /\ wakes[i].phase # "idle" => wakes[i].dev \in Device
  BY DEF Types, OperationTypes, FreshInv, WakeOp
<1>2. /\ \A j \in Ids \ {i} : cards'[j] = cards[j] /\ wakes'[j] = wakes[j]
      /\ UNCHANGED <<checks, lists, missed>>
  BY WakeShape
<1>3. CASE \/ WakeFindsOnline(i)
           \/ \E state \in Answers, at \in Times : WakeOutcome(i, state, at)
  <2>1. UNCHANGED <<cards, inventory>> /\ wakes'[i].saved = wakes[i].saved
    <3>1. CASE WakeFindsOnline(i)
      BY <1>1, <3>1 DEF WakeFindsOnline, WakeOp
    <3>2. ASSUME NEW state \in Answers, NEW at \in Times, WakeOutcome(i, state, at)
          PROVE  UNCHANGED <<cards, inventory>> /\ wakes'[i].saved = wakes[i].saved
      BY <1>1, <3>2 DEF WakeOutcome, WakeOp
    <3> QED
      BY <1>3, <3>1, <3>2
  <2>2. Calm
    BY <1>2, <2>1 DEF Calm
  <2> QED
    BY <2>1, <2>2 DEF Undisturbed, inventory
<1>4. ASSUME NEW before \in Answers, WakeSends(i, before) PROVE Undisturbed
  <2>1. /\ wakes' = [wakes EXCEPT ![i].phase = "sent", ![i].before = before]
        /\ cards' = [cards EXCEPT ![i] = IF wakes[i].fresh
                                         THEN [@ EXCEPT !.state = "Waking"] ELSE @]
        /\ UNCHANGED inventory
    BY <1>4 DEF WakeSends
  <2>2. wakes'[i].saved = wakes[i].saved
    BY <1>1, <2>1 DEF WakeOp
  <2>3. \/ cards'[i] = cards[i]
        \/ cards[i] # None /\ cards'[i] # None /\ cards'[i].dev = cards[i].dev
    <3>1. wakes[i].fresh => [cards[i] EXCEPT !.state = "Waking"] \in Card
      BY <1>1 DEF Card
    <3> QED
      BY <1>1, <2>1, <3>1, NewValues DEF Card
  <2>4. Calm
    BY <1>2, <2>2, <2>3 DEF Calm
  <2> QED
    BY <2>1, <2>4 DEF Undisturbed, inventory
<1>5. CASE WakeAborts(i)
  <2>1. /\ EndWake(i, ShowUnknown(cards[i], wakes[i])) /\ UNCHANGED inventory
    BY <1>5 DEF WakeAborts
  <2>2. /\ ShowUnknown(cards[i], wakes[i]) \in Card \cup {None}
        /\ ShowUnknown(cards[i], wakes[i]) = None <=> cards[i] = None
        /\ cards[i] # None => ShowUnknown(cards[i], wakes[i]).dev = cards[i].dev
    <3>1. wakes[i].fresh => [cards[i] EXCEPT !.state = "Unknown"] \in Card
      BY <1>1 DEF Card, Observable
    <3> QED
      BY <1>1, <3>1, NewValues DEF ShowUnknown, Card
  <2>3. /\ wakes'[i].saved = None
        /\ cards'[i] = None <=> cards[i] = None
        /\ cards[i] # None => cards'[i].dev = cards[i].dev
    BY <2>1, <2>2, EndWakeShape
  <2>4. Calm
    BY <1>2, <2>3 DEF Calm
  <2> QED
    BY <2>1, <2>4 DEF Undisturbed, inventory
<1>6. CASE CommitWake(i)
  <2>1. /\ Commit("wake", i, wakes[i], wakes[i].verified) /\ wakes[i].phase = "applying"
        /\ wakes' = [wakes EXCEPT ![i] = [@ EXCEPT !.phase = "committed",
                                       !.saved = Saved(i, wakes[i], wakes[i].verified)]]
    BY <1>6 DEF CommitWake, Commit, Committed
  <2>2. wakes'[i].saved = Saved(i, wakes[i], wakes[i].verified)
    BY <1>1, <2>1 DEF WakeOp
  <2>3. wakes[i].dev \in Device /\ wakes[i].at \in Times \cup {0} /\ wakes[i].state \in Observable
    BY <1>1, <2>1 DEF WakeOp
  <2> QED
    BY <1>2, <2>1, <2>2, <2>3 DEF Stores
<1>7. CASE ResumeWake(i)
  <2>1. /\ Arrives("wake", i) /\ UNCHANGED store /\ EndWake(i, Show(cards[i], wakes[i]))
    BY <1>7 DEF ResumeWake
  <2>2. /\ Show(cards[i], wakes[i]) \in Card \cup {None}
        /\ Show(cards[i], wakes[i]) = None <=> cards[i] = None
        /\ cards[i] # None => \/ Show(cards[i], wakes[i]).dev = cards[i].dev
                              \/ /\ wakes[i].saved # None
                                 /\ Show(cards[i], wakes[i]).dev = wakes[i].saved
    <3>1. CASE wakes[i].saved = None \/ ~wakes[i].fresh
      BY <1>1, <3>1 DEF Show
    <3>2. CASE wakes[i].saved # None /\ wakes[i].fresh
      <4>1. wakes[i].phase # "idle"
        BY <3>2 DEF Types, OperationTypes
      <4>2. Show(cards[i], wakes[i]) \in Card
        BY <1>1, <3>2, <4>1, ShowType DEF WakeOp
      <4>3. Show(cards[i], wakes[i]).dev = wakes[i].saved
        BY <1>1, <3>2 DEF Show, Card
      <4> QED
        BY <1>1, <3>2, <4>2, <4>3, NewValues
    <3> QED
      BY <3>1, <3>2
  <2>3. /\ wakes'[i].saved = None
        /\ cards'[i] = None <=> cards[i] = None
        /\ cards[i] # None => \/ cards'[i].dev = cards[i].dev
                              \/ wakes[i].saved # None /\ cards'[i].dev = wakes[i].saved
    BY <2>1, <2>2, EndWakeShape
  <2> QED
    BY <1>2, <2>1, <2>3 DEF Takes
<1> QED
  BY <1>3, <1>4, <1>5, <1>6, <1>7 DEF WakeStep
LEMMA OtherKinds ==
    ASSUME Types, \/ UNCHANGED vars \/ Tick \/ Sweeping \/ StopDone \/ Stop
                  \/ \E i \in Ids : BeginWake(i) \/ CancelWake(i) \/ OpenEditor(i)
                  \/ CloseEditor
    PROVE  Undisturbed
<1>1. /\ checks \in [Ids -> CheckOp] /\ wakes \in [Ids -> WakeOp]
      /\ cards \in [Ids -> Card \cup {None}]
  BY DEF Types, OperationTypes
<1>2. CASE UNCHANGED operations /\ UNCHANGED <<store, inbox, lists, missed>>
  BY <1>2 DEF Undisturbed, Calm, operations
<1>3. \/ UNCHANGED vars \/ Tick \/ StopDone \/ Stop \/ CloseEditor \/ \E i \in Ids : OpenEditor(i)
      => UNCHANGED operations /\ UNCHANGED <<store, inbox, lists, missed>>
  BY DEF vars, Tick, StopDone, Stop, CloseEditor, OpenEditor, operations, inventory
<1>4. CASE StartSweep \/ EndSweep
  <2>1. UNCHANGED <<cards, checks, wakes, inventory>>
    BY <1>4 DEF StartSweep, EndSweep
  <2> QED
    BY <2>1 DEF Undisturbed, Calm, inventory
<1>5. CASE StartBatch
  <2>1. PICK batch \in SUBSET sweep.pending :
          checks' = [i \in Ids |->
               IF i \in batch /\ Probes(i)
               THEN [Idle EXCEPT !.phase = "probing", !.dev = Copy(cards[i].dev),
                                 !.fresh = TRUE, !.at = now]
               ELSE checks[i]]
    BY <1>5 DEF StartBatch
  <2>2. UNCHANGED <<cards, wakes, inventory>>
    BY <1>5 DEF StartBatch
  <2>3. \A i \in Ids : checks'[i].saved \in {checks[i].saved, None}
    BY <2>1 DEF Idle
  <2> QED
    BY <2>2, <2>3 DEF Undisturbed, Calm, inventory
<1>6. ASSUME NEW i \in Ids, BeginWake(i) PROVE Undisturbed
  <2>1. /\ cards[i] # None /\ UNCHANGED inventory
        /\ cards' = [cards EXCEPT ![i] = [[@ EXCEPT !.waking = TRUE] EXCEPT !.state = "Unknown"]]
        /\ checks' = [checks EXCEPT ![i] = [@ EXCEPT !.fresh = FALSE]]
        /\ wakes' = [wakes EXCEPT ![i] = [NoWake EXCEPT !.phase = "looking", !.fresh = TRUE,
                                             !.dev = Copy(cards[i].dev), !.at = now]]
    BY <1>6 DEF BeginWake
  <2>2. /\ cards'[i] # None /\ cards'[i].dev = cards[i].dev
        /\ \A j \in Ids \ {i} : cards'[j] = cards[j]
    <3>1. cards[i] \in Card /\ cards'[i] = [[cards[i] EXCEPT !.waking = TRUE] EXCEPT !.state = "Unknown"]
      BY <1>1, <2>1
    <3>2. cards'[i] \in Card /\ cards'[i].dev = cards[i].dev
      BY <3>1 DEF Card, Observable
    <3> QED
      BY <1>1, <2>1, <3>2, NewValues
  <2>3. \A j \in Ids : /\ checks'[j].saved = checks[j].saved
                       /\ wakes'[j].saved \in {wakes[j].saved, None}
    BY <1>1, <2>1 DEF CheckOp, NoWake
  <2> QED
    BY <2>1, <2>2, <2>3 DEF Undisturbed, Calm, inventory
<1>7. ASSUME NEW i \in Ids, CancelWake(i) PROVE Undisturbed
  <2>1. UNCHANGED <<cards, checks, inventory>> /\ wakes' = [wakes EXCEPT ![i].cancelled = TRUE]
    BY <1>7 DEF CancelWake
  <2>2. \A j \in Ids : wakes'[j].saved = wakes[j].saved
    BY <1>1, <2>1 DEF WakeOp
  <2> QED
    BY <2>1, <2>2 DEF Undisturbed, Calm, inventory
<1> QED
  BY <1>2, <1>3, <1>4, <1>5, <1>6, <1>7 DEF Sweeping

LEMMA OperationsFollow ==
    ASSUME Types, FollowInv, NEW i \in Ids, CheckStep(i) \/ WakeStep(i)
    PROVE  FollowInv'
<1>1. CASE CheckStep(i)
  BY <1>1, CheckKind, CalmFollows, CommitFollows, ResumeFollows
<1>2. CASE WakeStep(i)
  BY <1>2, WakeKind, CalmFollows, CommitFollows, ResumeFollows
<1> QED
  BY <1>1, <1>2

(* A command that asks for a reload leaves the rest to it.                   *)
LEMMA ReloadFollows ==
    ASSUME Types, NEW own \in BOOLEAN, Reload(own)
    PROVE  FollowInv'
<1>1. lists' # <<>>
  BY AppendProperties DEF Reload, Types, InventoryTypes
<1> QED
  BY <1>1 DEF FollowInv

LEMMA ReadFollows == ASSUME Types, ReadList PROVE FollowInv'
<1> DEFINE x == [kind |-> "list", own |-> Head(lists), devices |-> store]
           k == Len(inbox')
<1>1. /\ inbox' = Append(inbox, x) /\ UNCHANGED store
      /\ lists # <<>> /\ lists \in Seq(BOOLEAN) /\ inbox \in Seq(Items) /\ store \in Devices
  BY DEF ReadList, Types, InventoryTypes
<1>2. x \in Items
  BY <1>1, HeadTailProperties DEF Items
<1>3. Len(inbox) \in Nat /\ Len(inbox') = Len(inbox) + 1 /\ inbox'[Len(inbox')] = x
  BY <1>1, <1>2, InboxAppend
<1>4. \A i \in Ids : Agrees(i, inbox[Len(inbox)].devices[i])'
  BY <1>1, <1>3 DEF Agrees, Configured, SameWake
<1>5. k \in 0..Len(inbox') /\ k > 0 /\ inbox'[k].kind = "list"
      /\ \A m \in 1..Len(inbox') : ~(m > k)
  BY <1>3
<1>6. Agreed(Len(inbox))'
  BY <1>4, <1>5 DEF Agreed
<1> QED
  BY <1>5, <1>6 DEF FollowInv

(* A list that agrees with the store makes the cards agree.                  *)
LEMMA ShowFollows == ASSUME Types, FollowInv, ShowList PROVE FollowInv'
<1> DEFINE devices == Head(inbox).devices
<1>1. /\ inbox \in Seq(Items) /\ inbox # <<>> /\ inbox' = Tail(inbox)
      /\ Head(inbox).kind = "list" /\ devices \in Devices
      /\ \A i \in Ids : ShownAs(devices, i)
      /\ UNCHANGED <<store, lists, missed>>
  BY ShowListFacts DEF Types, InventoryTypes
<1>2. /\ Len(inbox) \in Nat /\ Len(inbox) >= 1 /\ Len(inbox') = Len(inbox) - 1
      /\ inbox[1] = Head(inbox)
      /\ \A m \in 1..Len(inbox') : inbox'[m] = inbox[m + 1] /\ m + 1 \in 1..Len(inbox)
  BY <1>1, InboxTail
<1>3. ASSUME NEW i \in Ids
      PROVE  checks'[i].saved = checks[i].saved /\ wakes'[i].saved = wakes[i].saved
  <2>1. checks[i] \in CheckOp /\ wakes[i] \in WakeOp
    BY DEF Types, OperationTypes
  <2> QED
    BY <1>1, <2>1, ShownKeeps
<1> SUFFICES ASSUME lists = <<>>, ~missed, NEW k \in 0..Len(inbox), Agreed(k)
             PROVE  \E n \in 0..Len(inbox') : Agreed(n)'
  BY <1>1 DEF FollowInv
<1>4. k >= 1
  BY <1>1, <1>2 DEF Agreed
<1>5. ASSUME NEW x \in Items, AnswerAgrees(x) PROVE AnswerAgrees(x)'
  BY <1>1, <1>3, <1>5, ItemKinds DEF AnswerAgrees, Brings, Agrees
<1>6. ASSUME NEW m \in 1..Len(inbox'), m + 1 > k
      PROVE  inbox'[m].kind # "list" /\ AnswerAgrees(inbox[m])'
  <2>1. inbox'[m] = inbox[m + 1] /\ m + 1 \in 1..Len(inbox) /\ inbox[m + 1] \in Items
    BY <1>1, <1>2, ItemKinds
  <2>2. inbox[m + 1].kind # "list" /\ AnswerAgrees(inbox[m + 1])
    BY <1>6, <2>1 DEF Agreed
  <2> QED
    BY <1>5, <2>1, <2>2
<1>7. CASE k = 1
  <2>1. ASSUME NEW i \in Ids PROVE CardAgrees(i)'
    <3>1. /\ Agrees(i, devices[i]) /\ cards'[i] = Synchronized(cards[i], devices[i])
          /\ cards[i] \in Card \cup {None} /\ devices[i] \in Device \cup {None}
      <4>1. \A j \in Ids : Agrees(j, inbox[k].devices[j])
        BY <1>7 DEF Agreed
      <4>2. Agrees(i, devices[i])
        BY <1>2, <1>7, <4>1
      <4> QED
        BY <1>1, <4>2 DEF ShownAs, Types, OperationTypes, Devices
    <3>2. /\ cards'[i] = None <=> devices[i] = None
          /\ devices[i] # None => cards'[i].dev = devices[i]
      <4>1. CASE devices[i] = None
        BY <3>1, <4>1 DEF Synchronized
      <4>2. CASE devices[i] # None /\ cards[i] = None
        BY <3>1, <4>2, NewValues DEF Synchronized, NewCard
      <4>3. CASE devices[i] # None /\ cards[i] # None
        <5>1. cards'[i] \in {[cards[i] EXCEPT !.dev = devices[i], !.state = "Unknown"],
                             [cards[i] EXCEPT !.dev = devices[i]]}
          BY <3>1, <4>3 DEF Synchronized
        <5>2. cards'[i] \in Card /\ cards'[i].dev = devices[i]
          BY <3>1, <4>3, <5>1 DEF Card, Observable
        <5>3. cards'[i] # None
          BY <5>2, NewValues
        <5> QED
          BY <4>3, <5>2, <5>3
      <4> QED
        BY <4>1, <4>2, <4>3
    <3> QED
      <4>1. store'[i] = store[i]
        BY <1>1, Zenon
      <4> QED
        BY <3>1, <3>2, <4>1, Zenon DEF CardAgrees, Agrees
  <2>2. Agreed(0)'
    BY <1>2, <1>6, <1>7, <2>1 DEF Agreed
  <2> QED
    BY <1>2, <2>2
<1>8. CASE k > 1
  <2>1. k - 1 \in 1..Len(inbox') /\ inbox'[k - 1] = inbox[k]
    BY <1>2, <1>8
  <2>2. inbox'[k - 1].kind = "list" /\ \A j \in Ids : Agrees(j, inbox[k - 1].devices[j])'
    BY <1>1, <1>8, <2>1 DEF Agreed, Agrees
  <2>3. ASSUME NEW m \in 1..Len(inbox'), m > k - 1
        PROVE  inbox'[m].kind # "list" /\ AnswerAgrees(inbox[m])'
    <3>1. m + 1 > k
      BY <1>2, <2>3
    <3> QED
      BY <1>6, <3>1
  <2>4. k - 1 # 0 /\ k - 1 > 0
    BY <1>8
  <2>5. \A m \in 1..Len(inbox') : m > k - 1 => inbox'[m].kind # "list" /\ AnswerAgrees(inbox[m])'
    BY <2>3
  <2>6. Agreed(k - 1)'
    BY ONLY <2>2, <2>4, <2>5 DEF Agreed
  <2> QED
    BY <1>2, <2>1, <2>6
<1> QED
  BY <1>2, <1>4, <1>7, <1>8

LEMMA InitFollows == ASSUME Init PROVE FollowInv
<1>1. Len(inbox) = 0 /\ \A i \in Ids : CardAgrees(i)
  <2>1. \A i \in Ids : cards[i] = IF InitialDevices[i] = None THEN None
                                  ELSE NewCard(InitialDevices[i])
    BY DEF Init
  <2>2. \A i \in Ids : InitialDevices[i] # None => InitialDevices[i] \in Device
    BY ActivityAssumption
  <2> QED
    <3>1. ASSUME NEW i \in Ids PROVE CardAgrees(i)
      <4>1. CASE InitialDevices[i] = None
        BY <2>1, <4>1 DEF Init, CardAgrees
      <4>2. CASE InitialDevices[i] # None
        <5>1. cards[i] # None /\ cards[i].dev = InitialDevices[i]
          <6>1. NewCard(InitialDevices[i]) # None
            BY <2>2, <4>2, NewValues
          <6>2. cards[i] = NewCard(InitialDevices[i])
            BY <2>1, <4>2
          <6>3. NewCard(InitialDevices[i]).dev = InitialDevices[i]
            BY DEF NewCard
          <6> QED
            BY <6>1, <6>2, <6>3
        <5> QED
          BY <4>2, <5>1 DEF Init, CardAgrees, Configured, SameWake
      <4> QED
        BY <4>1, <4>2
    <3> QED
      BY <3>1, EmptySeq DEF Init
<1>2. Agreed(0)
  BY <1>1 DEF Agreed
<1> QED
  BY <1>1, <1>2 DEF FollowInv

LEMMA NextFollows == ASSUME Types, FollowInv, [Next]_vars PROVE FollowInv'
<1>1. ASSUME \/ Refresh \/ \E i \in Ids : DeleteDevice(i)
             \/ \E form \in Forms : SaveEdit(form)
             \/ \E i \in Ids, found \in Discoveries, form \in Forms :
                  DiscoverDevice(i, found, form)
      PROVE  FollowInv'
  BY <1>1, ReloadFollows DEF Refresh, DeleteDevice, SaveEdit, DiscoverDevice
<1>2. CASE UserStep
  BY <1>1, <1>2, OtherKinds, CalmFollows DEF UserStep
<1>3. CASE ListFails
  BY <1>3 DEF ListFails, FollowInv
<1>4. CASE Loading
  BY <1>3, <1>4, ReadFollows, ShowFollows DEF Loading
<1> QED
  BY <1>2, <1>4, OperationsFollow, OtherKinds, CalmFollows DEF Next

(* Once every reload was shown, and the latest did not fail, the cards are   *)
(* the stored devices with their stored configuration: an answer shows what  *)
(* its transaction stored, and the queue hands over in the order of those.   *)
THEOREM CardsAgree == Spec => []CardsFollowStore
<1>1. Init => Types /\ FollowInv
  BY InitTypes, InitFollows
<1>2. Types /\ FollowInv /\ [Next]_vars => (Types /\ FollowInv)'
  BY NextTypes, NextFollows
<1>3. FollowInv => CardsFollowStore
  <2>1. inbox = <<>> => Len(inbox) = 0
    BY EmptySeq
  <2>2. ASSUME FollowInv, lists = <<>>, inbox = <<>>, ~missed PROVE \A i \in Ids : CardAgrees(i)
    BY <2>1, <2>2 DEF FollowInv, Agreed
  <2> QED
    BY <2>2 DEF CardsFollowStore, CardAgrees, Configured
<1> QED
  BY <1>1, <1>2, <1>3, PTL DEF Spec
-----------------------------------------------------------------------------
(* A result of a wake is for the wake that awaits it, and there is one.      *)
AwaitedInv ==
    \A m \in 1..Len(inbox) : inbox[m].kind = "wake" =>
        /\ wakes[inbox[m].id].phase = "committed"
        /\ \A n \in 1..Len(inbox) : inbox[n].kind = "wake" /\ inbox[n].id = inbox[m].id => n = m

\* Taking the head of the inbox keeps the outcomes that are on the way.
LEMMA TakenAwaited ==
    ASSUME inbox \in Seq(Items), AwaitedInv,
           \A i \in Ids : wakes[i].phase = "committed" => wakes'[i].phase = "committed",
           inbox # <<>>, inbox' = Tail(inbox)
    PROVE  AwaitedInv'
<1>1. /\ Len(inbox) \in Nat /\ Len(inbox') = Len(inbox) - 1
      /\ \A m \in 1..Len(inbox') : inbox'[m] = inbox[m + 1]
  BY InboxTail, Zenon
<1>2. \A m \in 1..Len(inbox') : m \in Nat /\ m + 1 \in 1..Len(inbox)
  BY <1>1
<1>3. \A m \in 1..Len(inbox') : inbox'[m].kind = "wake" =>
        inbox'[m].id \in Ids /\ wakes'[inbox'[m].id].phase = "committed"
  <2> TAKE m \in 1..Len(inbox')
  <2>1. m + 1 \in 1..Len(inbox) /\ inbox'[m] = inbox[m + 1]
    BY <1>1, <1>2, Zenon
  <2>2. inbox[m + 1].kind = "wake" => inbox[m + 1].id \in Ids
    BY <2>1, ItemKinds, Zenon
  <2>3. inbox[m + 1].kind = "wake" => wakes[inbox[m + 1].id].phase = "committed"
    BY <2>1, Zenon DEF AwaitedInv
  <2> QED
    BY <2>1, <2>2, <2>3, Zenon
<1>4. \A m, n \in 1..Len(inbox') :
        inbox'[m].kind = "wake" /\ inbox'[n].kind = "wake" /\ inbox'[n].id = inbox'[m].id
        => n = m
  <2> SUFFICES ASSUME NEW m \in 1..Len(inbox'), NEW n \in 1..Len(inbox'),
                      inbox'[m].kind = "wake", inbox'[n].kind = "wake",
                      inbox'[n].id = inbox'[m].id
               PROVE  n = m
    BY Zenon
  <2>1. /\ m + 1 \in 1..Len(inbox) /\ inbox'[m] = inbox[m + 1]
        /\ n + 1 \in 1..Len(inbox) /\ inbox'[n] = inbox[n + 1]
    BY <1>1, <1>2, Zenon
  <2>2. n + 1 = m + 1
    BY <2>1, Zenon DEF AwaitedInv
  <2>3. n \in Nat /\ m \in Nat
    BY <1>2, Zenon
  <2> QED
    BY <2>2, <2>3
<1> QED
  BY <1>3, <1>4, Zenon DEF AwaitedInv

LEMMA SameAwaited ==
    ASSUME Types, AwaitedInv,
           \A i \in Ids : wakes[i].phase = "committed" => wakes'[i].phase = "committed",
           \/ UNCHANGED inbox
           \/ \E x \in Items : x.kind # "wake" /\ inbox' = Append(inbox, x)
           \/ inbox # <<>> /\ inbox' = Tail(inbox)
    PROVE  AwaitedInv'
<1>1. inbox \in Seq(Items)
  BY DEF Types, InventoryTypes
<1>2. \A m \in 1..Len(inbox) : inbox[m].kind = "wake" =>
        inbox[m].id \in Ids /\ wakes'[inbox[m].id].phase = "committed"
  BY <1>1, ItemKinds DEF AwaitedInv
<1>3. CASE UNCHANGED inbox
  BY <1>2, <1>3 DEF AwaitedInv
<1>4. ASSUME NEW x \in Items, x.kind # "wake", inbox' = Append(inbox, x)
      PROVE  AwaitedInv'
  <2>1. \A m \in 1..Len(inbox') :
           inbox'[m] = x \/ (m \in 1..Len(inbox) /\ inbox'[m] = inbox[m])
    BY <1>1, <1>4, InboxAppend
  <2> SUFFICES ASSUME NEW m \in 1..Len(inbox'), inbox'[m].kind = "wake"
               PROVE  /\ wakes'[inbox'[m].id].phase = "committed"
                      /\ \A n \in 1..Len(inbox') :
                           inbox'[n].kind = "wake" /\ inbox'[n].id = inbox'[m].id => n = m
    BY DEF AwaitedInv
  <2>2. \A n \in 1..Len(inbox') : inbox'[n].kind = "wake" =>
           n \in 1..Len(inbox) /\ inbox'[n] = inbox[n]
    BY <1>4, <2>1
  <2>3. m \in 1..Len(inbox) /\ inbox'[m] = inbox[m]
    BY <2>2
  <2>4. ASSUME NEW n \in 1..Len(inbox'), inbox'[n].kind = "wake", inbox'[n].id = inbox'[m].id
        PROVE  n = m
    <3>1. n \in 1..Len(inbox) /\ inbox'[n] = inbox[n]
      BY <2>2, <2>4
    <3> QED
      BY <2>3, <2>4, <3>1 DEF AwaitedInv
  <2>5. inbox[m].kind = "wake"
    BY <2>3
  <2>6. wakes'[inbox'[m].id].phase = "committed"
    BY <1>2, <2>3, <2>5
  <2> QED
    BY <2>4, <2>6
<1>5. CASE inbox # <<>> /\ inbox' = Tail(inbox)
  BY <1>1, <1>5, TakenAwaited
<1> QED
  BY <1>3, <1>4, <1>5

LEMMA WakeAwaited ==
    ASSUME Types, AwaitedInv, NEW i \in Ids, WakeStep(i)
    PROVE  AwaitedInv'
<1>1. /\ inbox \in Seq(Items) /\ wakes \in [Ids -> WakeOp]
      /\ \A j \in Ids \ {i} : wakes'[j] = wakes[j]
  BY WakeShape DEF Types, InventoryTypes, OperationTypes
<1>2. \A m \in 1..Len(inbox) : inbox[m].kind = "wake" => inbox[m].id \in Ids
  BY <1>1, ItemKinds
<1>3. CASE \/ WakeFindsOnline(i) \/ WakeAborts(i)
           \/ \E before \in Answers : WakeSends(i, before)
           \/ \E state \in Answers, at \in Times : WakeOutcome(i, state, at)
  <2>1. UNCHANGED inbox /\ wakes[i].phase # "committed"
    BY <1>3 DEF WakeFindsOnline, WakeAborts, WakeSends, WakeOutcome, inventory
  <2> QED
    BY <1>1, <2>1, SameAwaited
<1>4. CASE CommitWake(i)
  <2> DEFINE new == [kind |-> "wake", id |-> i]
  <2>1. /\ wakes[i].phase = "applying" /\ inbox' = Append(inbox, new) /\ new \in Items
        /\ wakes' = [wakes EXCEPT ![i] = [@ EXCEPT !.phase = "committed",
                                      !.saved = Saved(i, wakes[i], wakes[i].verified)]]
    BY <1>4 DEF CommitWake, Commit, Committed, Items
  <2>2. wakes'[i].phase = "committed"
    BY <1>1, <2>1 DEF WakeOp
  <2>3. /\ inbox'[Len(inbox')] = new
        /\ \A m \in 1..Len(inbox') : m = Len(inbox') \/ (m \in 1..Len(inbox) /\ inbox'[m] = inbox[m])
    BY <1>1, <2>1, InboxAppend
  <2>4. \A m \in 1..Len(inbox) : inbox[m].kind = "wake" =>
           inbox[m].id # i /\ wakes'[inbox[m].id].phase = "committed"
    BY <1>1, <1>2, <2>1 DEF AwaitedInv
  <2> QED
    BY <2>2, <2>3, <2>4 DEF AwaitedInv
<1>5. CASE ResumeWake(i)
  <2>1. inbox # <<>> /\ Head(inbox) = [kind |-> "wake", id |-> i] /\ inbox' = Tail(inbox)
    BY <1>5 DEF ResumeWake, Arrives
  <2>2. /\ inbox[1] = Head(inbox) /\ 1 \in 1..Len(inbox)
        /\ \A m \in 1..Len(inbox') : m + 1 \in 1..Len(inbox) /\ inbox'[m] = inbox[m + 1]
    BY <1>1, <2>1, InboxTail
  <2>3. \A m \in 1..Len(inbox') : inbox'[m].kind = "wake" =>
           inbox'[m].id # i /\ wakes'[inbox'[m].id].phase = "committed"
    BY <1>1, <1>2, <2>1, <2>2 DEF AwaitedInv
  <2>4. \A m, n \in 1..Len(inbox') : m + 1 = n + 1 => m = n
    OBVIOUS
  <2> QED
    BY <2>2, <2>3, <2>4 DEF AwaitedInv
<1> QED
  BY <1>3, <1>4, <1>5 DEF WakeStep

LEMMA NextAwaited == ASSUME Types, AwaitedInv, [Next]_vars PROVE AwaitedInv'
<1>0. wakes \in [Ids -> WakeOp] /\ inbox \in Seq(Items) /\ store \in Devices /\ lists \in Seq(BOOLEAN)
  BY DEF Types, OperationTypes, InventoryTypes
<1>1. ASSUME NEW i \in Ids, CheckStep(i) PROVE AwaitedInv'
  <2>1. UNCHANGED wakes
    BY <1>1, CheckShape
  <2>2. \/ UNCHANGED inbox
        \/ \E x \in Items : x.kind # "wake" /\ inbox' = Append(inbox, x)
        \/ inbox # <<>> /\ inbox' = Tail(inbox)
    BY <1>1 DEF CheckStep, CheckAnswers, CheckFails, CommitCheck, Commit, ResumeCheck, Arrives,
                inventory, Items
  <2> QED
    BY <2>1, <2>2, SameAwaited
<1>2. CASE \/ UNCHANGED vars \/ Tick \/ Sweeping \/ StopDone \/ Stop
           \/ Refresh \/ CloseEditor
           \/ \E i \in Ids : BeginWake(i) \/ CancelWake(i) \/ OpenEditor(i) \/ DeleteDevice(i)
           \/ \E form \in Forms : SaveEdit(form)
           \/ \E i \in Ids, found \in Discoveries, form \in Forms : DiscoverDevice(i, found, form)
  <2>1. UNCHANGED inbox
    BY <1>2 DEF vars, Tick, Sweeping, StartSweep, StartBatch, EndSweep, StopDone, Stop, Refresh,
                CloseEditor, BeginWake, CancelWake, OpenEditor, DeleteDevice, SaveEdit,
                DiscoverDevice, inventory
  <2>2. CASE \E i \in Ids : BeginWake(i) \/ CancelWake(i)
    <3>1. ASSUME NEW i \in Ids, BeginWake(i)
          PROVE  wakes[i].phase = "idle" /\ \A j \in Ids \ {i} : wakes'[j] = wakes[j]
      BY <1>0, <3>1 DEF BeginWake
    <3>2. ASSUME NEW i \in Ids, CancelWake(i)
          PROVE  \A j \in Ids : wakes'[j].phase = wakes[j].phase
      BY <1>0, <3>2 DEF CancelWake, WakeOp
    <3>3. \A i \in Ids : wakes[i].phase = "committed" => wakes'[i].phase = "committed"
      BY <2>2, <3>1, <3>2
    <3> QED
      BY <2>1, <3>3, SameAwaited
  <2>3. CASE ~\E i \in Ids : BeginWake(i) \/ CancelWake(i)
    <3>1. UNCHANGED wakes
      BY <1>2, <2>3 DEF vars, Tick, Sweeping, StartSweep, StartBatch, EndSweep, StopDone, Stop,
                Refresh, CloseEditor, OpenEditor, DeleteDevice, SaveEdit, DiscoverDevice, operations
    <3> QED
      BY <2>1, <3>1, SameAwaited
  <2> QED
    BY <2>2, <2>3
<1>3. CASE ReadList \/ ListFails
  <2>1. UNCHANGED wakes
    BY <1>3 DEF ReadList, ListFails, operations
  <2>2. lists # <<>> => [kind |-> "list", own |-> Head(lists), devices |-> store] \in Items
    <3>1. lists # <<>> => Head(lists) \in BOOLEAN
      BY <1>0, HeadTailProperties
    <3> QED
      BY <1>0, <3>1 DEF Items
  <2>3. \/ UNCHANGED inbox
        \/ \E x \in Items : x.kind # "wake" /\ inbox' = Append(inbox, x)
    BY <1>3, <2>2 DEF ReadList, ListFails
  <2> QED
    BY <2>1, <2>3, SameAwaited
<1>4. CASE ShowList
  <2>1. inbox # <<>> /\ inbox' = Tail(inbox) /\ \A i \in Ids : ShownAs(Head(inbox).devices, i)
    BY <1>4, ShowListFacts
  <2>2. ASSUME NEW i \in Ids PROVE wakes'[i].phase = wakes[i].phase
    <3>1. checks[i] \in CheckOp /\ wakes[i] \in WakeOp
      BY DEF Types, OperationTypes
    <3> QED
      BY <2>1, <3>1, ShownKeeps
  <2> QED
    BY <2>1, <2>2, SameAwaited
<1> QED
  BY <1>1, <1>2, <1>3, <1>4, WakeAwaited DEF Next, Loading, UserStep

(* Every outcome of a wake that the repository stored is taken, once, by the *)
(* wake that asked for it: no card gets the answer of an earlier wake.       *)
THEOREM OutcomesAreAwaited == Spec => []AwaitedInv
<1>1. Init => AwaitedInv
  BY EmptySeq DEF Init, AwaitedInv
<1>2. Types /\ AwaitedInv /\ [Next]_vars => AwaitedInv'
  BY NextAwaited
<1> QED
  BY <1>1, <1>2, TypesHold, PTL DEF Spec
-----------------------------------------------------------------------------
(* While the clock goes forward: nothing stored or answered is of the        *)
(* future, and what is stored, or is being checked, is not younger than a    *)
(* wake that may still write to the card.                                    *)
TimeAt(i) ==
    /\ store[i] # None => store[i].checked <= now
    /\ checks[i].phase # "idle" => checks[i].at <= now
    /\ wakes[i].phase # "idle" => wakes[i].at <= now
    /\ wakes[i].fresh => /\ store[i] # None => store[i].checked <= wakes[i].at
                         /\ checks[i].phase # "idle" => checks[i].at <= wakes[i].at
TimeInv == \A i \in Ids : TimeAt(i)

(* What a step may do to the times of one device.                            *)
StoredTime(i) ==
    store'[i] # None =>
        \/ store'[i].checked = 0
        \/ store[i] # None /\ store'[i].checked = store[i].checked
        \/ checks[i].phase # "idle" /\ store'[i].checked = checks[i].at
        \/ wakes[i].phase # "idle" /\ store'[i].checked = wakes[i].at /\ wakes'[i].at = wakes[i].at
CheckTime(i) ==
    checks'[i].phase # "idle" =>
        \/ checks[i].phase # "idle" /\ checks'[i].at = checks[i].at
        \/ checks'[i].at = now /\ ~wakes'[i].fresh
WakeTime(i) ==
    /\ wakes'[i].phase # "idle" =>
        \/ wakes[i].phase # "idle" /\ wakes[i].at <= wakes'[i].at /\ wakes'[i].at <= now
        \/ wakes'[i].at = now
    /\ wakes'[i].fresh => wakes[i].fresh \/ wakes'[i].at = now

LEMMA Instants ==
    /\ \A t \in Times : t \in Nat
    /\ \A op \in CheckOp \cup WakeOp : op.at \in Nat
    /\ \A d \in Device : d.checked \in Nat
<1>1. \A t \in Times \cup {0} : t \in Nat
  OBVIOUS
<1>2. \A op \in CheckOp : op.at \in Times \cup {0}
  BY DEF CheckOp
<1>3. \A op \in WakeOp : op.at \in Times \cup {0}
  BY DEF WakeOp
<1>4. \A d \in Device : d.checked \in Times \cup {0}
  BY DEF Device
<1> QED
  BY <1>1, <1>2, <1>3, <1>4

LEMMA NumericTimes ==
    ASSUME Types, NEW i \in Ids
    PROVE  /\ now \in Nat /\ checks[i].at \in Nat /\ wakes[i].at \in Nat
           /\ store[i] # None => store[i].checked \in Nat
  BY Instants DEF Types, OperationTypes, InventoryTypes, AmbientTypes, Devices

LEMMA KeptTime ==
    ASSUME Types, Types', TimeInv, NEW i \in Ids, now' >= now,
           StoredTime(i), CheckTime(i), WakeTime(i)
    PROVE  TimeAt(i)'
<1>1. /\ now \in Nat /\ checks[i].at \in Nat /\ wakes[i].at \in Nat
      /\ store[i] # None => store[i].checked \in Nat
  BY NumericTimes
<1>2. now' \in Nat /\ wakes'[i].at \in Nat
  BY Instants DEF Types, OperationTypes, AmbientTypes
<1>3. /\ TimeAt(i) /\ (wakes'[i].phase = "idle" => ~wakes'[i].fresh)
      /\ wakes[i].phase = "idle" => ~wakes[i].fresh
  BY DEF TimeInv, Types, OperationTypes
<1>4. store'[i] # None => store'[i].checked <= now'
  BY <1>1, <1>2, <1>3 DEF TimeAt, StoredTime
<1>5. checks'[i].phase # "idle" => checks'[i].at <= now'
  BY <1>1, <1>2, <1>3 DEF TimeAt, CheckTime
<1>6. wakes'[i].phase # "idle" => wakes'[i].at <= now'
  BY <1>1, <1>2, <1>3 DEF TimeAt, WakeTime
<1>7. ASSUME wakes'[i].fresh
      PROVE  /\ store'[i] # None => store'[i].checked <= wakes'[i].at
             /\ checks'[i].phase # "idle" => checks'[i].at <= wakes'[i].at
  <2>1. CASE wakes'[i].at = now
    BY <1>1, <1>2, <1>3, <1>7, <2>1 DEF TimeAt, StoredTime, CheckTime
  <2>2. CASE wakes[i].fresh /\ wakes[i].at <= wakes'[i].at
    BY <1>1, <1>2, <1>3, <1>7, <2>2 DEF TimeAt, StoredTime, CheckTime
  <2> QED
    BY <1>3, <1>7, <2>1, <2>2 DEF WakeTime
<1> QED
  BY <1>4, <1>5, <1>6, <1>7 DEF TimeAt

(* A device whose record, check and wake a step leaves alone.                *)
LEMMA SameTime ==
    ASSUME Types, TimeInv, NEW i \in Ids
    PROVE  /\ store'[i] = store[i] => StoredTime(i)
           /\ checks'[i] = checks[i] => CheckTime(i)
           /\ wakes'[i] = wakes[i] => WakeTime(i)
<1>1. now \in Nat /\ wakes[i].at \in Nat
  BY NumericTimes
<1> QED
  BY <1>1 DEF StoredTime, CheckTime, WakeTime, TimeInv, TimeAt

LEMMA CommitTime ==
    ASSUME Types, NEW kind, NEW i \in Ids, NEW op, NEW verify, Commit(kind, i, op, verify)
    PROVE  \A j \in Ids : store'[j] = store[j] \/ (j = i /\ store'[j].checked = op.at)
<1>1. /\ store' = IF Saved(i, op, verify) = None THEN store
                  ELSE [store EXCEPT ![i] = Saved(i, op, verify)]
      /\ store \in [Ids -> Device \cup {None}]
  BY DEF Commit, Types, InventoryTypes, Devices
<1>2. ASSUME Saved(i, op, verify) # None PROVE Saved(i, op, verify).checked = op.at
  <2>1. /\ store[i] # None /\ store[i] \in Device
        /\ Saved(i, op, verify) = Observed(store[i], op.dev, op.at, op.state, verify)
    BY <1>1, <1>2 DEF Saved, Accepts
  <2> QED
    BY <2>1 DEF Observed, Device
<1> QED
  BY <1>1, <1>2

LEMMA CheckTimes ==
    ASSUME Types, TimeInv, NEW i \in Ids, CheckStep(i)
    PROVE  UNCHANGED now /\ \A j \in Ids : StoredTime(j) /\ CheckTime(j) /\ WakeTime(j)
<1>1. /\ checks \in [Ids -> CheckOp] /\ UNCHANGED wakes
      /\ \A j \in Ids \ {i} : checks'[j] = checks[j]
  BY CheckShape DEF Types, OperationTypes
<1>2. UNCHANGED now
  BY DEF CheckStep, CheckAnswers, CheckFails, CommitCheck, Commit, ResumeCheck, ambient
<1>3. /\ checks'[i].phase # "idle" => checks[i].phase # "idle" /\ checks'[i].at = checks[i].at
      /\ \A j \in Ids : \/ store'[j] = store[j]
                       \/ /\ j = i /\ checks[i].phase # "idle"
                          /\ store'[j].checked = checks[i].at
  <2>1. ASSUME NEW state \in Answers, CheckAnswers(i, state)
        PROVE  /\ checks[i].phase # "idle" /\ UNCHANGED store
               /\ checks'[i] = Idle \/ checks'[i].at = checks[i].at
    <3>1. /\ checks[i].phase # "idle" /\ UNCHANGED store
          /\ checks' = [checks EXCEPT ![i] =
                           IF @.fresh /\ ~Stopped
                           THEN [@ EXCEPT !.phase = "applying", !.state = state] ELSE Idle]
      BY <2>1 DEF CheckAnswers, inventory
    <3>2. CASE checks[i].fresh /\ ~Stopped
      BY <1>1, <3>1, <3>2 DEF CheckOp
    <3>3. CASE ~(checks[i].fresh /\ ~Stopped)
      BY <1>1, <3>1, <3>3
    <3> QED
      BY <3>1, <3>2, <3>3
  <2>2. CASE CheckFails(i) \/ ResumeCheck(i)
    <3>1. checks'[i] = Idle /\ UNCHANGED store
      BY <1>1, <2>2 DEF CheckFails, ResumeCheck, inventory
    <3> QED
      BY <3>1 DEF Idle
  <2>3. CASE CommitCheck(i)
    <3>1. checks[i].phase # "idle" /\ checks'[i].at = checks[i].at
      BY <1>1, <2>3 DEF CommitCheck, Commit, Committed, CheckOp
    <3>2. \A j \in Ids : store'[j] = store[j] \/ (j = i /\ store'[j].checked = checks[i].at)
      BY <2>3, CommitTime DEF CommitCheck
    <3> QED
      BY <3>1, <3>2
  <2> QED
    BY <2>1, <2>2, <2>3 DEF CheckStep, Idle
<1> QED
  BY <1>1, <1>2, <1>3, SameTime DEF StoredTime, CheckTime

LEMMA WakeTimes ==
    ASSUME Types, TimeInv, NEW i \in Ids, WakeStep(i)
    PROVE  UNCHANGED now /\ \A j \in Ids : StoredTime(j) /\ CheckTime(j) /\ WakeTime(j)
<1>0. /\ wakes \in [Ids -> WakeOp] /\ now \in Nat /\ wakes[i].at \in Nat
      /\ cards[i] \in Card \cup {None}
      /\ wakes[i].fresh => wakes[i].phase # "idle"
      /\ wakes[i].phase # "idle" => wakes[i].at <= now /\ wakes[i].dev \in Device
  BY NumericTimes DEF Types, OperationTypes, TimeInv, TimeAt
<1>1. /\ UNCHANGED checks /\ \A j \in Ids \ {i} : wakes'[j] = wakes[j]
  BY WakeShape
<1>2. UNCHANGED now
  BY DEF WakeStep, WakeFindsOnline, WakeSends, WakeOutcome, WakeAborts, CommitWake, Commit,
         ResumeWake, ambient
<1>3. /\ wakes'[i].phase # "idle" => /\ wakes[i].phase # "idle" /\ wakes[i].at <= wakes'[i].at
                                     /\ wakes'[i].at <= now
      /\ wakes'[i].fresh => wakes[i].fresh
      /\ \A j \in Ids : \/ store'[j] = store[j]
                       \/ /\ j = i /\ wakes[i].phase # "idle" /\ wakes'[i].at = wakes[i].at
                          /\ store'[j].checked = wakes[i].at
  <2>1. CASE WakeFindsOnline(i) \/ \E before \in Answers : WakeSends(i, before)
    <3>1. /\ wakes[i].phase = "looking" /\ UNCHANGED store
          /\ wakes'[i].at = wakes[i].at /\ wakes'[i].fresh = wakes[i].fresh
      BY <1>0, <2>1 DEF WakeFindsOnline, WakeSends, inventory, WakeOp
    <3> QED
      BY <1>0, <3>1
  <2>2. ASSUME NEW state \in Answers, NEW at \in Times, WakeOutcome(i, state, at)
        PROVE  /\ wakes[i].phase # "idle" /\ UNCHANGED store
               /\ wakes'[i].at = at /\ wakes[i].at <= at /\ at <= now
               /\ wakes'[i].fresh = wakes[i].fresh
    <3>1. /\ wakes[i].phase = "sent" /\ at \in (wakes[i].at .. now) \cup {wakes[i].at, now}
          /\ UNCHANGED store
          /\ wakes' = [wakes EXCEPT ![i].phase = "applying", ![i].state = state, ![i].at = at,
                                    ![i].verified = Verifies(wakes[i].before, state)]
      BY <2>2 DEF WakeOutcome, inventory
    <3>2. wakes'[i].at = at /\ wakes'[i].fresh = wakes[i].fresh
      BY <1>0, <3>1 DEF WakeOp
    <3> QED
      BY <1>0, <3>1, <3>2
  <2>3. CASE WakeAborts(i) \/ ResumeWake(i)
    <3>1. wakes'[i] = NoWake /\ UNCHANGED store
      BY <1>0, <2>3 DEF WakeAborts, ResumeWake, EndWake, inventory
    <3> QED
      BY <3>1 DEF NoWake
  <2>4. CASE CommitWake(i)
    <3>1. /\ wakes[i].phase # "idle" /\ wakes'[i].at = wakes[i].at
          /\ wakes'[i].fresh = wakes[i].fresh
      BY <1>0, <2>4 DEF CommitWake, Commit, Committed, WakeOp
    <3>2. \A j \in Ids : store'[j] = store[j] \/ (j = i /\ store'[j].checked = wakes[i].at)
      BY <2>4, CommitTime DEF CommitWake
    <3> QED
      BY <1>0, <3>1, <3>2
  <2> QED
    BY <2>1, <2>2, <2>3, <2>4 DEF WakeStep
<1> QED
  BY <1>1, <1>2, <1>3, SameTime DEF StoredTime, WakeTime

LEMMA CommandTimes ==
    ASSUME Types, PresenceInv, TimeInv,
           \/ \E i \in Ids : DeleteDevice(i)
           \/ \E form \in Forms : SaveEdit(form)
           \/ \E i \in Ids, found \in Discoveries, form \in Forms : DiscoverDevice(i, found, form)
    PROVE  UNCHANGED now /\ \A j \in Ids : StoredTime(j) /\ CheckTime(j) /\ WakeTime(j)
<1>0. store \in [Ids -> Device \cup {None}] /\ Forms \subseteq Form /\ Discoveries \subseteq Found
  BY ActivityAssumption DEF Types, InventoryTypes, Devices
<1>1. UNCHANGED <<now, checks, wakes>>
  BY DEF DeleteDevice, SaveEdit, DiscoverDevice, operations, ambient
<1>2. ASSUME NEW i \in Ids, NEW d \in Device, Store(i, d), store[i] = None => d.checked = 0
      PROVE  \A j \in Ids : StoredTime(j)
  <2>1. /\ store'[i] = IF store[i] = None THEN d ELSE Merged(store[i], d)
        /\ \A j \in Ids \ {i} : store'[j] = store[j]
    BY <1>2, StoreTypes
  <2>2. store[i] # None => Merged(store[i], d).checked \in {store[i].checked, 0}
    BY <1>0 DEF Merged, Device
  <2> QED
    BY <1>2, <2>1, <2>2 DEF StoredTime
<1>3. ASSUME NEW i \in Ids, DeleteDevice(i) PROVE \A j \in Ids : StoredTime(j)
  BY <1>0, <1>3 DEF DeleteDevice, StoredTime
<1>4. ASSUME NEW form \in Forms, SaveEdit(form) PROVE \A j \in Ids : StoredTime(j)
  <2>1. /\ command.phase = "editing" /\ command.id \in Ids /\ command.original \in Device
        /\ Store(command.id, Edited(command.original, form))
    BY <1>4 DEF SaveEdit, Types, InventoryTypes
  <2>2. store[command.id] = None => command.original = NewDevice
    BY <2>1 DEF PresenceInv, EditorInv
  <2>3. /\ Edited(command.original, form) \in Device
        /\ Edited(command.original, form).checked = command.original.checked
    BY <1>0, <2>1, EditedChecked
  <2>4. NewDevice.checked = 0
    BY DEF NewDevice
  <2> QED
    BY <1>2, <2>1, <2>2, <2>3, <2>4
<1>5. ASSUME NEW i \in Ids, NEW found \in Discoveries, NEW form \in Forms,
             DiscoverDevice(i, found, form)
      PROVE  \A j \in Ids : StoredTime(j)
  <2>1. Store(i, Edited(Discovered(found), form))
    BY <1>5 DEF DiscoverDevice
  <2>2. Discovered(found) \in Device /\ Discovered(found).checked = 0
    <3>1. NewDevice \in Device /\ NewDevice.checked = 0
      BY NewDeviceType DEF NewDevice
    <3>2. Discovered(found).checked = NewDevice.checked
      BY <3>1 DEF Discovered, Device
    <3> QED
      BY <1>0, <3>1, <3>2, DiscoveredType
  <2>3. /\ Edited(Discovered(found), form) \in Device
        /\ Edited(Discovered(found), form).checked = 0
    BY <1>0, <2>2, EditedChecked
  <2> QED
    BY <1>2, <2>1, <2>3
<1> QED
  BY <1>1, <1>3, <1>4, <1>5, SameTime

LEMMA OtherTimes ==
    ASSUME Types, WriterInv, TimeInv,
           \/ Sweeping \/ ShowList \/ \E i \in Ids : BeginWake(i) \/ CancelWake(i)
    PROVE  UNCHANGED now /\ \A j \in Ids : StoredTime(j) /\ CheckTime(j) /\ WakeTime(j)
<1>0. /\ checks \in [Ids -> CheckOp] /\ wakes \in [Ids -> WakeOp]
      /\ \A i \in Ids : wakes[i].fresh => cards[i] # None /\ wakes[i].phase # "idle"
      /\ now \in Nat /\ \A i \in Ids : wakes[i].at \in Nat
      /\ \A i \in Ids : wakes[i].phase # "idle" => wakes[i].at <= now
  BY Instants DEF Types, OperationTypes, AmbientTypes, FreshInv, TimeInv, TimeAt
<1>1. CASE StartSweep \/ EndSweep
  <2>1. UNCHANGED <<now, store, checks, wakes>>
    BY <1>1 DEF StartSweep, EndSweep, inventory, ambient
  <2> QED
    BY <2>1, SameTime
<1>2. CASE StartBatch
  <2>1. PICK batch \in SUBSET sweep.pending :
          checks' = [i \in Ids |->
               IF i \in batch /\ Probes(i)
               THEN [Idle EXCEPT !.phase = "probing", !.dev = Copy(cards[i].dev),
                                 !.fresh = TRUE, !.at = now]
               ELSE checks[i]]
    BY <1>2 DEF StartBatch
  <2>2. UNCHANGED <<now, store, wakes>>
    BY <1>2 DEF StartBatch, inventory, ambient
  <2>3. ASSUME NEW i \in Ids, Probes(i) PROVE ~wakes[i].fresh
    BY <1>0, <2>3 DEF Probes, WriterInv, WriterAt
  <2>4. \A i \in Ids : checks'[i] = checks[i] \/ (checks'[i].at = now /\ ~wakes'[i].fresh)
    BY <2>1, <2>2, <2>3 DEF Idle
  <2>5. \A i \in Ids : CheckTime(i)
    BY <2>4, SameTime DEF CheckTime
  <2> QED
    BY <2>2, <2>5, SameTime
<1>3. ASSUME NEW i \in Ids, BeginWake(i)
      PROVE  UNCHANGED now /\ \A j \in Ids : StoredTime(j) /\ CheckTime(j) /\ WakeTime(j)
  <2>1. /\ UNCHANGED <<now, store>>
        /\ checks' = [checks EXCEPT ![i] = [@ EXCEPT !.fresh = FALSE]]
        /\ wakes' = [wakes EXCEPT ![i] = [NoWake EXCEPT !.phase = "looking", !.fresh = TRUE,
                                             !.dev = Copy(cards[i].dev), !.at = now]]
    BY <1>3 DEF BeginWake, inventory, ambient
  <2>2. /\ wakes'[i].at = now /\ checks'[i].phase = checks[i].phase
        /\ checks'[i].at = checks[i].at
    BY <1>0, <2>1 DEF NoWake, CheckOp
  <2>3. WakeTime(i) /\ CheckTime(i)
    BY <2>2 DEF WakeTime, CheckTime
  <2> QED
    BY <1>0, <2>1, <2>3, SameTime
<1>4. ASSUME NEW i \in Ids, CancelWake(i)
      PROVE  UNCHANGED now /\ \A j \in Ids : StoredTime(j) /\ CheckTime(j) /\ WakeTime(j)
  <2>1. /\ UNCHANGED <<now, store, checks>> /\ wakes[i].phase # "idle"
        /\ wakes' = [wakes EXCEPT ![i].cancelled = TRUE]
    BY <1>4 DEF CancelWake, inventory, ambient
  <2>2. wakes'[i].at = wakes[i].at /\ wakes'[i].fresh = wakes[i].fresh
    BY <1>0, <2>1 DEF WakeOp
  <2>3. WakeTime(i)
    BY <1>0, <2>1, <2>2 DEF WakeTime
  <2> QED
    BY <1>0, <2>1, <2>3, SameTime
<1>5. CASE ShowList
  <2>1. \A i \in Ids : ShownAs(Head(inbox).devices, i)
    BY <1>5, ShowListFacts, Zenon
  <2>2. UNCHANGED <<now, store>>
    BY <1>5 DEF ShowList, ambient
  <2>3. ASSUME NEW i \in Ids
        PROVE  /\ checks'[i].phase = checks[i].phase /\ checks'[i].at = checks[i].at
               /\ wakes'[i].phase = wakes[i].phase /\ wakes'[i].at = wakes[i].at
               /\ wakes'[i].fresh => wakes[i].fresh
    <3>1. checks[i] \in CheckOp /\ wakes[i] \in WakeOp
      BY <1>0
    <3> QED
      BY <2>1, <3>1, ShownKeeps
  <2> QED
    BY <1>0, <2>2, <2>3, SameTime DEF CheckTime, WakeTime
<1> QED
  BY <1>1, <1>2, <1>3, <1>4, <1>5 DEF Sweeping

LEMMA NextTime ==
    ASSUME ~ClockMayStep, Types, PresenceInv, WriterInv, TimeInv, [Next]_vars
    PROVE  TimeInv'
<1>0. Types' /\ now \in Nat
  BY NextTypes, Instants DEF Types, AmbientTypes
<1>1. CASE Tick
  <2>1. now' \in {now + 1} /\ UNCHANGED <<store, checks, wakes>>
    BY <1>1 DEF Tick, inventory
  <2> QED
    BY <1>0, <2>1, KeptTime, SameTime DEF TimeInv
<1>2. CASE \/ UNCHANGED vars \/ StopDone \/ Stop \/ Refresh \/ CloseEditor
           \/ ReadList \/ ListFails \/ \E i \in Ids : OpenEditor(i)
  <2>1. UNCHANGED <<now, store, checks, wakes>>
    BY <1>2 DEF vars, StopDone, Stop, Refresh, CloseEditor, ReadList, ListFails, OpenEditor,
                inventory, operations, ambient
  <2> QED
    BY <1>0, <2>1, KeptTime, SameTime DEF TimeInv
<1>3. ASSUME UNCHANGED now, \A j \in Ids : StoredTime(j) /\ CheckTime(j) /\ WakeTime(j)
      PROVE  TimeInv'
  BY <1>0, <1>3, KeptTime DEF TimeInv
<1>4. CASE \/ \E i \in Ids : CheckStep(i) \/ WakeStep(i)
           \/ Sweeping \/ ShowList \/ \E i \in Ids : BeginWake(i) \/ CancelWake(i)
  BY <1>3, <1>4, CheckTimes, WakeTimes, OtherTimes
<1>5. CASE \/ \E i \in Ids : DeleteDevice(i)
           \/ \E form \in Forms : SaveEdit(form)
           \/ \E i \in Ids, found \in Discoveries, form \in Forms : DiscoverDevice(i, found, form)
  BY <1>3, <1>5, CommandTimes
<1> QED
  BY <1>1, <1>2, <1>4, <1>5 DEF Next, Loading, UserStep
-----------------------------------------------------------------------------
(* The targets.  Once the command's own list was read, the queue holds the   *)
(* rest: the own list, or the cards when there is none, and all that comes   *)
(* after are of targets that are stored.                                     *)
Meets(i, d) == d # None => store[i] # None /\ SameStatus(d, store[i])
CardMeets(i) == cards[i] # None => store[i] # None /\ SameStatus(cards[i].dev, store[i])
ItemMeets(x) ==
    /\ x.kind = "list" => \A i \in Ids : Meets(i, x.devices[i])
    /\ x.kind = "check" => Meets(x.id, checks[x.id].saved)
    /\ x.kind = "wake" => Meets(x.id, wakes[x.id].saved)
Current(k) ==
    /\ k = 0 => \A i \in Ids : CardMeets(i)
    /\ k > 0 => OwnList(inbox[k])
    /\ \A m \in 1..Len(inbox) : m >= k => ItemMeets(inbox[m])
NoneOwn == \A n \in 1..Len(lists) : ~lists[n]
TrackInv == NoneOwn => \E k \in 0..Len(inbox) : Current(k)

(* What the store does to the targets that are stored.                       *)
KeepsTargets == \A i \in Ids : store[i] # None => /\ store'[i] # None
                                                  /\ SameStatus(store[i], store'[i])

LEMMA MeetsKept ==
    ASSUME KeepsTargets, NEW i \in Ids
    PROVE  /\ \A d : Meets(i, d) => (d # None => store'[i] # None /\ SameStatus(d, store'[i]))
           /\ CardMeets(i) /\ cards'[i] = cards[i] => CardMeets(i)'
  BY DEF KeepsTargets, Meets, CardMeets, SameStatus

(* A step that keeps what an operation is to bring.                          *)
LEMMA ItemKept ==
    ASSUME KeepsTargets, NEW x \in Items, ItemMeets(x),
           x.kind = "check" => checks'[x.id].saved \in {checks[x.id].saved, None},
           x.kind = "wake" => wakes'[x.id].saved \in {wakes[x.id].saved, None}
    PROVE  ItemMeets(x)'
<1>1. x.kind \in {"check", "wake"} => x.id \in Ids
  BY DEF Items
<1> QED
  BY <1>1, MeetsKept DEF ItemMeets, Meets

LEMMA CalmTracks ==
    ASSUME Types, TrackInv, Undisturbed
    PROVE  TrackInv'
<1>1. /\ inbox \in Seq(Items) /\ UNCHANGED <<store, inbox, lists>> /\ Calm
  BY DEF Types, InventoryTypes, Undisturbed
<1>2. KeepsTargets
  BY <1>1 DEF KeepsTargets, SameStatus
<1> SUFFICES ASSUME NoneOwn, NEW k \in 0..Len(inbox), Current(k)
             PROVE  Current(k)'
  BY <1>1 DEF TrackInv, NoneOwn
<1>3. ASSUME NEW m \in 1..Len(inbox), m >= k PROVE ItemMeets(inbox[m])'
  <2>1. inbox[m] \in Items /\ (inbox[m].kind \in {"check", "wake"} => inbox[m].id \in Ids)
    BY <1>1, ItemKinds
  <2>2. ItemMeets(inbox[m])
    BY <1>3 DEF Current
  <2>3. /\ inbox[m].kind = "check" => checks'[inbox[m].id].saved \in {checks[inbox[m].id].saved, None}
        /\ inbox[m].kind = "wake" => wakes'[inbox[m].id].saved \in {wakes[inbox[m].id].saved, None}
    BY <1>1, <2>1 DEF Calm
  <2>4. inbox'[m] = inbox[m]
    BY <1>1
  <2> QED
    BY <1>1, <1>2, <2>1, <2>2, <2>3, ItemKept
<1>4. k = 0 => \A i \in Ids : CardMeets(i)'
  BY <1>1 DEF Current, CardMeets, Calm
<1> QED
  BY <1>1, <1>3, <1>4 DEF Current

LEMMA SameTarget ==
    ASSUME NEW d, NEW e, WakeTarget(d) = WakeTarget(e)
    PROVE  SameStatus(d, e)
<1>1. WakeTarget(d).status = WakeTarget(e).status
  OBVIOUS
<1> QED
  BY <1>1 DEF WakeTarget, SameStatus

LEMMA CommitKeeps ==
    ASSUME Types, NEW kind, NEW i \in Ids, NEW op, NEW verify, Commit(kind, i, op, verify),
           op.dev \in Device, op.at \in Times \cup {0}, op.state \in Observable
    PROVE  KeepsTargets
<1>1. /\ store' = IF Saved(i, op, verify) = None THEN store
                  ELSE [store EXCEPT ![i] = Saved(i, op, verify)]
      /\ store \in [Ids -> Device \cup {None}]
  BY DEF Commit, Types, InventoryTypes, Devices
<1>2. ASSUME Saved(i, op, verify) # None
      PROVE  SameStatus(store[i], Saved(i, op, verify))
  <2>1. WakeTarget(Saved(i, op, verify)) = WakeTarget(store[i])
    BY <1>2, SavedFacts
  <2> QED
    BY <2>1, SameTarget
<1>3. \A j \in Ids : SameStatus(store[j], store[j])
  BY DEF SameStatus
<1> QED
  BY <1>1, <1>2, <1>3 DEF KeepsTargets

LEMMA CommitTracks ==
    ASSUME Types, TrackInv, NEW kind \in {"check", "wake"}, NEW i \in Ids, NEW op, NEW verify,
           Stores(kind, i, op, verify)
    PROVE  TrackInv'
<1> DEFINE new == [kind |-> kind, id |-> i]
<1>0. /\ Commit(kind, i, op, verify)
      /\ op.dev \in Device /\ op.at \in Times \cup {0} /\ op.state \in Observable
      /\ \A j \in Ids : /\ checks'[j] = checks[j] \/ (kind = "check" /\ j = i)
                        /\ wakes'[j] = wakes[j] \/ (kind = "wake" /\ j = i)
      /\ kind = "check" => checks'[i].saved = Saved(i, op, verify)
      /\ kind = "wake" => wakes'[i].saved = Saved(i, op, verify)
  BY DEF Stores
<1>1. /\ store' = IF Saved(i, op, verify) = None THEN store
                  ELSE [store EXCEPT ![i] = Saved(i, op, verify)]
      /\ inbox' = Append(inbox, new) /\ UNCHANGED <<cards, lists>>
  BY <1>0 DEF Commit
<1>2. /\ inbox \in Seq(Items) /\ store \in [Ids -> Device \cup {None}] /\ new \in Items
  BY DEF Types, InventoryTypes, Devices, Items
<1>3. KeepsTargets
  BY <1>0, CommitKeeps
<1>4. Saved(i, op, verify) # None
      => store'[i] # None /\ SameStatus(Saved(i, op, verify), store'[i])
  BY <1>1, <1>2 DEF SameStatus
<1> SUFFICES ASSUME NoneOwn, NEW k \in 0..Len(inbox), Current(k)
             PROVE  Current(k)' /\ k \in 0..Len(inbox')
  BY <1>1 DEF TrackInv, NoneOwn
<1>7. /\ k \in 0..Len(inbox') /\ k \in Nat /\ Len(inbox) \in Nat
      /\ k > 0 => k \in 1..Len(inbox) /\ inbox'[k] = inbox[k]
      /\ \A m \in 1..Len(inbox') : inbox'[m] = new
                                   \/ (m \in 1..Len(inbox) /\ inbox'[m] = inbox[m])
  BY <1>1, <1>2, InboxAppend
<1>8. ItemMeets(new)'
  <2>1. kind = "check" => Meets(i, checks[i].saved)'
    BY <1>0, <1>4 DEF Meets
  <2>2. kind = "wake" => Meets(i, wakes[i].saved)'
    BY <1>0, <1>4 DEF Meets
  <2> QED
    BY <2>1, <2>2 DEF ItemMeets
<1>9. ASSUME NEW x \in Items, ItemMeets(x) PROVE ItemMeets(x)'
  <2>1. x.kind \in {"check", "wake"} => x.id \in Ids
    BY ItemKinds, <1>2
  <2>2. CASE x.kind = kind /\ x.id = i
    <3>1. x.kind = "check" => Meets(x.id, checks[x.id].saved)'
      BY <1>8, <2>2 DEF ItemMeets
    <3>2. x.kind = "wake" => Meets(x.id, wakes[x.id].saved)'
      BY <1>8, <2>2 DEF ItemMeets
    <3> QED
      BY <2>2, <3>1, <3>2 DEF ItemMeets
  <2>3. CASE ~(x.kind = kind /\ x.id = i)
    <3>1. /\ x.kind = "check" => checks'[x.id].saved = checks[x.id].saved
          /\ x.kind = "wake" => wakes'[x.id].saved = wakes[x.id].saved
      BY <1>0, <2>1, <2>3
    <3> QED
      BY <1>3, <1>9, <3>1, ItemKept
  <2> QED
    BY <2>2, <2>3
<1>10. ASSUME NEW m \in 1..Len(inbox'), m >= k PROVE ItemMeets(inbox[m])'
  <2>1. CASE inbox'[m] = new
    BY <1>8, <2>1
  <2>2. CASE m \in 1..Len(inbox) /\ inbox'[m] = inbox[m]
    <3>1. inbox[m] \in Items /\ ItemMeets(inbox[m])
      BY <1>2, <1>10, <2>2, ItemKinds DEF Current
    <3> QED
      BY <1>9, <2>2, <3>1
  <2> QED
    BY <1>7, <2>1, <2>2
<1>11. k > 0 => OwnList(inbox'[k])
  BY <1>7 DEF Current
<1>12. k = 0 => \A j \in Ids : CardMeets(j)'
  BY <1>1, <1>3, MeetsKept DEF Current
<1> QED
  BY <1>7, <1>10, <1>11, <1>12 DEF Current

LEMMA SynchronizedDevice ==
    ASSUME NEW card \in Card \cup {None}, NEW d \in Device \cup {None}
    PROVE  /\ Synchronized(card, d) = None <=> d = None
           /\ d # None => Synchronized(card, d).dev = d
<1>1. CASE d = None
  BY <1>1 DEF Synchronized
<1>2. CASE d # None /\ card = None
  BY <1>2, NewValues DEF Synchronized, NewCard
<1>3. CASE d # None /\ card # None
  <2>1. Synchronized(card, d) \in {[card EXCEPT !.dev = d, !.state = "Unknown"],
                                   [card EXCEPT !.dev = d]}
    BY <1>3 DEF Synchronized
  <2>2. Synchronized(card, d) \in Card /\ Synchronized(card, d).dev = d
    BY <1>3, <2>1 DEF Card, Observable
  <2> QED
    BY <1>3, <2>2, NewValues
<1> QED
  BY <1>1, <1>2, <1>3

LEMMA ResumeTracks ==
    ASSUME Types, TrackInv, NEW kind \in {"check", "wake"}, NEW i \in Ids,
           NEW op, op = IF kind = "check" THEN checks[i] ELSE wakes[i], Takes(kind, i, op)
    PROVE  TrackInv'
<1> DEFINE head == [kind |-> kind, id |-> i]
<1>0. /\ UNCHANGED <<store, lists>>
      /\ \A j \in Ids : /\ cards'[j] = cards[j] \/ j = i
                        /\ checks'[j].saved \in {checks[j].saved, None}
                        /\ wakes'[j].saved \in {wakes[j].saved, None}
      /\ cards'[i] = None <=> cards[i] = None
      /\ cards[i] # None => \/ cards'[i].dev = cards[i].dev
                            \/ op.saved # None /\ cards'[i].dev = op.saved
      /\ inbox \in Seq(Items) /\ inbox # <<>> /\ inbox' = Tail(inbox) /\ Head(inbox) = head
  BY DEF Takes, Arrives, Types, InventoryTypes
<1>1. KeepsTargets
  BY <1>0 DEF KeepsTargets, SameStatus
<1>2. /\ Len(inbox) \in Nat /\ Len(inbox) >= 1 /\ Len(inbox') = Len(inbox) - 1
      /\ inbox[1] = head
      /\ \A m \in 1..Len(inbox') : inbox'[m] = inbox[m + 1] /\ m + 1 \in 1..Len(inbox)
  <2>1. /\ Len(inbox) \in Nat /\ Len(inbox) >= 1 /\ Len(inbox') = Len(inbox) - 1
        /\ inbox[1] = head /\ \A m \in 1..Len(inbox') : inbox'[m] = inbox[m + 1]
    BY <1>0, InboxTail
  <2> QED
    BY <2>1
<1> SUFFICES ASSUME NoneOwn, NEW k \in 0..Len(inbox), Current(k)
             PROVE  \E n \in 0..Len(inbox') : Current(n)'
  BY <1>0 DEF TrackInv, NoneOwn
<1>3. k # 1
  BY <1>2 DEF Current, OwnList
<1>4. ASSUME NEW m \in 1..Len(inbox'), m + 1 >= k PROVE ItemMeets(inbox[m])'
  <2>1. inbox'[m] = inbox[m + 1] /\ m + 1 \in 1..Len(inbox) /\ inbox[m + 1] \in Items
    BY <1>0, <1>2, ItemKinds
  <2>2. ItemMeets(inbox[m + 1])
    BY <1>4, <2>1 DEF Current
  <2>3. inbox[m + 1].kind \in {"check", "wake"} => inbox[m + 1].id \in Ids
    BY <1>0, <2>1, ItemKinds
  <2> QED
    BY <1>0, <1>1, <2>1, <2>2, <2>3, ItemKept
<1>5. CASE k = 0
  <2>1. op.saved # None => Meets(i, op.saved)
    <3>1. ItemMeets(inbox[1])
      BY <1>2, <1>5 DEF Current
    <3> QED
      BY <1>2, <3>1 DEF ItemMeets
  <2>2. ASSUME NEW j \in Ids PROVE CardMeets(j)'
    <3>1. CardMeets(j)
      BY <1>5 DEF Current
    <3> QED
      BY <1>0, <2>1, <3>1 DEF CardMeets, Meets
  <2>3. Current(0)'
    BY <1>2, <1>4, <1>5, <2>2 DEF Current
  <2> QED
    BY <1>2, <2>3
<1>6. CASE k > 1
  <2>1. k - 1 \in 1..Len(inbox') /\ inbox'[k - 1] = inbox[k] /\ k - 1 # 0
    BY <1>2, <1>6
  <2>2. OwnList(inbox'[k - 1])
    BY <1>6, <2>1 DEF Current
  <2>3. ASSUME NEW m \in 1..Len(inbox'), m >= k - 1 PROVE ItemMeets(inbox[m])'
    <3>1. m + 1 >= k
      BY <1>2, <2>3
    <3> QED
      BY <1>4, <3>1
  <2>4. \A m \in 1..Len(inbox') : m >= k - 1 => ItemMeets(inbox[m])'
    BY <2>3
  <2>5. Current(k - 1)'
    BY ONLY <2>1, <2>2, <2>4 DEF Current
  <2> QED
    BY <1>2, <2>1, <2>5
<1> QED
  BY <1>2, <1>3, <1>5, <1>6

(* A list that meets the store makes the cards meet it.                      *)
LEMMA ShowTracks == ASSUME Types, TrackInv, ShowList PROVE TrackInv'
<1> DEFINE devices == Head(inbox).devices
<1>1. /\ inbox \in Seq(Items) /\ inbox # <<>> /\ inbox' = Tail(inbox)
      /\ Head(inbox).kind = "list" /\ devices \in Devices
      /\ \A i \in Ids : ShownAs(devices, i)
      /\ UNCHANGED <<store, lists>>
  BY ShowListFacts DEF Types, InventoryTypes
<1>2. /\ Len(inbox) \in Nat /\ Len(inbox) >= 1 /\ Len(inbox') = Len(inbox) - 1
      /\ inbox[1] = Head(inbox)
      /\ \A m \in 1..Len(inbox') : inbox'[m] = inbox[m + 1] /\ m + 1 \in 1..Len(inbox)
  BY <1>1, InboxTail
<1>3. ASSUME NEW i \in Ids
      PROVE  checks'[i].saved = checks[i].saved /\ wakes'[i].saved = wakes[i].saved
  <2>1. checks[i] \in CheckOp /\ wakes[i] \in WakeOp
    BY DEF Types, OperationTypes
  <2> QED
    BY <1>1, <2>1, ShownKeeps
<1>4. KeepsTargets
  BY <1>1 DEF KeepsTargets, SameStatus
<1> SUFFICES ASSUME NoneOwn, NEW k \in 0..Len(inbox), Current(k)
             PROVE  \E n \in 0..Len(inbox') : Current(n)'
  BY <1>1 DEF TrackInv, NoneOwn
<1>5. ASSUME NEW m \in 1..Len(inbox'), m + 1 >= k PROVE ItemMeets(inbox[m])'
  <2>1. inbox'[m] = inbox[m + 1] /\ m + 1 \in 1..Len(inbox) /\ inbox[m + 1] \in Items
    BY <1>1, <1>2, ItemKinds
  <2>2. ItemMeets(inbox[m + 1])
    BY <1>5, <2>1 DEF Current
  <2>3. inbox[m + 1].kind \in {"check", "wake"} => inbox[m + 1].id \in Ids
    BY <1>1, <2>1, ItemKinds
  <2> QED
    BY <1>3, <1>4, <2>1, <2>2, <2>3, ItemKept
<1>6. CASE k <= 1
  <2>1. \A i \in Ids : Meets(i, devices[i])
    <3>1. ItemMeets(inbox[1])
      BY <1>2, <1>6 DEF Current
    <3> QED
      BY <1>1, <1>2, <3>1 DEF ItemMeets
  <2>2. ASSUME NEW i \in Ids PROVE CardMeets(i)'
    <3>1. /\ cards'[i] = Synchronized(cards[i], devices[i])
          /\ cards[i] \in Card \cup {None} /\ devices[i] \in Device \cup {None}
      BY <1>1 DEF ShownAs, Types, OperationTypes, Devices
    <3>2. cards'[i] # None => devices[i] # None /\ cards'[i].dev = devices[i]
      BY <3>1, SynchronizedDevice
    <3> QED
      <4>1. store'[i] = store[i]
        BY <1>1, Zenon
      <4> QED
        BY <2>1, <3>2, <4>1, Zenon DEF CardMeets, Meets
  <2>3. Current(0)'
    <3>1. \A m \in 1..Len(inbox') : ItemMeets(inbox[m])'
      <4> SUFFICES ASSUME NEW m \in 1..Len(inbox') PROVE ItemMeets(inbox[m])'
        BY Zenon
      <4>1. m + 1 >= k
        BY <1>2, <1>6
      <4> QED
        BY <1>5, <4>1, Zenon
    <3> QED
      BY <2>2, <3>1 DEF Current
  <2> QED
    BY <1>2, <2>3
<1>7. CASE k > 1
  <2>1. k - 1 \in 1..Len(inbox') /\ inbox'[k - 1] = inbox[k] /\ k - 1 # 0
    BY <1>2, <1>7
  <2>2. OwnList(inbox'[k - 1])
    BY <1>7, <2>1 DEF Current
  <2>3. ASSUME NEW m \in 1..Len(inbox'), m >= k - 1 PROVE ItemMeets(inbox[m])'
    <3>1. m + 1 >= k
      BY <1>2, <2>3
    <3> QED
      BY <1>5, <3>1
  <2>4. \A m \in 1..Len(inbox') : m >= k - 1 => ItemMeets(inbox[m])'
    BY <2>3
  <2>5. Current(k - 1)'
    BY ONLY <2>1, <2>2, <2>4 DEF Current
  <2> QED
    BY <1>2, <2>1, <2>5
<1> QED
  BY <1>2, <1>6, <1>7

(* The command that asks for a reload leaves the rest to it.                 *)
LEMMA ReloadTracks ==
    ASSUME Types, Reload(TRUE)
    PROVE  TrackInv'
<1>1. lists' = Append(lists, TRUE) /\ lists \in Seq(BOOLEAN)
  BY DEF Reload, Types, InventoryTypes
<1>2. Len(lists) \in Nat /\ Len(lists') = Len(lists) + 1 /\ lists'[Len(lists')]
  BY <1>1, ListsAppend
<1> QED
  BY <1>2 DEF TrackInv, NoneOwn

(* A discovered device is stored under an id that nothing knows yet.         *)
LEMMA DiscoverTracks ==
    ASSUME Types, PresenceInv, TrackInv, NEW i \in Ids, i \notin allocated, NEW d \in Device,
           Store(i, d), Reload(FALSE), UNCHANGED <<inbox, cards, checks, wakes>>
    PROVE  TrackInv'
<1>1. /\ lists' = Append(lists, FALSE) /\ lists \in Seq(BOOLEAN) /\ inbox \in Seq(Items)
  BY DEF Reload, Types, InventoryTypes
<1>2. \A n \in 1..Len(lists) : n \in 1..Len(lists') /\ lists'[n] = lists[n]
  <2>1. /\ Len(lists) \in Nat /\ Len(lists') = Len(lists) + 1
        /\ \A n \in 1..Len(lists) : lists'[n] = lists[n]
    BY <1>1, ListsAppend
  <2> QED
    BY <2>1
<1>3. store[i] = None
  BY DEF PresenceInv, PresenceAt, Known
<1>4. KeepsTargets
  BY <1>3, StoreTypes DEF KeepsTargets, SameStatus
<1> SUFFICES ASSUME NoneOwn, NEW k \in 0..Len(inbox), Current(k)
             PROVE  Current(k)'
  BY <1>2 DEF TrackInv, NoneOwn
<1>5. ASSUME NEW m \in 1..Len(inbox), m >= k PROVE ItemMeets(inbox[m])'
  <2>1. inbox[m] \in Items /\ ItemMeets(inbox[m])
    BY <1>1, <1>5, ItemKinds DEF Current
  <2> QED
    BY <1>4, <2>1, ItemKept
<1>6. k = 0 => \A j \in Ids : CardMeets(j)'
  BY <1>4, MeetsKept DEF Current
<1> QED
  BY <1>5, <1>6 DEF Current

LEMMA ReadTracks == ASSUME Types, TrackInv, ReadList PROVE TrackInv'
<1> DEFINE x == [kind |-> "list", own |-> Head(lists), devices |-> store]
<1>1. /\ inbox' = Append(inbox, x) /\ UNCHANGED <<store, cards, checks, wakes>>
      /\ lists # <<>> /\ lists' = Tail(lists) /\ lists \in Seq(BOOLEAN)
      /\ inbox \in Seq(Items) /\ store \in Devices
  BY DEF ReadList, Types, InventoryTypes, operations
<1>2. x \in Items
  <2>1. Head(lists) \in BOOLEAN
    BY <1>1, HeadTailProperties
  <2> QED
    BY <1>1, <2>1 DEF Items
<1>3. /\ Len(inbox) \in Nat /\ Len(inbox') = Len(inbox) + 1 /\ inbox'[Len(inbox')] = x
      /\ \A m \in 1..Len(inbox) : inbox'[m] = inbox[m]
      /\ \A m \in 1..Len(inbox') : m = Len(inbox')
                                   \/ (m \in 1..Len(inbox) /\ inbox'[m] = inbox[m])
  BY <1>1, <1>2, InboxAppend
<1>4. KeepsTargets
  BY <1>1 DEF KeepsTargets, SameStatus
<1>5. ItemMeets(inbox[Len(inbox)])'
  <2>1. inbox'[Len(inbox')].kind = "list" /\ inbox'[Len(inbox')].devices = store'
    BY <1>1, <1>3
  <2> QED
    BY <2>1 DEF ItemMeets, Meets, SameStatus
<1>6. CASE Head(lists)
  <2> DEFINE k == Len(inbox')
  <2>1. k \in 0..Len(inbox') /\ k > 0 /\ OwnList(inbox'[k])
    <3>1. x.kind = "list" /\ x.own = Head(lists)
      OBVIOUS
    <3>2. OwnList(x)
      BY <1>6, <3>1 DEF OwnList
    <3> QED
      BY <1>3, <3>2
  <2>2. ASSUME NEW m \in 1..Len(inbox'), m >= k PROVE ItemMeets(inbox[m])'
    <3>1. m = Len(inbox')
      BY <1>3, <2>2
    <3> QED
      BY <1>5, <3>1
  <2>3. Current(Len(inbox))'
    BY <2>1, <2>2 DEF Current
  <2> QED
    BY <2>1, <2>3 DEF TrackInv
<1>7. CASE ~Head(lists)
  <2>1. NoneOwn' => NoneOwn
    <3>1. /\ Len(lists) \in Nat /\ Len(lists') = Len(lists) - 1 /\ lists[1] = Head(lists)
          /\ \A n \in 1..Len(lists') : lists'[n] = lists[n + 1]
      BY <1>1, HeadTailProperties
    <3> SUFFICES ASSUME NoneOwn', NEW n \in 1..Len(lists) PROVE ~lists[n]
      BY DEF NoneOwn
    <3>2. CASE n = 1
      BY <1>7, <3>1, <3>2
    <3>3. CASE n # 1
      <4>1. n - 1 \in 1..Len(lists') /\ lists'[n - 1] = lists[n - 1 + 1] /\ n - 1 + 1 = n
        BY <3>1, <3>3
      <4> QED
        BY <4>1 DEF NoneOwn
    <3> QED
      BY <3>2, <3>3
  <2> SUFFICES ASSUME NEW k \in 0..Len(inbox), Current(k)
               PROVE  Current(k)' /\ k \in 0..Len(inbox')
    BY <2>1 DEF TrackInv
  <2>2. /\ k \in 0..Len(inbox')
        /\ k > 0 => k \in 1..Len(inbox) /\ inbox'[k] = inbox[k]
    BY <1>3
  <2>3. ASSUME NEW m \in 1..Len(inbox'), m >= k PROVE ItemMeets(inbox[m])'
    <3>1. CASE m = Len(inbox')
      BY <1>5, <3>1
    <3>2. CASE m \in 1..Len(inbox) /\ inbox'[m] = inbox[m]
      <4>1. inbox[m] \in Items /\ ItemMeets(inbox[m])
        BY <1>1, <2>3, <3>2, ItemKinds DEF Current
      <4> QED
        BY <1>1, <1>4, <3>2, <4>1, ItemKept
    <3> QED
      BY <1>3, <3>1, <3>2
  <2>4. k = 0 => \A j \in Ids : CardMeets(j)'
    BY <1>1, <1>4, MeetsKept DEF Current
  <2> QED
    BY <2>2, <2>3, <2>4 DEF Current
<1> QED
  BY <1>6, <1>7

LEMMA InitTracks == ASSUME Init PROVE TrackInv
<1>1. Len(inbox) = 0
  BY EmptySeq DEF Init
<1>2. ASSUME NEW i \in Ids PROVE CardMeets(i)
  <2>1. cards[i] = (IF InitialDevices[i] = None THEN None ELSE NewCard(InitialDevices[i]))
        /\ store[i] = InitialDevices[i]
    BY DEF Init
  <2> QED
    BY <2>1 DEF CardMeets, NewCard, SameStatus
<1>3. Current(0)
  BY <1>1, <1>2 DEF Current
<1> QED
  BY <1>1, <1>3 DEF TrackInv

LEMMA DeleteTracks ==
    ASSUME Types, \/ Refresh \/ \E i \in Ids : DeleteDevice(i)
                  \/ \E form \in Forms : SaveEdit(form)
    PROVE  TrackInv'
  BY ReloadTracks DEF Refresh, DeleteDevice, SaveEdit

LEMMA NextTracks ==
    ASSUME ~ListMayFail, Types, PresenceInv, TrackInv, [Next]_vars
    PROVE  TrackInv'
<1>1. ASSUME NEW i \in Ids, CheckStep(i) PROVE TrackInv'
  BY <1>1, CheckKind, CalmTracks, CommitTracks, ResumeTracks
<1>2. ASSUME NEW i \in Ids, WakeStep(i) PROVE TrackInv'
  BY <1>2, WakeKind, CalmTracks, CommitTracks, ResumeTracks
<1>3. ASSUME NEW i \in Ids, NEW found \in Discoveries, NEW form \in Forms,
             DiscoverDevice(i, found, form)
      PROVE  TrackInv'
  <2>1. Edited(Discovered(found), form) \in Device
    BY ActivityAssumption, EditedType, DiscoveredType
  <2>2. /\ i \notin allocated /\ Store(i, Edited(Discovered(found), form)) /\ Reload(FALSE)
        /\ UNCHANGED <<inbox, cards, checks, wakes>>
    BY <1>3 DEF DiscoverDevice, operations
  <2> QED
    BY <2>1, <2>2, DiscoverTracks
<1>4. CASE UserStep
  BY <1>3, <1>4, DeleteTracks, OtherKinds, CalmTracks DEF UserStep
<1>5. CASE Loading
  BY <1>5, ReadTracks, ShowTracks DEF Loading, ListFails
<1> QED
  BY <1>1, <1>2, <1>4, <1>5, OtherKinds, CalmTracks DEF Next
-----------------------------------------------------------------------------
(* A card that shows Waking has its wake, which asked for the card's target, *)
(* or its target is no longer the stored one.                                *)
Elsewhere(i) == store[i] = None \/ ~SameStatus(store[i], cards[i].dev)
WakingAt(i) ==
    /\ wakes[i].fresh => /\ SameStatus(wakes[i].dev, cards[i].dev)
                         /\ wakes[i].phase = "committed" /\ wakes[i].saved = None => Elsewhere(i)
    /\ ShowsWaking(i) => IF wakes[i].phase = "idle" THEN Elsewhere(i) ELSE wakes[i].fresh
WakingInv == \A i \in Ids : WakingAt(i)

(* A step that keeps the card's target, and the wake as far as it matters.   *)
KeepsCard(i) ==
    /\ cards'[i] = None <=> cards[i] = None
    /\ cards[i] # None => SameStatus(cards'[i].dev, cards[i].dev)
    /\ ShowsWaking(i)' => ShowsWaking(i)
SameOperation(op, new) ==
    new.phase = op.phase /\ new.dev = op.dev /\ new.fresh = op.fresh /\ new.saved = op.saved

LEMMA SameWaking ==
    ASSUME Types, NEW i \in Ids, WakingAt(i), KeepsCard(i), SameOperation(wakes[i], wakes'[i]),
           cards[i] # None /\ Elsewhere(i) => Elsewhere(i)'
    PROVE  WakingAt(i)'
<1>1. wakes[i].fresh => cards[i] # None
  BY DEF Types, FreshInv
<1> QED
  BY <1>1 DEF WakingAt, KeepsCard, SameOperation, ShowsWaking, SameStatus

LEMMA SameCard ==
    ASSUME NEW i \in Ids, cards'[i] = cards[i]
    PROVE  KeepsCard(i)
  BY DEF KeepsCard, SameStatus, ShowsWaking

LEMMA StillElsewhere ==
    ASSUME NEW i \in Ids, KeepsCard(i), cards[i] # None, Elsewhere(i),
           store'[i] = None <=> store[i] = None,
           store[i] # None => SameStatus(store[i], store'[i])
    PROVE  Elsewhere(i)'
  BY DEF Elsewhere, KeepsCard, SameStatus

(* The end of a wake whose card does not show Waking any more.               *)
LEMMA EndedWaking ==
    ASSUME NEW i \in Ids, ~wakes'[i].fresh, ~ShowsWaking(i)'
    PROVE  WakingAt(i)'
  BY DEF WakingAt

LEMMA CheckWaking ==
    ASSUME Types, WriterInv, WakingInv, NEW i \in Ids, CheckStep(i)
    PROVE  WakingInv'
<1>1. /\ \A j \in Ids \ {i} : cards'[j] = cards[j]
      /\ UNCHANGED wakes /\ cards[i] \in Card \cup {None} /\ cards \in [Ids -> Card \cup {None}]
      /\ checks[i] \in CheckOp
      /\ checks[i].fresh => cards[i] # None /\ checks[i].phase # "idle" /\ ~wakes[i].fresh
      /\ checks[i].phase # "idle" => checks[i].dev \in Device
  BY CheckShape DEF Types, OperationTypes, FreshInv, WriterInv, WriterAt
<1>2. \A j \in Ids : /\ store'[j] = None <=> store[j] = None
                     /\ store[j] # None => SameStatus(store[j], store'[j])
  <2>1. \A j \in Ids : store'[j] = None <=> store[j] = None
    BY OperationsQuiet DEF Quiet
  <2>2. CASE CommitCheck(i)
    <3>1. Commit("check", i, checks[i], FALSE) /\ checks[i].phase = "applying"
      BY <2>2 DEF CommitCheck, Commit
    <3>2. checks[i].at \in Times \cup {0} /\ checks[i].state \in Observable
      BY <1>1 DEF CheckOp
    <3>3. KeepsTargets
      BY <1>1, <3>1, <3>2, CommitKeeps
    <3> QED
      BY <2>1, <3>3 DEF KeepsTargets
  <2>3. CASE ~CommitCheck(i)
    <3>1. UNCHANGED store
      BY <2>3 DEF CheckStep, CheckAnswers, CheckFails, ResumeCheck, inventory
    <3> QED
      BY <3>1 DEF SameStatus
  <2> QED
    BY <2>2, <2>3
<1>3. ASSUME NEW j \in Ids, KeepsCard(j) PROVE WakingAt(j)'
  BY <1>1, <1>2, <1>3, SameWaking, StillElsewhere DEF SameOperation, WakingInv
<1>4. WakingAt(i)'
  <2>1. CASE CommitCheck(i) \/ \E state \in Answers : CheckAnswers(i, state)
    <3>1. cards'[i] = cards[i]
      BY <2>1 DEF CommitCheck, Commit, CheckAnswers
    <3> QED
      BY <1>3, <3>1, SameCard
  <2>2. CASE CheckFails(i)
    <3>1. cards' \in {cards, [cards EXCEPT ![i] = ShowUnknown(@, checks[i])]}
      BY <2>2 DEF CheckFails
    <3>2. CASE cards'[i] = cards[i]
      BY <1>3, <3>2, SameCard
    <3>3. CASE cards'[i] # cards[i]
      <4>1. cards'[i] = [cards[i] EXCEPT !.state = "Unknown"] /\ cards[i] \in Card
        BY <1>1, <3>1, <3>3 DEF ShowUnknown
      <4>2. cards'[i] \in Card /\ cards'[i].dev = cards[i].dev /\ cards'[i].state = "Unknown"
        BY <4>1 DEF Card, Observable
      <4>3. KeepsCard(i)
        BY <4>1, <4>2, NewValues DEF KeepsCard, SameStatus, ShowsWaking
      <4> QED
        BY <1>3, <4>3
    <3> QED
      BY <3>2, <3>3
  <2>3. CASE ResumeCheck(i)
    <3>1. cards'[i] = Show(cards[i], checks[i])
      BY <1>1, <2>3 DEF ResumeCheck
    <3>2. CASE checks[i].saved = None \/ ~checks[i].fresh
      BY <1>3, <3>1, <3>2, SameCard DEF Show
    <3>3. CASE checks[i].saved # None /\ checks[i].fresh
      <4>1. /\ cards'[i] = [cards[i] EXCEPT !.dev = checks[i].saved, !.state = checks[i].state,
                                            !.shownFor = StatusTarget(checks[i].dev)]
            /\ cards[i] \in Card
        BY <1>1, <3>1, <3>3 DEF Show
      <4>2. cards'[i].state = checks[i].state
        BY <4>1 DEF Card
      <4>3. cards'[i].state # "Waking" /\ ~wakes'[i].fresh
        BY <1>1, <3>3, <4>2 DEF CheckOp, Observable
      <4> QED
        BY <4>3, EndedWaking DEF ShowsWaking
    <3> QED
      BY <3>2, <3>3
  <2> QED
    BY <2>1, <2>2, <2>3 DEF CheckStep
<1> QED
  BY <1>1, <1>3, <1>4, SameCard DEF WakingInv

LEMMA ObservedType ==
    ASSUME NEW current \in Device, NEW expected, NEW at \in Times \cup {0},
           NEW state \in Observable, NEW verify
    PROVE  Observed(current, expected, at, state, verify) \in Device
<1> DEFINE seen == IF state = "Online" THEN at ELSE current.seen
           cap == IF Qualifies(current, expected, state, verify) THEN "Verified" ELSE current.cap
<1>1. current.seen \in Times \cup {0} /\ current.cap \in Capabilities
  BY DEF Device
<1>2. seen \in Times \cup {0} /\ cap \in Capabilities
  BY <1>1 DEF Capabilities
<1>3. Observed(current, expected, at, state, verify) =
        [current EXCEPT !.state = state, !.checked = at, !.seen = seen, !.cap = cap]
  BY DEF Observed
<1> HIDE DEF seen, cap
<1>4. [current EXCEPT !.state = state, !.checked = at, !.seen = seen, !.cap = cap] \in Device
  BY <1>2 DEF Device
<1> QED
  BY <1>3, <1>4

(* A wake of the card's target that the transaction refuses, though nothing  *)
(* younger was stored, had its target moved away.                            *)
LEMMA RefusedElsewhere ==
    ASSUME Types, TimeInv, WakingInv, NEW i \in Ids, wakes[i].fresh, NEW verify,
           Saved(i, wakes[i], verify) = None
    PROVE  Elsewhere(i)
<1>1. /\ store[i] # None => store[i] \in Device /\ store[i].checked <= wakes[i].at
      /\ SameStatus(wakes[i].dev, cards[i].dev)
      /\ wakes[i] \in WakeOp
  BY DEF Types, OperationTypes, InventoryTypes, Devices, TimeInv, TimeAt, WakingInv, WakingAt
<1>2. ~Accepts(store[i], wakes[i].dev, wakes[i].at)
  <2>1. ASSUME Accepts(store[i], wakes[i].dev, wakes[i].at) PROVE FALSE
    <3>1. store[i] \in Device /\ wakes[i].at \in Times \cup {0} /\ wakes[i].state \in Observable
      BY <1>1, <2>1 DEF Accepts, WakeOp
    <3>2. Observed(store[i], wakes[i].dev, wakes[i].at, wakes[i].state, verify) \in Device
      BY <3>1, ObservedType
    <3> QED
      BY <2>1, <3>2 DEF Saved
  <2> QED
    BY <2>1
<1> QED
  BY <1>1, <1>2 DEF Accepts, Elsewhere, SameStatus

LEMMA WakeWaking ==
    ASSUME Types, AwaitedInv, TimeInv, WakingInv, NEW i \in Ids, WakeStep(i)
    PROVE  WakingInv'
<1>1. /\ \A j \in Ids \ {i} : cards'[j] = cards[j] /\ wakes'[j] = wakes[j]
      /\ cards[i] \in Card \cup {None} /\ cards \in [Ids -> Card \cup {None}]
      /\ wakes[i] \in WakeOp /\ wakes \in [Ids -> WakeOp]
      /\ wakes[i].fresh => cards[i] # None /\ wakes[i].phase # "idle"
      /\ wakes[i].phase # "idle" => wakes[i].dev \in Device
  BY WakeShape DEF Types, OperationTypes, FreshInv
<1>2. \A j \in Ids : /\ store'[j] = None <=> store[j] = None
                     /\ store[j] # None => SameStatus(store[j], store'[j])
  <2>1. \A j \in Ids : store'[j] = None <=> store[j] = None
    BY OperationsQuiet DEF Quiet
  <2>2. CASE CommitWake(i)
    <3>1. Commit("wake", i, wakes[i], wakes[i].verified) /\ wakes[i].phase = "applying"
      BY <2>2 DEF CommitWake, Commit
    <3>2. wakes[i].at \in Times \cup {0} /\ wakes[i].state \in Observable
      BY <1>1 DEF WakeOp
    <3>3. KeepsTargets
      BY <1>1, <3>1, <3>2, CommitKeeps
    <3> QED
      BY <2>1, <3>3 DEF KeepsTargets
  <2>3. CASE ~CommitWake(i)
    <3>1. UNCHANGED store
      BY <2>3 DEF WakeStep, WakeFindsOnline, WakeSends, WakeOutcome, WakeAborts, ResumeWake,
                  inventory
    <3> QED
      BY <3>1 DEF SameStatus
  <2> QED
    BY <2>2, <2>3
<1>3. ASSUME NEW j \in Ids, j # i PROVE WakingAt(j)'
  BY <1>1, <1>2, <1>3, SameCard, SameWaking, StillElsewhere DEF SameOperation, WakingInv
<1>4. WakingAt(i)
  BY DEF WakingInv
<1>5. ShowsWaking(i) /\ wakes[i].phase # "idle" => wakes[i].fresh
  BY <1>4 DEF WakingAt
<1>6. CASE WakeFindsOnline(i) \/ \E state \in Answers, at \in Times : WakeOutcome(i, state, at)
  <2>1. /\ cards'[i] = cards[i] /\ wakes[i].phase # "idle"
        /\ wakes'[i].phase = "applying" /\ wakes'[i].dev = wakes[i].dev
        /\ wakes'[i].fresh = wakes[i].fresh
    <3>1. ASSUME WakeFindsOnline(i)
          PROVE  /\ cards'[i] = cards[i] /\ wakes[i].phase # "idle"
                 /\ wakes'[i].phase = "applying" /\ wakes'[i].dev = wakes[i].dev
                 /\ wakes'[i].fresh = wakes[i].fresh
      BY <1>1, <3>1 DEF WakeFindsOnline, WakeOp
    <3>2. ASSUME NEW state \in Answers, NEW at \in Times, WakeOutcome(i, state, at)
          PROVE  /\ cards'[i] = cards[i] /\ wakes[i].phase # "idle"
                 /\ wakes'[i].phase = "applying" /\ wakes'[i].dev = wakes[i].dev
                 /\ wakes'[i].fresh = wakes[i].fresh
      BY <1>1, <3>2 DEF WakeOutcome, WakeOp
    <3> QED
      BY <1>6, <3>1, <3>2
  <2>2. WakingAt(i)'
    BY <1>4, <2>1 DEF WakingAt, ShowsWaking
  <2> QED
    BY <1>3, <2>2 DEF WakingInv
<1>7. ASSUME NEW before \in Answers, WakeSends(i, before) PROVE WakingInv'
  <2>1. /\ wakes[i].phase = "looking"
        /\ wakes'[i].phase = "sent" /\ wakes'[i].dev = wakes[i].dev
        /\ wakes'[i].fresh = wakes[i].fresh
    BY <1>1, <1>7 DEF WakeSends, WakeOp
  <2>4. cards'[i] = IF wakes[i].fresh THEN [cards[i] EXCEPT !.state = "Waking"] ELSE cards[i]
    BY <1>1, <1>7 DEF WakeSends
  <2>2. wakes[i].fresh => cards'[i].dev = cards[i].dev
    BY <1>1, <2>4 DEF Card
  <2>3. WakingAt(i)'
    BY <1>4, <1>5, <2>1, <2>2, <2>4 DEF WakingAt, ShowsWaking
  <2> QED
    BY <1>3, <2>3 DEF WakingInv
<1>8. CASE WakeAborts(i)
  <2>1. EndWake(i, ShowUnknown(cards[i], wakes[i])) /\ wakes[i].phase # "idle"
    BY <1>8 DEF WakeAborts
  <2>2. /\ ShowUnknown(cards[i], wakes[i]) \in Card \cup {None}
        /\ wakes[i].fresh => /\ ShowUnknown(cards[i], wakes[i]) # None
                             /\ ShowUnknown(cards[i], wakes[i]).state = "Unknown"
        /\ ~wakes[i].fresh => ShowUnknown(cards[i], wakes[i]) = cards[i]
    <3>1. wakes[i].fresh => [cards[i] EXCEPT !.state = "Unknown"] \in Card
      BY <1>1 DEF Card, Observable
    <3> QED
      BY <1>1, <3>1, NewValues DEF ShowUnknown, Card
  <2>3. ~wakes'[i].fresh /\ ~ShowsWaking(i)'
    BY <1>5, <2>1, <2>2, EndWakeShape DEF ShowsWaking
  <2> QED
    BY <1>3, <2>3, EndedWaking DEF WakingInv
<1>9. CASE CommitWake(i)
  <2>1. /\ wakes[i].phase = "applying" /\ cards'[i] = cards[i]
        /\ wakes'[i].phase = "committed" /\ wakes'[i].dev = wakes[i].dev
        /\ wakes'[i].fresh = wakes[i].fresh
        /\ wakes'[i].saved = Saved(i, wakes[i], wakes[i].verified)
    BY <1>1, <1>9 DEF CommitWake, Commit, Committed, WakeOp
  <2>2. ASSUME wakes'[i].fresh, wakes'[i].saved = None PROVE Elsewhere(i)'
    <3>1. Elsewhere(i)
      BY <2>1, <2>2, RefusedElsewhere
    <3> QED
      BY <1>1, <1>2, <2>1, <2>2, <3>1, SameCard, StillElsewhere
  <2>3. WakingAt(i)'
    BY <1>4, <1>5, <2>1, <2>2 DEF WakingAt, ShowsWaking
  <2> QED
    BY <1>3, <2>3 DEF WakingInv
<1>10. CASE ResumeWake(i)
  <2>1. /\ EndWake(i, Show(cards[i], wakes[i])) /\ wakes[i].phase = "committed"
        /\ UNCHANGED store
    <3>1. /\ inbox # <<>> /\ Head(inbox) = [kind |-> "wake", id |-> i] /\ inbox \in Seq(Items)
      BY <1>10 DEF ResumeWake, Arrives, Types, InventoryTypes
    <3>2. inbox[1] = Head(inbox) /\ 1 \in 1..Len(inbox)
      BY <3>1, HeadTailProperties, EmptySeq, LenProperties
    <3>3. wakes[inbox[1].id].phase = "committed"
      BY <3>1, <3>2 DEF AwaitedInv
    <3> QED
      BY <1>10, <3>1, <3>2, <3>3 DEF ResumeWake
  <2>2. CASE wakes[i].fresh /\ wakes[i].saved # None
    <3>1. /\ Show(cards[i], wakes[i]) =
               [cards[i] EXCEPT !.dev = wakes[i].saved, !.state = wakes[i].state,
                                !.shownFor = StatusTarget(wakes[i].dev)]
          /\ cards[i] \in Card /\ Show(cards[i], wakes[i]) \in Card
      BY <1>1, <2>2, ShowType DEF Show, WakeOp
    <3>2. Show(cards[i], wakes[i]).state # "Waking"
      BY <1>1, <3>1 DEF Card, WakeOp, Observable
    <3>3. ~wakes'[i].fresh /\ ~ShowsWaking(i)'
      BY <2>1, <3>1, <3>2, EndWakeShape, NewValues DEF ShowsWaking
    <3> QED
      BY <1>3, <3>3, EndedWaking DEF WakingInv
  <2>3. CASE ~(wakes[i].fresh /\ wakes[i].saved # None)
    <3>1. Show(cards[i], wakes[i]) = cards[i]
      BY <2>3 DEF Show
    <3>2. /\ wakes'[i].phase = "idle" /\ ~wakes'[i].fresh
          /\ cards'[i] = None <=> cards[i] = None
          /\ cards[i] # None => cards'[i].dev = cards[i].dev /\ cards'[i].state = cards[i].state
      BY <1>1, <2>1, <3>1, EndWakeShape
    <3>3. ShowsWaking(i)' => ShowsWaking(i) /\ wakes[i].fresh /\ wakes[i].saved = None
      BY <1>5, <2>1, <2>3, <3>2 DEF ShowsWaking
    <3>4. ShowsWaking(i)' => Elsewhere(i)'
      BY <1>4, <2>1, <3>2, <3>3 DEF WakingAt, Elsewhere, ShowsWaking
    <3>5. WakingAt(i)'
      BY <3>2, <3>4 DEF WakingAt
    <3> QED
      BY <1>3, <3>5 DEF WakingInv
  <2> QED
    BY <2>2, <2>3
<1> QED
  BY <1>6, <1>7, <1>8, <1>9, <1>10 DEF WakeStep

LEMMA SameOperations ==
    ASSUME Types, WakingInv, UNCHANGED <<cards, wakes, store>>
    PROVE  WakingInv'
  BY DEF WakingInv, WakingAt, Elsewhere, ShowsWaking

LEMMA BeginWaking ==
    ASSUME Types, WakingInv, NEW i \in Ids, BeginWake(i) \/ CancelWake(i)
    PROVE  WakingInv'
<1>0. /\ wakes \in [Ids -> WakeOp] /\ cards \in [Ids -> Card \cup {None}] /\ UNCHANGED store
  BY DEF Types, OperationTypes, BeginWake, CancelWake, inventory
<1>1. ASSUME NEW j \in Ids, cards'[j] = cards[j], SameOperation(wakes[j], wakes'[j])
      PROVE  WakingAt(j)'
  BY <1>0, <1>1 DEF WakingInv, WakingAt, Elsewhere, ShowsWaking, SameOperation
<1>2. CASE BeginWake(i)
  <2>1. /\ cards[i] \in Card
        /\ cards' = [cards EXCEPT ![i] = [[@ EXCEPT !.waking = TRUE] EXCEPT !.state = "Unknown"]]
        /\ wakes' = [wakes EXCEPT ![i] = [NoWake EXCEPT !.phase = "looking", !.fresh = TRUE,
                                             !.dev = Copy(cards[i].dev), !.at = now]]
    BY <1>0, <1>2 DEF BeginWake
  <2>2. cards'[i].dev = cards[i].dev /\ cards'[i].state = "Unknown" /\ cards[i].dev \in Device
    BY <1>0, <2>1 DEF Card
  <2>3. wakes'[i].phase = "looking" /\ wakes'[i].dev = Copy(cards[i].dev)
    BY <1>0, <2>1 DEF NoWake
  <2>4. WakingAt(i)'
    BY <2>2, <2>3, CopyType DEF WakingAt, SameStatus, ShowsWaking
  <2>5. \A j \in Ids \ {i} : cards'[j] = cards[j] /\ SameOperation(wakes[j], wakes'[j])
    BY <1>0, <2>1 DEF SameOperation
  <2> QED
    BY <1>1, <2>4, <2>5 DEF WakingInv
<1>3. CASE CancelWake(i)
  <2>1. UNCHANGED cards /\ wakes' = [wakes EXCEPT ![i].cancelled = TRUE]
    BY <1>3 DEF CancelWake
  <2>2. \A j \in Ids : SameOperation(wakes[j], wakes'[j])
    BY <1>0, <2>1 DEF SameOperation, WakeOp
  <2> QED
    BY <1>1, <2>1, <2>2 DEF WakingInv
<1> QED
  BY <1>2, <1>3

(* A list that keeps a card's target leaves its wake alone; one that changes *)
(* it resets the card and supersedes the wake.                               *)
LEMMA ListWaking == ASSUME Types, WakingInv, ShowList PROVE WakingInv'
<1> DEFINE devices == Head(inbox).devices
<1>1. UNCHANGED store /\ devices \in Devices /\ \A i \in Ids : ShownAs(devices, i)
  BY ShowListFacts, Zenon
<1> SUFFICES ASSUME NEW i \in Ids PROVE WakingAt(i)'
  BY DEF WakingInv
<1>2. /\ cards[i] \in Card \cup {None} /\ devices[i] \in Device \cup {None} /\ wakes[i] \in WakeOp
      /\ wakes[i].fresh => cards[i] # None /\ wakes[i].phase # "idle"
      /\ cards'[i] = Synchronized(cards[i], devices[i])
      /\ WakingAt(i)
  BY <1>1 DEF Types, OperationTypes, FreshInv, Devices, ShownAs, WakingInv
<1> DEFINE superseded == cards[i] # None /\ (devices[i] = None \/ Resets(cards[i], devices[i]))
<1>3. CASE superseded
  <2>1. ~wakes'[i].fresh
    <3>1. wakes'[i] = IF wakes[i].phase # "idle"
                      THEN [wakes[i] EXCEPT !.fresh = FALSE, !.cancelled = TRUE] ELSE wakes[i]
      BY <1>1, <1>3 DEF ShownAs
    <3> QED
      <4>1. ~[wakes[i] EXCEPT !.fresh = FALSE, !.cancelled = TRUE].fresh
        BY <1>2 DEF WakeOp
      <4>2. CASE wakes[i].phase # "idle"
        BY <3>1, <4>1, <4>2, Zenon
      <4>3. CASE wakes[i].phase = "idle"
        BY ONLY <1>2, <3>1, <4>3, Zenon
      <4> QED
        BY <4>2, <4>3, Zenon
  <2>2. ~ShowsWaking(i)'
    <3>1. CASE devices[i] = None
      BY <1>2, <3>1 DEF Synchronized, ShowsWaking
    <3>2. CASE devices[i] # None
      <4>1. cards'[i] = [cards[i] EXCEPT !.dev = devices[i], !.state = "Unknown"]
        BY <1>2, <1>3, <3>2 DEF Synchronized
      <4>2. cards'[i].state = "Unknown"
        BY <1>2, <1>3, <4>1 DEF Card
      <4> QED
        BY <4>2 DEF ShowsWaking
    <3> QED
      BY <3>1, <3>2
  <2> QED
    BY <2>1, <2>2, EndedWaking
<1>4. CASE ~superseded
  <2>1. wakes'[i] = wakes[i]
    BY <1>1, <1>4 DEF ShownAs
  <2>2. CASE cards[i] = None
    <3>1. cards'[i] = None \/ cards'[i] = NewCard(devices[i])
      BY <1>2, <2>2 DEF Synchronized
    <3>2. ~ShowsWaking(i)'
      BY <3>1 DEF ShowsWaking, NewCard
    <3> QED
      BY <1>2, <2>1, <2>2, <3>2, EndedWaking
  <2>3. CASE cards[i] # None
    <3>1. cards'[i] = [cards[i] EXCEPT !.dev = devices[i]] /\ SameWake(cards[i].dev, devices[i])
      BY <1>2, <1>4, <2>3 DEF Synchronized, Resets
    <3>2. cards'[i].dev = devices[i] /\ cards'[i].state = cards[i].state
      BY <1>2, <2>3, <3>1 DEF Card
    <3>3. SameStatus(cards[i].dev, cards'[i].dev)
      BY <3>1, <3>2, SameTarget DEF SameWake
    <3> QED
      BY <1>1, <1>2, <2>1, <2>3, <3>2, <3>3 DEF WakingAt, Elsewhere, ShowsWaking, SameStatus
  <2> QED
    BY <2>2, <2>3
<1> QED
  BY <1>3, <1>4

(* While no command waits for its list, every card has a stored target.      *)
LEMMA NothingElsewhere ==
    ASSUME Types, PresenceInv, TrackInv, command.phase # "listing", NEW i \in Ids, cards[i] # None
    PROVE  ~Elsewhere(i)
<1>1. NoneOwn /\ \A k \in 1..Len(inbox) : ~OwnList(inbox[k])
  BY NoReload DEF NoneOwn
<1>2. PICK k \in 0..Len(inbox) : Current(k)
  BY <1>1 DEF TrackInv
<1>3. k = 0
  <2>1. Len(inbox) \in Nat
    BY LenProperties DEF Types, InventoryTypes
  <2> QED
    BY <1>1, <1>2, <2>1 DEF Current
<1> QED
  BY <1>2, <1>3 DEF Current, CardMeets, Elsewhere, SameStatus

LEMMA CommandsWaking ==
    ASSUME Types, PresenceInv, TrackInv, WakingInv,
           \/ \E i \in Ids : DeleteDevice(i)
           \/ \E form \in Forms : SaveEdit(form)
           \/ \E i \in Ids, found \in Discoveries, form \in Forms : DiscoverDevice(i, found, form)
    PROVE  WakingInv'
<1>0. /\ UNCHANGED <<cards, wakes>> /\ store \in [Ids -> Device \cup {None}]
      /\ Forms \subseteq Form /\ Discoveries \subseteq Found
  BY ActivityAssumption DEF DeleteDevice, SaveEdit, DiscoverDevice, operations, Types,
                            InventoryTypes, Devices
<1>1. ASSUME NEW j \in Ids, cards[j] # None /\ Elsewhere(j) => Elsewhere(j)'
      PROVE  WakingAt(j)'
  BY <1>0, <1>1, SameCard, SameWaking DEF SameOperation, WakingInv
<1>2. ASSUME NEW j \in Ids, store'[j] = store[j] PROVE WakingAt(j)'
  BY <1>0, <1>1, <1>2 DEF Elsewhere
<1>3. ASSUME NEW i \in Ids, DeleteDevice(i) PROVE WakingInv'
  <2>1. store'[i] = None /\ \A j \in Ids \ {i} : store'[j] = store[j]
    BY <1>0, <1>3 DEF DeleteDevice
  <2>2. WakingAt(i)'
    BY <1>1, <2>1 DEF Elsewhere
  <2> QED
    BY <1>2, <2>1, <2>2 DEF WakingInv
<1>4. ASSUME NEW form \in Forms, SaveEdit(form) PROVE WakingInv'
  <2>1. command.phase # "listing"
    BY <1>4 DEF SaveEdit
  <2> QED
    BY <1>1, <2>1, NothingElsewhere DEF WakingInv
<1>5. ASSUME NEW i \in Ids, NEW found \in Discoveries, NEW form \in Forms,
             DiscoverDevice(i, found, form)
      PROVE  WakingInv'
  <2>1. i \notin allocated /\ Store(i, Edited(Discovered(found), form))
    BY <1>5 DEF DiscoverDevice
  <2>2. Edited(Discovered(found), form) \in Device
    BY <1>0, EditedType, DiscoveredType
  <2>3. \A j \in Ids \ {i} : store'[j] = store[j]
    BY <2>1, <2>2, StoreTypes
  <2>4. cards[i] = None
    BY <2>1 DEF PresenceInv, PresenceAt, Known
  <2> QED
    BY <1>1, <1>2, <2>3, <2>4 DEF WakingInv
<1> QED
  BY <1>3, <1>4, <1>5

LEMMA NextWaking ==
    ASSUME Types, PresenceInv, WriterInv, AwaitedInv, TimeInv, TrackInv, WakingInv, [Next]_vars
    PROVE  WakingInv'
<1>1. CASE \/ UNCHANGED vars \/ Tick \/ Sweeping \/ StopDone \/ Stop \/ Refresh \/ CloseEditor
           \/ ReadList \/ ListFails \/ \E i \in Ids : OpenEditor(i)
  <2>1. UNCHANGED <<cards, wakes, store>>
    BY <1>1 DEF vars, Tick, Sweeping, StartSweep, StartBatch, EndSweep, StopDone, Stop, Refresh,
                CloseEditor, ReadList, ListFails, OpenEditor, inventory, operations
  <2> QED
    BY <2>1, SameOperations
<1>2. CASE \E i \in Ids : CheckStep(i) \/ WakeStep(i) \/ BeginWake(i) \/ CancelWake(i)
  BY <1>2, CheckWaking, WakeWaking, BeginWaking
<1>3. CASE ShowList
  BY <1>3, ListWaking
<1>4. CASE \/ \E i \in Ids : DeleteDevice(i)
           \/ \E form \in Forms : SaveEdit(form)
           \/ \E i \in Ids, found \in Discoveries, form \in Forms : DiscoverDevice(i, found, form)
  BY <1>4, CommandsWaking
<1> QED
  BY <1>1, <1>2, <1>3, <1>4 DEF Next, Loading, UserStep

LEMMA InitWaking ==
    ASSUME ~ClockMayStep, Init
    PROVE  WriterInv /\ AwaitedInv /\ TimeInv /\ WakingInv
<1>1. /\ Len(inbox) = 0 /\ now = 1 /\ store = InitialDevices
      /\ checks = [i \in Ids |-> Idle] /\ wakes = [i \in Ids |-> NoWake]
      /\ cards = [i \in Ids |-> IF InitialDevices[i] = None THEN None
                                ELSE NewCard(InitialDevices[i])]
  BY EmptySeq DEF Init
<1>2. \A i \in Ids : store[i] # None => store[i].checked <= now
  BY <1>1, PastAssumption
<1>3. ASSUME NEW i \in Ids PROVE ~ShowsWaking(i)
  BY <1>1 DEF ShowsWaking, NewCard
<1>4. ASSUME NEW i \in Ids
      PROVE  /\ checks[i].phase = "idle" /\ ~checks[i].fresh
             /\ wakes[i].phase = "idle" /\ ~wakes[i].fresh
  <2>1. checks[i] = Idle /\ wakes[i] = NoWake
    BY <1>1
  <2> QED
    BY <2>1 DEF Idle, NoWake
<1>5. WriterInv /\ AwaitedInv
  BY <1>1, <1>4 DEF WriterInv, WriterAt, AwaitedInv
<1>6. TimeInv /\ WakingInv
  BY <1>2, <1>3, <1>4 DEF TimeInv, TimeAt, WakingInv, WakingAt
<1> QED
  BY <1>5, <1>6

(* While the clock goes forward and no reload fails, a card shows Waking     *)
(* only while its wake runs or its stored target is another one, which a     *)
(* reload is to show: the transaction refuses the outcome of a wake only     *)
(* when its target was edited or deleted, never as out of date.              *)
THEOREM WakingIsTransient ==
    ASSUME ~ListMayFail, ~ClockMayStep
    PROVE  Spec => []WakingMeansInProgress
<1> DEFINE All == Types /\ PresenceInv /\ WriterInv /\ AwaitedInv /\ TimeInv /\ TrackInv /\ WakingInv
<1>1. Init => All
  BY InitTypes, InitPresence, InitTracks, InitWaking
<1>2. All /\ [Next]_vars => All'
  BY NextTypes, NextPresence, NextWriter, NextAwaited, NextTime, NextTracks, NextWaking
<1>3. All => WakingMeansInProgress
  BY DEF WakingInv, WakingAt, WakingMeansInProgress, ShowsWaking, Elsewhere
<1> QED
  BY <1>1, <1>2, <1>3, PTL DEF Spec

-----------------------------------------------------------------------------
(* The contract speaks of the same records and rules.                        *)
LEMMA ContractRules ==
    /\ Inventory!Device = Device
    /\ \A d : Inventory!Valid(d) <=> Valid(d)
    /\ \A a, b : /\ Inventory!Matches(a, b) <=> Matches(a, b)
                 /\ Inventory!SameStatus(a, b) <=> SameStatus(a, b)
                 /\ Inventory!SameWake(a, b) <=> SameWake(a, b)
<1>1. Inventory!Device = Device
  BY DEF Inventory!Device, Inventory!Capabilities, Inventory!Observable,
         Device, Capabilities, Observable
<1>2. \A d : Inventory!Valid(d) <=> Valid(d)
  BY DEF Inventory!Valid, Valid
<1>3. \A a, b : Inventory!Matches(a, b) <=> Matches(a, b)
  BY DEF Inventory!Matches, Matches
<1>4. \A a, b : /\ Inventory!SameStatus(a, b) <=> SameStatus(a, b)
                /\ Inventory!SameWake(a, b) <=> SameWake(a, b)
  BY DEF Inventory!SameStatus, Inventory!SameWake, Inventory!StatusTarget,
         Inventory!WakeTarget, SameStatus, SameWake, StatusTarget, WakeTarget
<1> QED
  BY <1>1, <1>2, <1>3, <1>4

(* A merge replaces a record as the contract allows.                         *)
LEMMA MergedReplaces ==
    ASSUME NEW current \in Device, NEW new \in Device
    PROVE  LET d == Merged(current, new)
           IN /\ Inventory!Observation(d) = IF SameStatus(current, d)
                                            THEN Inventory!Observation(current)
                                            ELSE Inventory!Unobserved
              /\ d.cap = "Verified" => current.cap = "Verified" /\ SameWake(current, d)
  <1> DEFINE d == Merged(current, new)
  <1>1. /\ d.host = new.host /\ d.ip = new.ip /\ d.mac = new.mac /\ d.check = new.check
        /\ d.wake = new.wake /\ d.cap = MergedCapability(current, new)
        /\ d.state = IF SameStatus(current, new) THEN current.state ELSE "Unknown"
        /\ d.checked = IF SameStatus(current, new) THEN current.checked ELSE 0
        /\ d.seen = IF SameStatus(current, new) THEN current.seen ELSE 0
    BY DEF Merged, Device
  <1> HIDE DEF d
  <1>2. (SameStatus(current, d) <=> SameStatus(current, new))
        /\ (SameWake(current, d) <=> SameWake(current, new))
    BY <1>1 DEF SameStatus, SameWake, StatusTarget, WakeTarget
  <1>3. Inventory!Observation(d) = IF SameStatus(current, d)
                                   THEN Inventory!Observation(current)
                                   ELSE Inventory!Unobserved
    BY <1>1, <1>2 DEF Inventory!Observation, Inventory!Unobserved
  <1>4. d.cap = "Verified" => current.cap = "Verified" /\ SameWake(current, d)
    BY <1>1, <1>2 DEF MergedCapability
  <1> QED
    BY <1>3, <1>4 DEF d

(* A save stores a record as the contract allows.                            *)
LEMMA StoreContract ==
    ASSUME Types, NEW i \in Ids, NEW d \in Device, Store(i, d)
    PROVE  Inventory!Next
<1> DEFINE record == IF store[i] = None THEN d ELSE Merged(store[i], d)
<1>1. Valid(d) /\ ~Clash(i, record) /\ store' = [store EXCEPT ![i] = record]
  BY DEF Store
<1>2. record \in Device /\ Valid(record)
  BY <1>1, MergedFacts DEF Types, InventoryTypes, Devices
<1>3. CASE store[i] = None
  <2>1. record = d
    BY <1>3
  <2> HIDE DEF record
  <2>2. Inventory!Admissible(i, d)
    BY <1>1, <2>1, ContractRules DEF Inventory!Admissible, Clash
  <2>3. Inventory!Add(i, d)
    BY <1>1, <1>3, <2>1, <2>2 DEF Inventory!Add
  <2> QED
    BY <2>3, ContractRules DEF Inventory!Next
<1>4. CASE store[i] # None
  <2>1. store[i] \in Device /\ record = Merged(store[i], d)
    BY <1>4 DEF Types, InventoryTypes, Devices
  <2>2. /\ Inventory!Observation(record) = IF SameStatus(store[i], record)
                                           THEN Inventory!Observation(store[i])
                                           ELSE Inventory!Unobserved
        /\ record.cap = "Verified" => store[i].cap = "Verified" /\ SameWake(store[i], record)
    BY <2>1, MergedReplaces
  <2> HIDE DEF record
  <2>3. Inventory!Admissible(i, record)
    BY <1>1, <1>2, ContractRules DEF Inventory!Admissible, Clash
  <2>4. Inventory!Replace(i, record)
    BY <1>1, <1>4, <2>2, <2>3, ContractRules DEF Inventory!Replace
  <2> QED
    BY <1>2, <2>4, ContractRules DEF Inventory!Next
<1> QED
  BY <1>3, <1>4

(* The transaction of an observation writes what the contract allows.        *)
LEMMA CommitContract ==
    ASSUME Types, NEW kind, NEW i \in Ids, NEW op, op.dev \in Device, op.at \in Times \cup {0},
           op.state \in Observable, NEW verify, Commit(kind, i, op, verify)
    PROVE  [Inventory!Next]_store
<1> DEFINE d == Saved(i, op, verify)
<1>1. store' = IF d = None THEN store ELSE [store EXCEPT ![i] = d]
  BY DEF Commit
<1>2. CASE d # None
  <2>1. d \in Device /\ store[i] \in Device /\ WakeTarget(d) = WakeTarget(store[i])
        /\ d.cap = IF Qualifies(store[i], op.dev, op.state, verify)
                   THEN "Verified" ELSE store[i].cap
    BY <1>2, SavedFacts
  <2>2. /\ store[i] # None /\ store[i].checked <= op.at
        /\ d = Observed(store[i], op.dev, op.at, op.state, verify)
    BY <1>2 DEF Saved, Accepts
  <2>3. /\ d.name = store[i].name /\ d.checked = op.at /\ d.state = op.state
        /\ d.seen = IF op.state = "Online" THEN op.at ELSE store[i].seen
    BY <2>1, <2>2 DEF Observed, Device
  <2> HIDE DEF d
  <2>4. SameWake(store[i], d)
    BY <2>1 DEF SameWake
  <2>5. Inventory!Observe(i, d)
    BY <1>1, <1>2, <2>1, <2>2, <2>3, <2>4, ContractRules DEF Inventory!Observe, Qualifies
  <2> QED
    BY <2>1, <2>5, ContractRules DEF Inventory!Next
<1> QED
  BY <1>1, <1>2

(* Every step of the live inventory is a step of the contract, or leaves the *)
(* store alone.                                                              *)
LEMMA StepContract == ASSUME Types, [Next]_vars PROVE [Inventory!Next]_store
<1>1. CASE \/ UNCHANGED vars \/ Tick \/ Sweeping \/ Loading \/ StopDone \/ Stop
           \/ Refresh \/ CloseEditor
           \/ \E i \in Ids : BeginWake(i) \/ CancelWake(i) \/ OpenEditor(i)
  BY <1>1 DEF vars, Tick, Sweeping, StartSweep, StartBatch, EndSweep, Loading, ReadList, ShowList,
              ListFails, StopDone, Stop, Refresh, CloseEditor, BeginWake, CancelWake, OpenEditor,
              inventory
<1>2. ASSUME NEW i \in Ids, DeleteDevice(i) PROVE [Inventory!Next]_store
  <2>1. store' = [store EXCEPT ![i] = None] /\ store \in Devices
    BY <1>2 DEF DeleteDevice, Types, InventoryTypes
  <2>2. CASE store[i] = None
    BY <2>1, <2>2 DEF Devices
  <2>3. CASE store[i] # None
    BY <2>1, <2>3 DEF Inventory!Delete, Inventory!Next
  <2> QED
    BY <2>2, <2>3
<1>3. ASSUME NEW form \in Forms, SaveEdit(form) PROVE Inventory!Next
  <2>1. command.id \in Ids /\ command.original \in Device /\ form \in Form
    BY <1>3, ActivityAssumption DEF SaveEdit, Types, InventoryTypes
  <2>2. Edited(command.original, form) \in Device
    BY <2>1, EditedType
  <2>3. Store(command.id, Edited(command.original, form))
    BY <1>3 DEF SaveEdit
  <2> QED
    BY <2>1, <2>2, <2>3, StoreContract
<1>4. ASSUME NEW i \in Ids, NEW found \in Discoveries, NEW form \in Forms,
             DiscoverDevice(i, found, form)
      PROVE  Inventory!Next
  <2>1. form \in Form /\ found \in Found
    BY ActivityAssumption
  <2>2. Edited(Discovered(found), form) \in Device
    BY <2>1, DiscoveredType, EditedType
  <2>3. Store(i, Edited(Discovered(found), form))
    BY <1>4 DEF DiscoverDevice
  <2> QED
    BY <2>2, <2>3, StoreContract
<1>5. ASSUME NEW i \in Ids, CheckStep(i) PROVE [Inventory!Next]_store
  <2>1. CASE CommitCheck(i)
    <3>1. Commit("check", i, checks[i], FALSE) /\ checks[i].phase = "applying"
      BY <2>1 DEF CommitCheck, Commit
    <3>2. checks[i].dev \in Device /\ checks[i].at \in Times \cup {0}
          /\ checks[i].state \in Observable
      BY <3>1 DEF Types, OperationTypes, CheckOp
    <3> QED
      BY <3>1, <3>2, CommitContract
  <2>2. CASE ~CommitCheck(i)
    BY <1>5, <2>2 DEF CheckStep, CheckAnswers, CheckFails, ResumeCheck, inventory
  <2> QED
    BY <2>1, <2>2
<1>6. ASSUME NEW i \in Ids, WakeStep(i) PROVE [Inventory!Next]_store
  <2>1. CASE CommitWake(i)
    <3>1. Commit("wake", i, wakes[i], wakes[i].verified) /\ wakes[i].phase = "applying"
      BY <2>1 DEF CommitWake, Commit
    <3>2. wakes[i].dev \in Device /\ wakes[i].at \in Times \cup {0}
          /\ wakes[i].state \in Observable
      BY <3>1 DEF Types, OperationTypes, WakeOp
    <3> QED
      BY <3>1, <3>2, CommitContract
  <2>2. CASE ~CommitWake(i)
    BY <1>6, <2>2 DEF WakeStep, WakeFindsOnline, WakeSends, WakeOutcome, WakeAborts, ResumeWake,
                      inventory
  <2> QED
    BY <2>1, <2>2
<1> QED
  <2>1. CASE UserStep
    BY <1>1, <1>2, <1>3, <1>4, <2>1, Zenon DEF UserStep
  <2>2. CASE \/ UNCHANGED vars \/ Tick \/ Sweeping \/ Loading \/ StopDone
    BY <1>1, <2>2, Zenon
  <2>3. CASE \E i \in Ids : CheckStep(i) \/ WakeStep(i)
    BY ONLY <1>5, <1>6, <2>3, Zenon
  <2> QED
    BY <2>1, <2>2, <2>3, Zenon DEF Next

(* The store of the live inventory keeps the contract of the inventory, with *)
(* sweeps, wakes, edits, additions, deletions and reloads interleaved at     *)
(* every await, under a clock that may be set back.                          *)
THEOREM ActivityImplements == Spec => Contract
<1>1. Init /\ Types => Inventory!Init
  BY ContractRules, UniqueAssumption
  DEF Init, Types, InventoryTypes, Devices, Inventory!Init, Inventory!UniqueAddresses
<1>2. Types /\ [Next]_vars => [Inventory!Next]_store
  BY StepContract
<1> QED
  BY <1>1, <1>2, TypesHold, PTL DEF Spec, Contract, Inventory!Spec

(* What the contract alone implies: a step of it keeps addresses unique.     *)
LEMMA ContractUnique ==
    ASSUME store \in Devices, Inventory!UniqueAddresses, [Inventory!Next]_store
    PROVE  Inventory!UniqueAddresses'
<1> SUFFICES ASSUME NEW i \in Ids, NEW j \in Ids, i # j, store'[i] # None, store'[j] # None,
                    Matches(store'[i], store'[j])
             PROVE  FALSE
  BY ContractRules DEF Inventory!UniqueAddresses
<1>1. ASSUME NEW k \in Ids, \A l \in Ids \ {k} : store'[l] = store[l],
             store'[k] # None =>
                 \A l \in Ids \ {k} : store[l] # None => ~Matches(store'[k], store[l])
      PROVE  FALSE
  <2>1. \A a, b : Matches(a, b) => Matches(b, a)
    BY DEF Matches
  <2>2. CASE i # k /\ j # k
    BY <1>1, <2>2, ContractRules DEF Inventory!UniqueAddresses
  <2> QED
    BY <1>1, <2>1, <2>2
<1>2. ASSUME NEW k \in Ids, Inventory!Delete(k) PROVE FALSE
  BY <1>1, <1>2 DEF Inventory!Delete, Devices
<1>3. ASSUME NEW k \in Ids, NEW d \in Device, Inventory!Add(k, d) \/ Inventory!Replace(k, d)
      PROVE  FALSE
  <2>1. store' = [store EXCEPT ![k] = d] /\ Inventory!Admissible(k, d)
    BY <1>3 DEF Inventory!Add, Inventory!Replace
  <2> QED
    BY <1>1, <2>1, ContractRules DEF Inventory!Admissible, Devices
<1>4. ASSUME NEW k \in Ids, NEW d \in Device, Inventory!Observe(k, d) PROVE FALSE
  <2>1. store[k] # None /\ SameWake(store[k], d) /\ store' = [store EXCEPT ![k] = d]
    BY <1>4, ContractRules DEF Inventory!Observe
  <2>2. d.mac = store[k].mac /\ d.host = store[k].host /\ d.ip = store[k].ip
    BY <2>1 DEF SameWake, WakeTarget, StatusTarget
  <2>3. \A l \in Ids \ {k} : store[l] # None => ~Matches(store[k], store[l])
    BY <2>1, ContractRules DEF Inventory!UniqueAddresses
  <2>4. \A l \in Ids \ {k} : store[l] # None => ~Matches(d, store[l])
    BY <2>2, <2>3 DEF Matches
  <2> QED
    BY <1>1, <2>1, <2>4 DEF Devices
<1>5. CASE UNCHANGED store
  BY <1>5, ContractRules DEF Inventory!UniqueAddresses
<1> QED
  BY <1>2, <1>3, <1>4, <1>5, ContractRules DEF Inventory!Next

(* And never takes the last check of an unchanged target back.               *)
LEMMA ContractAdvances ==
    ASSUME store \in Devices, [Inventory!Next]_store, NEW i \in Ids,
           store[i] # None, store'[i] # None, SameStatus(store[i], store'[i])
    PROVE  store[i].checked <= store'[i].checked
<1>1. store[i].checked \in Nat
  BY Instants DEF Devices
<1>2. CASE store'[i] = store[i]
  BY <1>1, <1>2
<1>3. ASSUME NEW d \in Device, Inventory!Replace(i, d), store'[i] = d
      PROVE  store[i].checked <= store'[i].checked
  <2>1. Inventory!Observation(d) = Inventory!Observation(store[i])
    BY <1>3, ContractRules DEF Inventory!Replace
  <2>2. d.checked = store[i].checked
    BY <2>1 DEF Inventory!Observation
  <2> QED
    BY <1>1, <1>3, <2>2
<1>4. ASSUME NEW d \in Device, Inventory!Observe(i, d), store'[i] = d
      PROVE  store[i].checked <= store'[i].checked
  BY <1>4 DEF Inventory!Observe
<1>5. ASSUME store'[i] # store[i]
      PROVE  \E d \in Device : /\ store'[i] = d
                               /\ Inventory!Replace(i, d) \/ Inventory!Observe(i, d)
  <2>1. PICK k \in Ids : \/ Inventory!Delete(k)
                         \/ \E d \in Device : \/ Inventory!Add(k, d) \/ Inventory!Replace(k, d)
                                              \/ Inventory!Observe(k, d)
    BY <1>5, ContractRules DEF Inventory!Next
  <2>2. k = i
    <3>1. \E value : store' = [store EXCEPT ![k] = value]
      BY <2>1 DEF Inventory!Delete, Inventory!Add, Inventory!Replace, Inventory!Observe
    <3> QED
      BY <1>5, <3>1 DEF Devices
  <2>3. ~Inventory!Delete(i) /\ \A d \in Device : ~Inventory!Add(i, d)
    BY DEF Inventory!Delete, Inventory!Add, Devices
  <2>4. PICK d \in Device : Inventory!Replace(i, d) \/ Inventory!Observe(i, d)
    BY <2>1, <2>2, <2>3
  <2>5. store'[i] = d
    BY <2>4 DEF Inventory!Replace, Inventory!Observe, Devices
  <2> QED
    BY <2>4, <2>5
<1> QED
  BY <1>2, <1>3, <1>4, <1>5

(* However a stale card, a scan and an editor race, no two stored devices    *)
(* ever name the same machine.                                               *)
THEOREM AddressesRemainUnique == Spec => []AddressesStayUnique
<1>1. Init => AddressesStayUnique
  BY ContractRules, UniqueAssumption DEF Init, AddressesStayUnique, Inventory!UniqueAddresses
<1>2. Types /\ AddressesStayUnique /\ [Next]_vars => AddressesStayUnique'
  BY StepContract, ContractUnique DEF AddressesStayUnique, Types, InventoryTypes
<1> QED
  BY <1>1, <1>2, TypesHold, PTL DEF Spec

(* Whatever sweeps and wakes overlap, and whatever the clock does meanwhile, *)
(* the last check stored for an unchanged target never goes back.            *)
THEOREM LastCheckNeverGoesBack == Spec => LastCheckedAdvances
<1>1. Types /\ [Next]_vars =>
        [\A i \in Ids : /\ store[i] # None /\ store'[i] # None
                        /\ Inventory!SameStatus(store[i], store'[i])
                        => store[i].checked <= store'[i].checked]_store
  BY StepContract, ContractAdvances, ContractRules DEF Types, InventoryTypes
<1> QED
  BY <1>1, TypesHold, PTL DEF Spec, LastCheckedAdvances, Inventory!LastCheckedAdvances
=============================================================================
