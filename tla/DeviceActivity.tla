---------------------------- MODULE DeviceActivity ----------------------------
(***************************************************************************)
(* The live inventory: the device cards of the UI thread, the status sweeps *)
(* and wakes that run on them, the commands that edit, add and delete       *)
(* devices, the list reloads that bring the cards back in line with the     *)
(* repository, and the shutdown that drains all of it.  A step is what runs *)
(* between two awaits.  The repository commits where its transaction does;  *)
(* its caller learns the result in a later step.                            *)
(*                                                                          *)
(* A card's Generation is compared only for equality with the value an      *)
(* operation read when it began, so each operation carries instead whether  *)
(* the two are still equal: `fresh`.                                        *)
(***************************************************************************)
EXTENDS DeviceRules, FiniteSets, Sequences, FiniteSetsExt

CONSTANTS
    InitialDevices, (* the inventory at startup: Ids -> Device, or None       *)
    Forms,          (* what users type in a dialog                            *)
    Discoveries,    (* what network scans find                                *)
    Answers,        (* what status checks may answer: Observable, or part of it *)
    BatchSize,      (* probes a sweep runs at once (8)                        *)
    MaxNow,         (* bound: ticks of the clock                              *)
    MaxLists,       (* bound: list reloads in flight                          *)
    ClockMayStep,   (* TRUE: the wall clock may be set back                   *)
    ListMayFail     (* TRUE: a list reload may fail                           *)

(* `shownFor` is history: the target whose observation the card shows.       *)
Targets == [host: Hosts \cup {None}, ip: Ips \cup {None}, mac: Macs \cup {None}, check: Checks]
Card == [dev: Device, state: Observable \cup {"Waking"}, waking: BOOLEAN,
         shownFor: {None} \cup Targets]

ASSUME ActivityAssumption ==
    /\ BatchSize \in Nat \ {0}
    /\ Answers \subseteq Observable
    /\ {ClockMayStep, ListMayFail} \subseteq BOOLEAN
    /\ Forms \subseteq Form /\ Discoveries \subseteq Found
    /\ InitialDevices \in [Ids -> Device \cup {None}]
    /\ \A i \in Ids : InitialDevices[i] # None => Valid(InitialDevices[i])
    /\ MaxNow \in Nat \ {0} /\ Times = 1..MaxNow
    /\ None \notin Card

(* No stored observation is of the future, unless the clock was set back.    *)
ASSUME PastAssumption ==
    ~ClockMayStep => \A i \in Ids : InitialDevices[i] # None => InitialDevices[i].checked <= 1

(* What earlier runs stored kept the contract of the inventory.              *)
ASSUME UniqueAssumption ==
    \A i, j \in Ids : i # j /\ InitialDevices[i] # None /\ InitialDevices[j] # None
                       => ~Matches(InitialDevices[i], InitialDevices[j])

VARIABLES
    store,      (* the devices table                                          *)
    allocated,  (* the GUIDs ever stored                                      *)
    cards,      (* the card of each device, or None                           *)
    sweep,      (* the sweep: [on, pending], pending the cards not yet begun  *)
    checks,     (* the status check of each card                              *)
    wakes,      (* the wake of each card                                      *)
    enlisted,   (* what StopAsync waits for (`operations` in the code)        *)
    command,    (* the inventory command that holds IsBusy                    *)
    lists,      (* list reloads asked for: TRUE for the command's own         *)
    inbox,      (* results of the repository, posted to the UI thread         *)
    lifetime,   (* "running", "stopping" or "drained"                         *)
    now,        (* the wall clock                                             *)
    missed,     (* history: a list reload failed and none was read since      *)
    witnessed   (* history: every Offline -> packets -> Online wake           *)

vars == <<store, allocated, cards, sweep, checks, wakes, enlisted, command, lists,
          inbox, lifetime, now, missed, witnessed>>
inventory == <<store, allocated, command, lists, inbox, missed>>
operations == <<cards, checks, wakes, sweep, enlisted>>
ambient == <<lifetime, now>>

NewCard(d) == [dev |-> d, state |-> "Unknown", waking |-> FALSE, shownFor |-> None]
Idle == [phase |-> "idle", dev |-> None, fresh |-> FALSE, at |-> 0,
         state |-> "Unknown", saved |-> None]
NoWake == [phase |-> "idle", dev |-> None, fresh |-> FALSE, at |-> 0, before |-> "Unknown",
           state |-> "Unknown", verified |-> FALSE, cancelled |-> FALSE, saved |-> None]
Free == [phase |-> "free", id |-> None, original |-> None]

(* Of the copy an operation works on, only the configuration is ever read.   *)
Copy(d) == [d EXCEPT !.state = "Unknown", !.checked = 0, !.seen = 0]

(* Every variable has its type, and every stored device passed validation.  *)
TypeOK ==
    /\ store \in [Ids -> Device \cup {None}]
    /\ \A i \in Ids : store[i] # None => Valid(store[i])
    /\ allocated \subseteq Ids
    /\ cards \in [Ids -> Card \cup {None}]
    /\ sweep \in [on: BOOLEAN, pending: SUBSET Ids]
    /\ \A i \in Ids :
        /\ checks[i].phase \in {"idle", "probing", "applying", "committed"}
        /\ checks[i].phase # "idle" => sweep.on /\ checks[i].dev \in Device
        /\ wakes[i].phase \in {"idle", "looking", "sent", "applying", "committed"}
        /\ wakes[i].phase # "idle" => wakes[i].dev \in Device
    /\ enlisted \in [sweep: BOOLEAN, wakes: SUBSET Ids]
    /\ command.phase \in {"free", "editing", "listing"}
    /\ lists \in Seq(BOOLEAN)
    /\ \A k \in DOMAIN inbox : inbox[k].kind \in {"check", "wake", "list"}
    /\ lifetime \in {"running", "stopping", "drained"}
    /\ now \in Times
    /\ missed \in BOOLEAN

Init ==
    /\ store = InitialDevices
    /\ allocated = {i \in Ids : InitialDevices[i] # None}
    /\ cards = [i \in Ids |-> IF InitialDevices[i] = None THEN None
                              ELSE NewCard(InitialDevices[i])]
    /\ sweep = [on |-> FALSE, pending |-> {}]
    /\ checks = [i \in Ids |-> Idle]
    /\ wakes = [i \in Ids |-> NoWake]
    /\ enlisted = [sweep |-> FALSE, wakes |-> {}]
    /\ command = Free
    /\ lists = <<>>
    /\ inbox = <<>>
    /\ lifetime = "running"
    /\ now = 1
    /\ missed = FALSE
    /\ witnessed = {[id |-> i, target |-> WakeTarget(InitialDevices[i])] :
                      i \in {j \in Ids : /\ InitialDevices[j] # None
                                         /\ InitialDevices[j].cap = "Verified"}}

StoppedNever == FALSE                                         \* faulty variant
Stopped == lifetime # "running"

Tick ==
    /\ now' \in IF ClockMayStep THEN Times \ {now} ELSE {now + 1} \cap Times
    /\ UNCHANGED <<inventory, cards, sweep, checks, wakes, enlisted, lifetime, witnessed>>

-----------------------------------------------------------------------------
(* Applying an observation: ApplyAsync, for checks and wakes alike.          *)

(* The transaction of ApplyObservationAsync.  A cancellation that arrives    *)
(* after its last look at the token comes too late to stop it.               *)
Saved(i, op, verify) == IF Accepts(store[i], op.dev, op.at)
                        THEN Observed(store[i], op.dev, op.at, op.state, verify)
                        ELSE None
Commit(kind, i, op, verify) ==
    /\ op.phase = "applying"
    /\ store' = IF Saved(i, op, verify) = None THEN store
                ELSE [store EXCEPT ![i] = Saved(i, op, verify)]
    /\ inbox' = Append(inbox, [kind |-> kind, id |-> i])
    /\ UNCHANGED <<allocated, command, lists, missed, cards, sweep, enlisted, ambient, witnessed>>
Committed(i, op, verify) ==
    [op EXCEPT !.phase = "committed", !.saved = Saved(i, op, verify)]

(* The UI thread resumes the callers in the order in which the repository's  *)
(* gate served them.                                                         *)
Arrives(kind, i) == /\ inbox # <<>>
                    /\ Head(inbox) = [kind |-> kind, id |-> i]
                    /\ inbox' = Tail(inbox)

(* Back on the UI thread, the card takes the saved record, unless it was     *)
(* dropped or the card's generation moved on.                                *)
Show(card, op) ==
    IF op.saved = None \/ ~op.fresh THEN card
    ELSE [card EXCEPT !.dev = op.saved, !.state = op.state,
                      !.shownFor = StatusTarget(op.dev)]
ShowUnknownNever(card, op) == card                            \* faulty variant
ShowUnknown(card, op) == IF op.fresh THEN [card EXCEPT !.state = "Unknown"] ELSE card

-----------------------------------------------------------------------------
(* Status sweeps: CheckNowAsync, CheckAllAsync, CheckOneAsync.               *)

StartSweep ==
    /\ ~Stopped /\ ~sweep.on
    /\ sweep' = [on |-> TRUE, pending |-> {i \in Ids : cards[i] # None}]
    /\ enlisted' = [enlisted EXCEPT !.sweep = TRUE]
    /\ UNCHANGED <<inventory, cards, checks, wakes, ambient, witnessed>>

Probing == {i \in Ids : checks[i].phase # "idle"}

ProbesWaking(i) == cards[i] # None                            \* faulty variant
Probes(i) == cards[i] # None /\ ~cards[i].waking

(* The next batch: each of its cards begins a check, unless it is waking or  *)
(* gone by now.                                                              *)
StartBatch ==
    /\ ~Stopped /\ sweep.on /\ Probing = {} /\ sweep.pending # {}
    /\ \E batch \in SUBSET sweep.pending :
        /\ Cardinality(batch) = Min({BatchSize, Cardinality(sweep.pending)})
        /\ sweep' = [sweep EXCEPT !.pending = @ \ batch]
        /\ checks' = [i \in Ids |->
             IF i \in batch /\ Probes(i)
             THEN [Idle EXCEPT !.phase = "probing", !.dev = Copy(cards[i].dev),
                               !.fresh = TRUE, !.at = now]
             ELSE checks[i]]
    /\ UNCHANGED <<inventory, cards, wakes, enlisted, ambient, witnessed>>

EndSweepAfterAll ==                                           \* faulty variant
    /\ sweep.on /\ Probing = {} /\ sweep.pending = {}
    /\ sweep' = [on |-> FALSE, pending |-> {}]
    /\ enlisted' = [enlisted EXCEPT !.sweep = FALSE]
    /\ UNCHANGED <<inventory, cards, checks, wakes, ambient, witnessed>>
EndSweep ==
    /\ sweep.on /\ Probing = {}
    /\ sweep.pending = {} \/ Stopped
    /\ sweep' = [on |-> FALSE, pending |-> {}]
    /\ enlisted' = [enlisted EXCEPT !.sweep = FALSE]
    /\ UNCHANGED <<inventory, cards, checks, wakes, ambient, witnessed>>

(* The check answers; its answer carries the time at which it began.         *)
CheckAnswers(i, state) ==
    /\ checks[i].phase = "probing"
    /\ checks' = [checks EXCEPT ![i] =
                     IF @.fresh /\ ~Stopped
                     THEN [@ EXCEPT !.phase = "applying", !.state = state] ELSE Idle]
    /\ UNCHANGED <<inventory, cards, sweep, wakes, enlisted, ambient, witnessed>>

(* An exception of the check or of the repository; a cancellation by the     *)
(* shutdown leaves the card alone.                                           *)
CheckFails(i) ==
    /\ checks[i].phase \in {"probing", "applying"}
    /\ checks' = [checks EXCEPT ![i] = Idle]
    /\ \/ cards' = [cards EXCEPT ![i] = ShowUnknown(@, checks[i])]
       \/ Stopped /\ UNCHANGED cards
    /\ UNCHANGED <<inventory, sweep, wakes, enlisted, ambient, witnessed>>

CommitCheck(i) ==
    /\ Commit("check", i, checks[i], FALSE)
    /\ checks' = [checks EXCEPT ![i] = Committed(i, @, FALSE)]
    /\ UNCHANGED wakes

ResumeCheck(i) ==
    /\ Arrives("check", i)
    /\ cards' = [cards EXCEPT ![i] = Show(@, checks[i])]
    /\ checks' = [checks EXCEPT ![i] = Idle]
    /\ UNCHANGED <<store, allocated, command, lists, missed, sweep, wakes, enlisted, ambient, witnessed>>
-----------------------------------------------------------------------------
(* Wakes: BeginWakeAsync and RunWakeAsync over WakeDeviceService.WakeAsync   *)
(* (WakeDevice models what happens between the look and the outcome).        *)

EnlistNever(i) == UNCHANGED enlisted                          \* faulty variant
Enlist(i) == enlisted' = [enlisted EXCEPT !.wakes = @ \cup {i}]

BeginWake(i) ==
    /\ ~Stopped /\ command.phase # "editing"
    /\ cards[i] # None /\ ~cards[i].waking /\ cards[i].dev.cap # "Disabled"
    /\ wakes[i].phase = "idle"
    /\ cards' = [cards EXCEPT ![i].waking = TRUE, ![i].state = "Unknown"]
    /\ checks' = [checks EXCEPT ![i].fresh = FALSE]
    /\ wakes' = [wakes EXCEPT ![i] = [NoWake EXCEPT !.phase = "looking", !.fresh = TRUE,
                                                    !.dev = Copy(cards[i].dev), !.at = now]]
    /\ Enlist(i)
    /\ UNCHANGED <<inventory, sweep, ambient, witnessed>>

Cancelled(i) == wakes[i].cancelled \/ Stopped
EndWake(i, card) ==
    /\ cards' = [cards EXCEPT ![i] = IF card = None THEN None
                                     ELSE [card EXCEPT !.waking = FALSE]]
    /\ wakes' = [wakes EXCEPT ![i] = NoWake]
    /\ enlisted' = [enlisted EXCEPT !.wakes = @ \ {i}]

(* The first look finds the device Online: nothing is sent, nothing proved.  *)
WakeFindsOnline(i) ==
    /\ wakes[i].phase = "looking" /\ ~Cancelled(i)
    /\ wakes' = [wakes EXCEPT ![i].phase = "applying", ![i].state = "Online"]
    /\ UNCHANGED <<inventory, cards, checks, sweep, enlisted, ambient, witnessed>>

(* It does not: the packets are sent and the card shows Waking.              *)
WakeSends(i, before) ==
    /\ wakes[i].phase = "looking" /\ ~Cancelled(i)
    /\ before # "Online"
    /\ wakes' = [wakes EXCEPT ![i].phase = "sent", ![i].before = before]
    /\ cards' = [cards EXCEPT ![i] = IF wakes[i].fresh
                                     THEN [@ EXCEPT !.state = "Waking"] ELSE @]
    /\ UNCHANGED <<inventory, checks, sweep, enlisted, ambient, witnessed>>

(* The polling ends with Online, or times out with the latest observation,   *)
(* which is the first one when no later check finished.                      *)
Verifies(before, state) == state = "Online" /\ before = "Offline"
WakeOutcome(i, state, at) ==
    LET op == wakes[i]
    IN /\ op.phase = "sent" /\ ~Cancelled(i)
       /\ at \in (op.at .. now) \cup {op.at, now}
       /\ wakes' = [wakes EXCEPT ![i].phase = "applying", ![i].state = state, ![i].at = at,
                                 ![i].verified = Verifies(op.before, state)]
       /\ witnessed' = witnessed \cup
             (IF state = "Online" /\ op.before = "Offline"
              THEN {[id |-> i, target |-> WakeTarget(op.dev)]} ELSE {})
       /\ UNCHANGED <<inventory, cards, checks, sweep, enlisted, ambient>>

(* Cancelled, or failed: an interface that is gone, a repository error.      *)
WakeAborts(i) ==
    /\ wakes[i].phase \in {"looking", "sent", "applying"}
    /\ EndWake(i, ShowUnknown(cards[i], wakes[i]))
    /\ UNCHANGED <<inventory, checks, sweep, ambient, witnessed>>

CommitWake(i) ==
    /\ Commit("wake", i, wakes[i], wakes[i].verified)
    /\ wakes' = [wakes EXCEPT ![i] = Committed(i, @, wakes[i].verified)]
    /\ UNCHANGED checks

ResumeWake(i) ==
    /\ Arrives("wake", i)
    /\ EndWake(i, Show(cards[i], wakes[i]))
    /\ UNCHANGED <<store, allocated, command, lists, missed, checks, sweep, ambient, witnessed>>

CancelWake(i) ==
    /\ wakes[i].phase # "idle" /\ ~wakes[i].cancelled
    /\ cards[i] # None /\ command.phase # "editing"
    /\ wakes' = [wakes EXCEPT ![i].cancelled = TRUE]
    /\ UNCHANGED <<inventory, cards, checks, sweep, enlisted, ambient, witnessed>>

-----------------------------------------------------------------------------
(* Inventory commands: one at a time (IsBusy), each reloading the list.  The *)
(* dialogs are modal, but what awaits under them goes on.                    *)

Reload(own) == /\ Len(lists) + Cardinality({k \in DOMAIN inbox : inbox[k].kind = "list"})
                    < MaxLists
               /\ lists' = Append(lists, own)
Clash(i, d) == \E j \in Ids \ {i} : store[j] # None /\ Matches(d, store[j])
Ready == command.phase = "free" /\ lifetime # "drained"

Refresh ==
    /\ Ready /\ Reload(TRUE)
    /\ command' = [Free EXCEPT !.phase = "listing"]
    /\ UNCHANGED <<store, allocated, inbox, missed, operations, ambient, witnessed>>

(* The editor opens on what the card holds, which may lag behind the store.  *)
OpenEditor(i) ==
    /\ Ready
    /\ \/ cards[i] # None
          /\ command' = [phase |-> "editing", id |-> i, original |-> cards[i].dev]
       \/ i \notin allocated
          /\ command' = [phase |-> "editing", id |-> i, original |-> NewDevice]
    /\ UNCHANGED <<store, allocated, lists, inbox, missed, operations, ambient, witnessed>>

Store(i, d) ==
    LET record == IF store[i] = None THEN d ELSE Merged(store[i], d)
    IN /\ Valid(d) /\ ~Clash(i, record)
       /\ store' = [store EXCEPT ![i] = record]
       /\ allocated' = allocated \cup {i}

SaveEdit(form) ==
    /\ command.phase = "editing"
    /\ Store(command.id, Edited(command.original, form))
    /\ Reload(TRUE)
    /\ command' = [Free EXCEPT !.phase = "listing"]
    /\ UNCHANGED <<inbox, missed, operations, ambient, witnessed>>

CloseEditor ==
    /\ command.phase = "editing"
    /\ command' = Free
    /\ UNCHANGED <<store, allocated, lists, inbox, missed, operations, ambient, witnessed>>

DeleteDevice(i) ==
    /\ Ready /\ cards[i] # None
    /\ store' = [store EXCEPT ![i] = None]
    /\ Reload(TRUE)
    /\ command' = [Free EXCEPT !.phase = "listing"]
    /\ UNCHANGED <<allocated, inbox, missed, operations, ambient, witnessed>>

(* Added from discovery, which has an IsBusy of its own: its reload overlaps *)
(* with the commands (OnDiscoveredDeviceAdded).                              *)
DiscoverDevice(i, found, form) ==
    /\ command.phase # "editing" /\ lifetime # "drained"
    /\ i \notin allocated
    /\ Store(i, Edited(Discovered(found), form))
    /\ Reload(FALSE)
    /\ UNCHANGED <<command, inbox, missed, operations, ambient, witnessed>>

-----------------------------------------------------------------------------
(* LoadAsync and Synchronize.  The repository's gate serves the reads in turn. *)

ReadList ==
    /\ lists # <<>>
    /\ lists' = Tail(lists)
    /\ inbox' = Append(inbox, [kind |-> "list", own |-> Head(lists), devices |-> store])
    /\ missed' = FALSE
    /\ UNCHANGED <<store, allocated, command, operations, ambient, witnessed>>

ResetsNever(card, d) == FALSE                                 \* faulty variant
Resets(card, d) ==
    \/ ~SameWake(card.dev, d)
    \/ card.dev.cap # d.cap /\ d.cap = "Disabled"

SynchronizedKeepingGone(card, d) ==                           \* faulty variant
    IF d = None THEN card
    ELSE IF card = None THEN NewCard(d) ELSE [card EXCEPT !.dev = d]
Synchronized(card, d) ==
    IF d = None THEN None
    ELSE IF card = None THEN NewCard(d)
    ELSE IF Resets(card, d) THEN [card EXCEPT !.dev = d, !.state = "Unknown"]
    ELSE [card EXCEPT !.dev = d]

EndReload(own) == command' = IF own THEN Free ELSE command

ShowList ==
    /\ inbox # <<>> /\ Head(inbox).kind = "list"
    /\ LET devices == Head(inbox).devices
           superseded == {i \in Ids : cards[i] # None /\
                             (devices[i] = None \/ Resets(cards[i], devices[i]))}
       IN /\ cards' = [i \in Ids |-> Synchronized(cards[i], devices[i])]
          /\ checks' = [i \in Ids |-> IF i \in superseded
                                      THEN [checks[i] EXCEPT !.fresh = FALSE] ELSE checks[i]]
          /\ wakes' = [i \in Ids |-> IF i \in superseded /\ wakes[i].phase # "idle"
                                     THEN [wakes[i] EXCEPT !.fresh = FALSE, !.cancelled = TRUE]
                                     ELSE wakes[i]]
    /\ inbox' = Tail(inbox)
    /\ EndReload(Head(inbox).own)
    /\ UNCHANGED <<store, allocated, lists, missed, sweep, enlisted, ambient, witnessed>>

ListFails ==
    /\ ListMayFail /\ lists # <<>>
    /\ lists' = Tail(lists)
    /\ EndReload(Head(lists))
    /\ missed' = TRUE
    /\ UNCHANGED <<store, allocated, inbox, operations, ambient, witnessed>>

-----------------------------------------------------------------------------
(* Closing the window: refused while a command runs; then the token of every *)
(* operation is cancelled, and StopAsync waits for those it has on its list. *)

Stop ==
    /\ ~Stopped /\ command.phase = "free"
    /\ lifetime' = "stopping"
    /\ UNCHANGED <<inventory, cards, checks, wakes, sweep, enlisted, now, witnessed>>

StopDone ==
    /\ lifetime = "stopping"
    /\ ~enlisted.sweep /\ enlisted.wakes = {}
    /\ lifetime' = "drained"
    /\ UNCHANGED <<inventory, cards, checks, wakes, sweep, enlisted, now, witnessed>>

Sweeping == StartSweep \/ StartBatch \/ EndSweep
CheckStep(i) == \/ \E state \in Answers : CheckAnswers(i, state)
                \/ CheckFails(i) \/ CommitCheck(i) \/ ResumeCheck(i)
WakeStep(i) == \/ WakeFindsOnline(i)
               \/ \E before \in Answers : WakeSends(i, before)
               \/ \E state \in Answers, at \in Times : WakeOutcome(i, state, at)
               \/ WakeAborts(i) \/ CommitWake(i) \/ ResumeWake(i)
Loading == ReadList \/ ShowList \/ ListFails
UserStep ==
    \/ Refresh \/ CloseEditor \/ Stop
    \/ \E i \in Ids : BeginWake(i) \/ CancelWake(i) \/ OpenEditor(i) \/ DeleteDevice(i)
    \/ \E form \in Forms : SaveEdit(form)
    \/ \E i \in Ids, found \in Discoveries, form \in Forms : DiscoverDevice(i, found, form)

Next == \/ Tick \/ Sweeping \/ Loading \/ StopDone \/ UserStep
        \/ \E i \in Ids : CheckStep(i) \/ WakeStep(i)

Spec == Init /\ [][Next]_vars

(* The monitor loops, probes and wakes have deadlines, the dispatcher and    *)
(* the repository's gate are fair.  Nothing is asked of the user.            *)
FairSpec ==
    /\ Spec
    /\ WF_vars(Sweeping) /\ WF_vars(Loading) /\ WF_vars(StopDone)
    /\ \A i \in Ids : WF_vars(CheckStep(i)) /\ WF_vars(WakeStep(i))

-----------------------------------------------------------------------------
(* A card shows Online or Offline only as the answer of a check of the       *)
(* target it has now, whatever was edited while the check ran.               *)
StaleNeverShown ==
    \A i \in Ids : cards[i] # None /\ cards[i].state \in {"Online", "Offline"}
                   => cards[i].shownFor = StatusTarget(cards[i].dev)

(* "Waking is transient": a card that shows Waking has a wake that runs, or  *)
(* the store has dropped the target it waited for and a reload will say so.  *)
WakingMeansInProgress ==
    \A i \in Ids : cards[i] # None /\ cards[i].state = "Waking" /\ wakes[i].phase = "idle"
                   => store[i] = None \/ ~SameStatus(store[i], cards[i].dev)

(* At most one operation of a card may still write to it, and a card that    *)
(* offers Wake has none in flight (a second would fault on the first's key). *)
OneWriterPerCard ==
    \A i \in Ids :
        /\ ~(checks[i].fresh /\ wakes[i].fresh)
        /\ cards[i] # None /\ ~cards[i].waking => wakes[i].phase = "idle"

(* Verified, end to end: only after a wake of exactly this target and these  *)
(* settings was seen to bring the device from Offline to Online (one stored  *)
(* as Verified at startup had its wake in an earlier run).                   *)
VerifiedWasWitnessed ==
    \A i \in Ids : store[i] # None /\ store[i].cap = "Verified"
                   => [id |-> i, target |-> WakeTarget(store[i])] \in witnessed

(* Once every reload was shown (and the latest one did not fail), each card  *)
(* is of a stored device, has its stored configuration, and offers Wake      *)
(* exactly when the inventory does.                                          *)
CardsFollowStore ==
    lists = <<>> /\ inbox = <<>> /\ ~missed => \A i \in Ids :
        /\ cards[i] = None <=> store[i] = None
        /\ cards[i] # None =>
              /\ SameWake(cards[i].dev, store[i])
              /\ cards[i].dev.name = store[i].name
              /\ cards[i].dev.cap = "Disabled" <=> store[i].cap = "Disabled"

(* When StopAsync returns, nothing that it waits for is left or can begin.   *)
DrainedIsQuiet ==
    lifetime = "drained" => /\ ~sweep.on
                            /\ \A i \in Ids : checks[i].phase = "idle" /\ wakes[i].phase = "idle"

(* The shutdown drains: every sweep, check and wake that it waits for ends.  *)
StopCompletes == Stopped ~> lifetime = "drained"

(* "Waking is transient": while the application runs, no card stays Waking.  *)
ShowsWaking(i) == cards[i] # None /\ cards[i].state = "Waking"
WakingPasses == \A i \in Ids : ShowsWaking(i) ~> ~ShowsWaking(i) \/ Stopped

(* Whatever runs under dialogs and reloads, the store keeps the contract of  *)
(* the inventory: in particular, its addresses stay unique.                  *)
Inventory == INSTANCE InventoryContract
Contract == Inventory!Spec
AddressesStayUnique == Inventory!UniqueAddresses
LastCheckedAdvances == Inventory!LastCheckedAdvances
==============================================================================
