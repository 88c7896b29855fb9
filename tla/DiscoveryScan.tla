----------------------------- MODULE DiscoveryScan -----------------------------
(***************************************************************************)
(* The scans of the local network, one after the other: the discovery view  *)
(* that starts, cancels and shows them, the engine that checks a few         *)
(* addresses at a time and merges what ping, neighbour cache, ARP and DNS     *)
(* say of each, and the process-wide slots of native ARP calls, which cannot *)
(* be cancelled and outlive the scan that asked for them. A step is what runs*)
(* between two awaits. Addresses are numbers, in the order of the range.     *)
(***************************************************************************)
EXTENDS Naturals, FiniteSets, Sequences, SequencesExt

CONSTANTS
    Addresses,      (* the range scanned                                      *)
    Local,          (* the address of the selected interface                  *)
    LocalMac,       (* the MAC of the selected interface                      *)
    Macs, NoMac,    (* usable MACs, and none                                  *)
    Tables,         (* what the neighbour cache may say of each address       *)
    Concurrency,    (* addresses checked at a time                            *)
    Slots,          (* native ARP calls at a time, in the whole process       *)
    MaxScans        (* bound on the scans started                             *)

ASSUME ScanAssumption ==
    /\ Addresses \subseteq Nat /\ IsFiniteSet(Addresses) /\ Local \in Nat
    /\ LocalMac \in Macs /\ NoMac \notin Macs
    /\ Tables \subseteq [Addresses -> Macs \cup {NoMac}]
    /\ Concurrency \in 1..64 /\ Slots \in Nat \ {0} /\ MaxScans \in Nat

VARIABLES
    phase,      (* the await the scan is at, or "idle"                        *)
    scan,       (* scanGeneration: the number of the current or last scan     *)
    cancelled,  (* its token is cancelled                                     *)
    outcome,    (* how it ended, or is bound to end                           *)
    at,         (* the await the check of each address is at                  *)
    part,       (* what that check has collected so far                       *)
    results,    (* the merged devices of the scan                             *)
    slots,      (* free slots of ArpSlots                                     *)
    calls,      (* native ARP calls that hold a slot                          *)
    posts,      (* progress on its way to the UI thread, in order             *)
    rows,       (* the devices on screen                                      *)
    seen        (* history: what the network has answered in this scan        *)

view == <<phase, scan, cancelled, outcome>>
checks == <<at, part, results>>
native == <<slots, calls>>
screen == <<posts, rows>>
vars == <<view, checks, native, screen, seen>>

Kinds == {"cache", "arp", "ping", "local"}
Device == [evidence: SUBSET Kinds, mac: Macs \cup {NoMac}, live: BOOLEAN, named: BOOLEAN]
Unseen == [evidence |-> {}, mac |-> NoMac, live |-> FALSE, named |-> FALSE]
Sightings == [kind: Kinds \cup {"name"}, mac: Macs \cup {NoMac}]
Sighting(kind, mac) == [kind |-> kind, mac |-> mac]
Awaits == {"ping", "slot", "arp", "answered", "dns"}

TypeOK ==
    /\ phase \in {"idle", "loading", "interfaces", "neighbors", "addresses", "again", "done"}
    /\ scan \in Nat /\ cancelled \in BOOLEAN
    /\ outcome \in {"none", "complete", "failed", "cancelled"}
    /\ at \in [Addresses -> Awaits \cup {"todo", "checked", "stopped"}]
    /\ part \in [Addresses -> Device] /\ results \in [Addresses -> Device]
    /\ slots \in Nat
    /\ calls \subseteq [scan: Nat, address: Addresses, running: BOOLEAN]
    /\ posts \in Seq([address: Addresses, device: Device])
    /\ rows \in [Addresses -> Device]
    /\ seen \in [Addresses -> SUBSET Sightings]

Init ==
    /\ phase = "idle" /\ scan = 0 /\ cancelled = FALSE /\ outcome = "none"
    /\ at = [a \in Addresses |-> "todo"]
    /\ part = [a \in Addresses |-> Unseen] /\ results = part
    /\ slots = Slots /\ calls = {}
    /\ posts = <<>> /\ rows = part
    /\ seen = [a \in Addresses |-> {}]

-----------------------------------------------------------------------------
(* The view: one scan at a time; cancelling is only a request.               *)
Scan ==
    /\ phase = "idle" /\ scan < MaxScans
    /\ phase' = "loading" /\ scan' = scan + 1 /\ cancelled' = FALSE /\ outcome' = "none"
    /\ UNCHANGED <<checks, native, screen, seen>>

Cancel ==
    /\ phase # "idle" /\ ~cancelled
    /\ cancelled' = TRUE
    /\ UNCHANGED <<phase, scan, outcome, checks, native, screen, seen>>

(* Settings and managed devices are read: the old rows go, the scan begins.  *)
Loaded ==
    /\ phase = "loading"
    /\ phase' = "interfaces"
    /\ at' = [a \in Addresses |-> "todo"]
    /\ part' = [a \in Addresses |-> Unseen]
    /\ results' = [a \in Addresses |-> Unseen]
    /\ rows' = [a \in Addresses |-> Unseen]
    /\ seen' = [a \in Addresses |-> {}]
    /\ UNCHANGED <<scan, cancelled, outcome, native, posts>>

InterfaceStillThere ==
    /\ phase = "interfaces"
    /\ phase' = "neighbors"
    /\ UNCHANGED <<scan, cancelled, outcome, checks, native, screen, seen>>

Ends(how) ==
    /\ phase' = "done" /\ outcome' = how
    /\ UNCHANGED <<scan, cancelled>>

(* An invalid range, unreadable settings or a network that changed.          *)
Refused ==
    /\ phase \in {"loading", "interfaces"}
    /\ Ends("failed")
    /\ UNCHANGED <<checks, native, screen, seen>>

Interrupted ==
    /\ phase \in {"loading", "interfaces", "neighbors", "again"} /\ cancelled
    /\ Ends("cancelled")
    /\ UNCHANGED <<checks, native, screen, seen>>

(* The command ends behind the progress that was posted before.              *)
ScanEnds ==
    /\ phase = "done" /\ posts = <<>>
    /\ phase' = "idle"
    /\ UNCHANGED <<scan, cancelled, outcome, checks, native, screen, seen>>

(* The progress handler ignores what a cancelled scan still reports.         *)
Show ==
    /\ posts # <<>>
    /\ posts' = Tail(posts)
    /\ rows' = IF cancelled THEN rows ELSE [rows EXCEPT ![Head(posts).address] = Head(posts).device]
    /\ UNCHANGED <<view, checks, native, seen>>

-----------------------------------------------------------------------------
(* The engine: what is known of an address is merged, never replaced.        *)
Known(newer, older) == IF newer # NoMac THEN newer ELSE older
MergedLatest(old, new) == new                                 \* faulty variant
Merged(old, new) ==
    [evidence |-> old.evidence \cup new.evidence, mac |-> Known(new.mac, old.mac),
     live |-> old.live \/ new.live, named |-> old.named \/ new.named]

(* Nothing is published once the user has cancelled.                         *)
Publish(news) ==
    LET after == [a \in Addresses |-> IF a \in DOMAIN news THEN Merged(results[a], news[a])
                                      ELSE results[a]]
        reports == [a \in DOMAIN news |-> [address |-> a, device |-> after[a]]]
    IN  IF cancelled THEN UNCHANGED <<results, posts>>
        ELSE /\ results' = after
             /\ posts' = posts \o SetToSeq({reports[a] : a \in DOMAIN news})

Only(a, device) == [x \in {a} |-> device]
Cached(mac) == [Unseen EXCEPT !.evidence = {"cache"}, !.mac = mac]
Sees(sightings) == seen' = [a \in Addresses |-> seen[a] \cup sightings[a]]
SeesAt(a, sightings) == seen' = [seen EXCEPT ![a] = @ \cup sightings]

(* The neighbour cache is read before and after the addresses are checked; a *)
(* cache that cannot be read says nothing.                                   *)
MergeNeighbors(table) ==
    LET listed == {a \in Addresses : table[a] # NoMac}
    IN  /\ phase \in {"neighbors", "again"}
        /\ Publish([a \in listed |-> Cached(table[a])])
        /\ Sees([a \in Addresses |-> IF a \in listed THEN {Sighting("cache", table[a])} ELSE {}])
        /\ IF phase = "again" THEN Ends("complete")
           ELSE phase' = "addresses" /\ UNCHANGED <<scan, cancelled, outcome>>
        /\ UNCHANGED <<at, part, native, rows>>

Stopping == cancelled \/ outcome = "failed"
Active == {a \in Addresses : at[a] \in Awaits}
Goes(a, await) == at' = [at EXCEPT ![a] = await]

(* The last part of a check: what was published before is added, and a       *)
(* device with any evidence is shown before its name is asked for.           *)
Whole(a, device) == [device EXCEPT !.evidence = @ \cup results[a].evidence,
                                   !.mac = Known(@, results[a].mac)]
Collect(a, device) ==
    IF Whole(a, device).evidence = {}
    THEN Goes(a, "checked") /\ UNCHANGED <<part, results, posts>>
    ELSE /\ Goes(a, "dns")
         /\ part' = [part EXCEPT ![a] = Whole(a, device)]
         /\ Publish(Only(a, Whole(a, device)))

StartCheck(a) ==
    /\ phase = "addresses" /\ ~Stopping
    /\ at[a] = "todo" /\ \A b \in Addresses : b < a => at[b] # "todo"
    /\ Cardinality(Active) < Concurrency
    /\ IF a = Local
       THEN /\ Collect(a, [Unseen EXCEPT !.evidence = {"local"}, !.mac = LocalMac, !.live = TRUE])
            /\ SeesAt(a, {Sighting("local", LocalMac)})
       ELSE Goes(a, "ping") /\ UNCHANGED <<part, results, posts, seen>>
    /\ UNCHANGED <<view, native, rows>>

(* A reply is live evidence. A cached MAC spares the ARP call, not the ping. *)
PingAnswers(a, replies) ==
    LET device == IF replies THEN [Unseen EXCEPT !.evidence = {"ping"}, !.live = TRUE] ELSE Unseen
    IN  /\ at[a] = "ping"
        /\ IF results[a].mac # NoMac THEN Collect(a, [device EXCEPT !.mac = results[a].mac])
           ELSE /\ Goes(a, "slot")
                /\ part' = [part EXCEPT ![a] = device]
                /\ UNCHANGED <<results, posts>>
        /\ SeesAt(a, IF replies THEN {Sighting("ping", NoMac)} ELSE {})
        /\ UNCHANGED <<view, native, rows>>

ArpAnswers(a) ==
    LET mac == part[a].mac
    IN  /\ at[a] = "answered"
        /\ Collect(a, IF mac = NoMac THEN part[a] ELSE [part[a] EXCEPT !.evidence = @ \cup {"arp"}])
        /\ SeesAt(a, IF mac = NoMac THEN {} ELSE {Sighting("arp", mac)})
        /\ UNCHANGED <<view, native, rows>>

DnsAnswers(a, named) ==
    /\ at[a] = "dns"
    /\ Goes(a, "checked")
    /\ IF named THEN Publish(Only(a, [part[a] EXCEPT !.named = TRUE]))
       ELSE UNCHANGED <<results, posts>>
    /\ SeesAt(a, IF named THEN {Sighting("name", NoMac)} ELSE {})
    /\ UNCHANGED <<view, part, native, rows>>

(* A probe throws what nobody expects: the other checks are stopped.         *)
ProbeThrows(a) ==
    /\ at[a] \in {"ping", "dns"} /\ ~Stopping
    /\ Goes(a, "stopped")
    /\ outcome' = "failed"
    /\ UNCHANGED <<phase, scan, cancelled, part, results, native, screen, seen>>

(* Every await of a stopping scan ends, whatever it waits for; the native    *)
(* call of an abandoned await goes on with its slot.                         *)
StopCheckUnlessArp(a) ==                                      \* faulty variant
    /\ Stopping /\ at[a] \in {"ping", "slot", "dns"}
    /\ Goes(a, "stopped")
    /\ UNCHANGED <<view, part, results, native, screen, seen>>
StopCheckReleasing(a) ==                                      \* faulty variant
    /\ Stopping /\ at[a] \in {"ping", "slot", "arp", "dns"}
    /\ Goes(a, "stopped")
    /\ slots' = IF at[a] = "arp" THEN slots + 1 ELSE slots
    /\ UNCHANGED <<view, part, results, calls, screen, seen>>
StopCheck(a) ==
    /\ Stopping /\ at[a] \in {"ping", "slot", "arp", "dns"}
    /\ Goes(a, "stopped")
    /\ UNCHANGED <<view, part, results, native, screen, seen>>

AddressesEnd ==
    /\ phase = "addresses" /\ Active = {}
    /\ \/ Stopping /\ Ends(IF cancelled THEN "cancelled" ELSE "failed")
       \/ /\ ~Stopping /\ \A a \in Addresses : at[a] = "checked"
          /\ phase' = "again" /\ UNCHANGED <<scan, cancelled, outcome>>
    /\ UNCHANGED <<checks, native, screen, seen>>

-----------------------------------------------------------------------------
(* The native calls. A slot belongs to the call, not to the check that waits *)
(* for it, and the call is queued whether or not the token is cancelled.     *)
TakeSlot(a) ==
    /\ at[a] = "slot" /\ slots > 0 /\ ~Stopping
    /\ Goes(a, "arp")
    /\ slots' = slots - 1
    /\ calls' = calls \cup {[scan |-> scan, address |-> a, running |-> FALSE]}
    /\ UNCHANGED <<view, part, results, screen, seen>>

CallStartsUnlessCancelled(call) ==                            \* faulty variant
    /\ ~call.running
    /\ calls' = (calls \ {call}) \cup
         (IF call.scan # scan \/ Stopping THEN {} ELSE {[call EXCEPT !.running = TRUE]})
    /\ UNCHANGED <<view, checks, slots, screen, seen>>
CallStarts(call) ==
    /\ ~call.running
    /\ calls' = (calls \ {call}) \cup {[call EXCEPT !.running = TRUE]}
    /\ UNCHANGED <<view, checks, slots, screen, seen>>

Awaited(call) == call.scan = scan /\ at[call.address] = "arp"

CallReturns(call, mac) ==
    /\ call.running
    /\ calls' = calls \ {call} /\ slots' = slots + 1
    /\ IF Awaited(call)
       THEN Goes(call.address, "answered") /\ part' = [part EXCEPT ![call.address].mac = mac]
       ELSE mac = NoMac /\ UNCHANGED <<at, part>>
    /\ UNCHANGED <<view, results, screen, seen>>

-----------------------------------------------------------------------------
Prepares == Loaded \/ InterfaceStillThere \/ Refused \/ Interrupted
Neighbors == \E table \in Tables : MergeNeighbors(table)
Check(a) ==
    \/ StartCheck(a) \/ ArpAnswers(a) \/ StopCheck(a) \/ ProbeThrows(a)
    \/ \E yes \in BOOLEAN : PingAnswers(a, yes) \/ DnsAnswers(a, yes)

Next ==
    \/ Scan \/ Cancel \/ Prepares \/ Neighbors \/ AddressesEnd \/ ScanEnds \/ Show
    \/ \E a \in Addresses : Check(a) \/ TakeSlot(a)
    \/ \E call \in calls : CallStarts(call) \/ \E mac \in Macs \cup {NoMac} : CallReturns(call, mac)

Spec == Init /\ [][Next]_vars

(* Awaits with a timeout or a local answer come back, the pool and the       *)
(* dispatcher go on, and the semaphore serves its waiters in turn. Nothing   *)
(* is assumed of the native calls, of which no timeout is known.             *)
Fairness ==
    /\ WF_vars(Prepares) /\ WF_vars(Neighbors) /\ WF_vars(AddressesEnd)
    /\ WF_vars(ScanEnds) /\ WF_vars(Show)
    /\ \A a \in Addresses : WF_vars(Check(a)) /\ SF_vars(TakeSlot(a))
    /\ WF_vars(\E call \in calls : CallStarts(call))

FairSpec == Spec /\ Fairness

-----------------------------------------------------------------------------
(* When a scan is complete the row of every address tells all the network    *)
(* answered of it, by whatever probe and however late, and no more: its MAC   *)
(* was seen, and it counts as online only for a ping or the own interface.   *)
Tells(device, sightings) ==
    LET macs == {s.mac : s \in sightings} \ {NoMac}
        kinds == {s.kind : s \in sightings}
    IN  /\ device.evidence = kinds \ {"name"}
        /\ device.named <=> "name" \in kinds
        /\ IF macs = {} THEN device.mac = NoMac ELSE device.mac \in macs
        /\ device.live <=> kinds \cap {"ping", "local"} # {}

RowsTellAll ==
    phase = "idle" /\ outcome = "complete" /\ ~cancelled =>
        \A a \in Addresses : Tells(rows[a], seen[a])

(* Native ARP calls never exceed the cap of the process, though scans are    *)
(* cancelled and started again while the calls of the old ones go on.        *)
NativeCallsBounded == Cardinality(calls) <= Slots

(* A cancelled scan ends even if no native call ever returns.                *)
CancelledScansEnd == []<>~(cancelled /\ phase # "idle")

(* If native calls return, every scan ends: no slot is lost, however the     *)
(* scans before it were cancelled.                                           *)
ScansEnd == []<>(calls = {}) => []<>(phase = "idle")
=============================================================================
