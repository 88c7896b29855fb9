-------------------------- MODULE DiscoveryScanProofs --------------------------
(* Theorems about DiscoveryScan, for every range, cap and number of scans.   *)
EXTENDS DiscoveryScan, FiniteSetTheorems, SequenceTheorems, TLAPS

USE ScanAssumption

Reports == [address: Addresses, device: Device]

(* SetToSeq lists every element of a finite set once.                        *)
LEMMA Listing ==
    ASSUME NEW S, IsFiniteSet(S)
    PROVE  LET s == SetToSeq(S)
           IN  /\ s \in Seq(S) /\ DOMAIN s = 1..Len(s)
               /\ \A x \in S : \E i \in 1..Len(s) : s[i] = x
               /\ \A i, j \in 1..Len(s) : s[i] = s[j] => i = j
<1> DEFINE n == Cardinality(S)
<1>1. n \in Nat /\ ExistsBijection(1..n, S)
  BY FS_CardinalityType
<1>2. PICK g \in Bijection(1..n, S) : TRUE
  BY <1>1 DEF ExistsBijection
<1>3. g \in [1..n -> S] /\ IsInjective(g)
  BY <1>2 DEF Bijection, Injection, Surjection
<1>4. SetToSeq(S) \in [1..n -> S] /\ IsInjective(SetToSeq(S))
  BY <1>3 DEF SetToSeq
<1>5. SetToSeq(S) \in Injection(1..n, S)
  BY <1>4 DEF Injection
<1>6. IsFiniteSet(1..n) /\ Cardinality(1..n) = n
  BY <1>1, FS_Interval
<1>7. SetToSeq(S) \in Surjection(1..n, S)
  BY <1>5, <1>6, FS_Injection
<1>8. \A x \in S : \E i \in 1..n : SetToSeq(S)[i] = x
  BY <1>7 DEF Surjection
<1>9. SetToSeq(S) \in Seq(S) /\ Len(SetToSeq(S)) = n
  BY <1>1, <1>4
<1> QED
  BY <1>4, <1>8, <1>9 DEF IsInjective

(* Publishing adds one report per address, of the device as it is merged.    *)
Reported(D, news) ==
    LET s == Len(posts)
        n == Len(posts')
    IN  /\ results' = [a \in Addresses |-> IF a \in D THEN Merged(results[a], news[a])
                                           ELSE results[a]]
        /\ results' \in [Addresses -> Device]
        /\ posts' \in Seq(Reports) /\ s <= n
        /\ \A i \in 1..s : posts'[i] = posts[i]
        /\ \A i \in s+1..n : /\ posts'[i].address \in D
                             /\ posts'[i].device = results'[posts'[i].address]
        /\ \A a \in D : \E i \in s+1..n : posts'[i].address = a
        /\ \A i, j \in s+1..n : posts'[i].address = posts'[j].address => i = j

LEMMA PublishStep ==
    ASSUME TypeOK, NEW D \in SUBSET Addresses, NEW news \in [D -> Device], ~cancelled,
           Publish(news)
    PROVE  Reported(D, news)
<1> DEFINE after == [a \in Addresses |-> IF a \in D THEN Merged(results[a], news[a])
                                         ELSE results[a]]
           report == [a \in D |-> [address |-> a, device |-> after[a]]]
           S == {report[a] : a \in D}
           new == SetToSeq(S)
<1>1. results' = after /\ posts' = posts \o new
  BY DEF Publish
<1>2. after \in [Addresses -> Device]
  BY DEF TypeOK, Device, Merged, Known
<1>3. IsFiniteSet(D)
  BY FS_Subset
<1>4. IsFiniteSet(S) /\ S \subseteq Reports
  <2>1. report \in Surjection(D, S)
    BY DEF Surjection
  <2>2. IsFiniteSet(S)
    BY <1>3, <2>1, FS_Surjection
  <2>3. \A a \in D : report[a] \in Reports
    BY <1>2 DEF Reports
  <2> QED
    BY <2>2, <2>3
<1> HIDE DEF new, S
<1>5. /\ new \in Seq(S)
      /\ \A x \in S : \E i \in 1..Len(new) : new[i] = x
      /\ \A i, j \in 1..Len(new) : new[i] = new[j] => i = j
  <2>1. LET s == SetToSeq(S)
        IN  /\ s \in Seq(S) /\ DOMAIN s = 1..Len(s)
            /\ \A x \in S : \E i \in 1..Len(s) : s[i] = x
            /\ \A i, j \in 1..Len(s) : s[i] = s[j] => i = j
    BY <1>4, Listing, Zenon
  <2> QED
    BY <2>1, Zenon DEF new
<1>6. \A i \in 1..Len(new) : /\ new[i].address \in D
                             /\ new[i] = report[new[i].address]
                             /\ new[i].device = after[new[i].address]
  <2> SUFFICES ASSUME NEW i \in 1..Len(new)
               PROVE  /\ new[i].address \in D
                      /\ new[i] = report[new[i].address]
                      /\ new[i].device = after[new[i].address]
    OBVIOUS
  <2>1. new[i] \in S
    BY <1>5, ElementOfSeq
  <2>2. PICK a \in D : new[i] = report[a]
    BY <2>1 DEF S
  <2> QED
    BY <2>2
<1>7. \A a \in D : \E i \in 1..Len(new) : new[i].address = a
  <2> SUFFICES ASSUME NEW a \in D PROVE \E i \in 1..Len(new) : new[i].address = a
    OBVIOUS
  <2>1. report[a] \in S /\ report[a].address = a
    BY DEF S
  <2> QED
    BY <1>5, <2>1
<1>8. posts \in Seq(Reports) /\ new \in Seq(Reports)
  <2>1. posts \in Seq(Reports)
    BY DEF TypeOK, Reports
  <2>2. new \in Seq(Reports)
    BY <1>4, <1>5, SeqMonotonic
  <2> QED
    BY <2>1, <2>2
<1>9. /\ posts' \in Seq(Reports) /\ Len(posts') = Len(posts) + Len(new)
      /\ \A i \in 1..Len(posts) : posts'[i] = posts[i]
      /\ \A i \in Len(posts)+1..Len(posts') :
           i - Len(posts) \in 1..Len(new) /\ posts'[i] = new[i - Len(posts)]
  BY <1>1, <1>8
<1>10. \A i \in 1..Len(new) : /\ posts'[i + Len(posts)] = new[i]
                              /\ i + Len(posts) \in Len(posts)+1..Len(posts')
  BY <1>1, <1>8, <1>9
<1> HIDE DEF report
<1>11. \A a \in D : \E i \in Len(posts)+1..Len(posts') : posts'[i].address = a
  BY <1>7, <1>10
<1>12. \A i, j \in Len(posts)+1..Len(posts') : posts'[i].address = posts'[j].address => i = j
  <2> SUFFICES ASSUME NEW i \in Len(posts)+1..Len(posts'), NEW j \in Len(posts)+1..Len(posts'),
                      posts'[i].address = posts'[j].address
               PROVE  i = j
    OBVIOUS
  <2>1. PICK k \in 1..Len(new) : k = i - Len(posts) /\ posts'[i] = new[k]
    BY <1>9
  <2>2. PICK l \in 1..Len(new) : l = j - Len(posts) /\ posts'[j] = new[l]
    BY <1>9
  <2>3. new[k] = new[l]
    <3>1. new[k].address = new[l].address
      BY <2>1, <2>2, Zenon
    <3> QED
      BY ONLY <1>6, <3>1, Zenon
  <2>4. k = l
    BY <1>5, <2>3
  <2>5. Len(posts) \in Nat /\ Len(posts') \in Nat
    BY <1>8, <1>9
  <2> QED
    BY <2>1, <2>2, <2>4, <2>5
<1>13. Len(posts) <= Len(posts')
  BY <1>8, <1>9
<1>14. \A i \in Len(posts)+1..Len(posts') : /\ posts'[i].address \in D
                                            /\ posts'[i].device = results'[posts'[i].address]
  BY <1>1, <1>6, <1>9
<1> QED
  BY <1>1, <1>2, <1>9, <1>11, <1>12, <1>13, <1>14 DEF Reported

LEMMA PublishType ==
    ASSUME TypeOK, NEW D \in SUBSET Addresses, NEW news \in [D -> Device], Publish(news)
    PROVE  results' \in [Addresses -> Device] /\ posts' \in Seq(Reports)
<1>1. CASE cancelled
  BY <1>1 DEF Publish, TypeOK, Reports
<1>2. CASE ~cancelled
  BY <1>2, PublishStep, Zenon DEF Reported
<1> QED
  BY <1>1, <1>2 DEF TypeOK

LEMMA OnlyType ==
    ASSUME NEW a \in Addresses, NEW device \in Device
    PROVE  {a} \in SUBSET Addresses /\ Only(a, device) \in [{a} -> Device]
  BY DEF Only

LEMMA WholeType ==
    ASSUME TypeOK, NEW a \in Addresses, NEW device \in Device
    PROVE  Whole(a, device) \in Device
  BY DEF Whole, Known, TypeOK, Device

LEMMA CollectType ==
    ASSUME TypeOK, NEW a \in Addresses, NEW device \in Device, Collect(a, device)
    PROVE  /\ at' \in [Addresses -> Awaits \cup {"todo", "checked", "stopped"}]
           /\ part' \in [Addresses -> Device]
           /\ results' \in [Addresses -> Device] /\ posts' \in Seq(Reports)
<1>1. CASE Whole(a, device).evidence = {}
  BY <1>1 DEF Collect, Goes, TypeOK, Reports
<1>2. CASE Whole(a, device).evidence # {}
  <2>1. Publish(Only(a, Whole(a, device))) /\ Goes(a, "dns")
        /\ part' = [part EXCEPT ![a] = Whole(a, device)]
    BY <1>2 DEF Collect
  <2>2. results' \in [Addresses -> Device] /\ posts' \in Seq(Reports)
    BY <2>1, WholeType, OnlyType, PublishType
  <2> QED
    BY <2>1, <2>2, WholeType DEF Goes, TypeOK, Awaits
<1> QED
  BY <1>1, <1>2

LEMMA UnseenType == Unseen \in Device
  BY DEF Unseen, Device, Kinds

(* Every reachable state is well typed.                                      *)
THEOREM TypeCorrect == Spec => []TypeOK
<1>1. Init => TypeOK
  <2> SUFFICES ASSUME Init PROVE TypeOK
    OBVIOUS
  <2>1. posts \in Seq([address: Addresses, device: Device])
    <3> HIDE DEF Reports
    <3>1. posts = <<>>
      BY DEF Init
    <3> QED
      BY <3>1
  <2>2. /\ part \in [Addresses -> Device] /\ results \in [Addresses -> Device]
        /\ rows \in [Addresses -> Device]
    BY UnseenType DEF Init
  <2>3. /\ at \in [Addresses -> Awaits \cup {"todo", "checked", "stopped"}]
        /\ seen \in [Addresses -> SUBSET Sightings]
        /\ slots \in Nat /\ calls = {} /\ scan \in Nat
    BY DEF Init
  <2> QED
    BY <2>1, <2>2, <2>3 DEF TypeOK, Init
<1>2. TypeOK /\ [Next]_vars => TypeOK'
  <2> SUFFICES ASSUME TypeOK, [Next]_vars PROVE TypeOK'
    OBVIOUS
  <2> USE DEF Goes, Awaits, Reports
  <2>0. \A a \in Addresses : /\ part[a] \in Device /\ results[a] \in Device
                             /\ seen[a] \in SUBSET Sightings
    BY DEF TypeOK
  <2>1. ASSUME \/ Scan \/ Cancel \/ InterfaceStillThere \/ Refused \/ Interrupted
               \/ AddressesEnd \/ ScanEnds
        PROVE TypeOK'
    <3>1. UNCHANGED <<checks, native, screen, seen>>
      BY <2>1 DEF Scan, Cancel, InterfaceStillThere, Refused, Interrupted, AddressesEnd, ScanEnds
    <3>2. /\ phase' \in {"idle", "loading", "interfaces", "neighbors", "addresses", "again", "done"}
          /\ scan' \in Nat /\ cancelled' \in BOOLEAN
          /\ outcome' \in {"none", "complete", "failed", "cancelled"}
      <4>1. CASE Scan
        <5>1. scan \in Nat
          BY DEF TypeOK
        <5>2. scan' = scan + 1 /\ phase' = "loading" /\ cancelled' = FALSE /\ outcome' = "none"
          BY <4>1 DEF Scan
        <5>3. scan' \in Nat
          BY <5>1, <5>2
        <5> QED
          BY <5>2, <5>3
      <4>2. CASE Cancel \/ InterfaceStillThere \/ ScanEnds
        BY <4>2 DEF TypeOK, Cancel, InterfaceStillThere, ScanEnds
      <4>3. CASE Refused \/ Interrupted
        BY <4>3 DEF TypeOK, Refused, Interrupted, Ends
      <4>4. CASE AddressesEnd
        BY <4>4 DEF TypeOK, AddressesEnd, Ends
      <4> QED
        BY <2>1, <4>1, <4>2, <4>3, <4>4
    <3> QED
      BY <3>1, <3>2 DEF TypeOK, checks, native, screen
  <2>2. ASSUME Loaded PROVE TypeOK'
    BY <2>2, UnseenType DEF TypeOK, Loaded, native
  <2>3. ASSUME Show PROVE TypeOK'
    <3>1. posts \in Seq(Reports) /\ posts # <<>>
      BY <2>3 DEF Show, TypeOK
    <3>2. Tail(posts) \in Seq(Reports) /\ Head(posts) \in Reports
      BY <3>1, HeadTailProperties
    <3> QED
      BY <2>3, <3>2 DEF TypeOK, Show, view, checks, native
  <2>4. ASSUME NEW table \in Tables, MergeNeighbors(table) PROVE TypeOK'
    <3> DEFINE listed == {a \in Addresses : table[a] # NoMac}
    <3>1. [a \in listed |-> Cached(table[a])] \in [listed -> Device]
      BY UnseenType DEF Cached, Unseen, Device, Kinds
    <3>2. results' \in [Addresses -> Device] /\ posts' \in Seq(Reports)
      BY <2>4, <3>1, PublishType DEF MergeNeighbors
    <3>3. seen' \in [Addresses -> SUBSET Sightings]
      BY <2>4 DEF MergeNeighbors, Sees, Sighting, Sightings, TypeOK, Kinds
    <3> QED
      BY <2>4, <3>2, <3>3 DEF TypeOK, MergeNeighbors, Ends, native
  <2>5. ASSUME NEW a \in Addresses, StartCheck(a) PROVE TypeOK'
    <3>1. CASE a = Local
      <4> DEFINE own == [Unseen EXCEPT !.evidence = {"local"}, !.mac = LocalMac, !.live = TRUE]
      <4>1. own \in Device /\ Collect(a, own)
        BY <2>5, <3>1, UnseenType DEF Unseen, Device, Kinds, StartCheck
      <4> HIDE DEF own
      <4>2. seen' \in [Addresses -> SUBSET Sightings]
        <5>1. Sighting("local", LocalMac) \in Sightings
          BY DEF Sighting, Sightings, Kinds
        <5>2. seen' = [seen EXCEPT ![a] = @ \cup {Sighting("local", LocalMac)}]
          BY <2>5, <3>1 DEF StartCheck, SeesAt
        <5> QED
          BY <2>0, <5>1, <5>2 DEF TypeOK
      <4> QED
        BY <2>5, <4>1, <4>2, CollectType DEF TypeOK, StartCheck, view, native
    <3>2. CASE a # Local
      BY <2>5, <3>2 DEF TypeOK, StartCheck, view, native
    <3> QED
      BY <3>1, <3>2
  <2>6. ASSUME NEW a \in Addresses, NEW replies \in BOOLEAN, PingAnswers(a, replies) PROVE TypeOK'
    <3> DEFINE device == IF replies THEN [Unseen EXCEPT !.evidence = {"ping"}, !.live = TRUE]
                         ELSE Unseen
    <3>1. device \in Device /\ [device EXCEPT !.mac = results[a].mac] \in Device
      BY UnseenType DEF Unseen, Device, Kinds, TypeOK
    <3>2. seen' \in [Addresses -> SUBSET Sightings]
      BY <2>6 DEF PingAnswers, SeesAt, Sighting, Sightings, TypeOK, Kinds
    <3>3. CASE results[a].mac # NoMac
      <4>1. Collect(a, [device EXCEPT !.mac = results[a].mac])
        BY <2>6, <3>3 DEF PingAnswers
      <4> HIDE DEF device
      <4> QED
        BY <2>6, <3>1, <3>2, <4>1, CollectType DEF TypeOK, PingAnswers, view, native
    <3>4. CASE results[a].mac = NoMac
      BY <2>6, <3>1, <3>2, <3>4 DEF TypeOK, PingAnswers, view, native
    <3> QED
      BY <3>3, <3>4
  <2>7. ASSUME NEW a \in Addresses, ArpAnswers(a) PROVE TypeOK'
    <3> DEFINE device == IF part[a].mac = NoMac THEN part[a]
                         ELSE [part[a] EXCEPT !.evidence = @ \cup {"arp"}]
    <3>1. device \in Device /\ Collect(a, device)
      BY <2>0, <2>7 DEF ArpAnswers, Device, Kinds
    <3>2. seen' \in [Addresses -> SUBSET Sightings]
      BY <2>7 DEF ArpAnswers, SeesAt, Sighting, Sightings, TypeOK, Kinds, Device
    <3> HIDE DEF device
    <3> QED
      BY <2>7, <3>1, <3>2, CollectType DEF TypeOK, ArpAnswers, view, native
  <2>8. ASSUME NEW a \in Addresses, NEW named \in BOOLEAN, DnsAnswers(a, named) PROVE TypeOK'
    <3> DEFINE device == [part[a] EXCEPT !.named = TRUE]
    <3>1. device \in Device
      BY <2>0 DEF Device
    <3>2. results' \in [Addresses -> Device] /\ posts' \in Seq(Reports)
      <4>1. CASE named
        BY <2>8, <3>1, <4>1, OnlyType, PublishType DEF DnsAnswers
      <4>2. CASE ~named
        BY <2>8, <4>2 DEF DnsAnswers, TypeOK
      <4> QED
        BY <4>1, <4>2
    <3>3. seen' \in [Addresses -> SUBSET Sightings]
      BY <2>8 DEF DnsAnswers, SeesAt, Sighting, Sightings, TypeOK
    <3> QED
      BY <2>8, <3>2, <3>3 DEF TypeOK, DnsAnswers, view, native
  <2>9. ASSUME NEW a \in Addresses, ProbeThrows(a) \/ StopCheck(a) PROVE TypeOK'
    BY <2>9 DEF TypeOK, ProbeThrows, StopCheck, view, native, screen
  <2>10. ASSUME NEW a \in Addresses, TakeSlot(a) PROVE TypeOK'
    <3>1. slots' \in Nat
      BY <2>10 DEF TypeOK, TakeSlot
    <3>2. calls' \subseteq [scan: Nat, address: Addresses, running: BOOLEAN]
      <4>1. [scan |-> scan, address |-> a, running |-> FALSE]
              \in [scan: Nat, address: Addresses, running: BOOLEAN]
        BY DEF TypeOK
      <4> QED
        BY <2>10, <4>1 DEF TypeOK, TakeSlot
    <3>3. at' \in [Addresses -> Awaits \cup {"todo", "checked", "stopped"}]
      BY <2>10 DEF TypeOK, TakeSlot
    <3> QED
      BY <2>10, <3>1, <3>2, <3>3 DEF TypeOK, TakeSlot, view, screen
  <2>11. ASSUME NEW call \in calls, CallStarts(call) PROVE TypeOK'
    BY <2>11 DEF TypeOK, CallStarts, view, checks, screen
  <2>12. ASSUME NEW call \in calls, NEW mac \in Macs \cup {NoMac}, CallReturns(call, mac)
         PROVE TypeOK'
    <3>1. call.address \in Addresses
      BY DEF TypeOK
    <3>2. [part[call.address] EXCEPT !.mac = mac] \in Device
      BY <2>0, <3>1 DEF Device
    <3>3. calls' \subseteq calls /\ slots' \in Nat
      BY <2>12 DEF CallReturns, TypeOK
    <3>4. /\ at' \in [Addresses -> Awaits \cup {"todo", "checked", "stopped"}]
          /\ part' \in [Addresses -> Device]
      <4>1. CASE Awaited(call)
        <5>1. at' = [at EXCEPT ![call.address] = "answered"]
              /\ part' = [part EXCEPT ![call.address].mac = mac]
          BY <2>12, <4>1 DEF CallReturns
        <5> QED
          BY <3>1, <3>2, <5>1 DEF TypeOK
      <4>2. CASE ~Awaited(call)
        BY <2>12, <4>2 DEF CallReturns, TypeOK
      <4> QED
        BY <4>1, <4>2
    <3> QED
      BY <2>12, <3>3, <3>4 DEF TypeOK, CallReturns, view, screen
  <2>13. CASE UNCHANGED vars
    BY <2>13 DEF TypeOK, vars, view, checks, native, screen
  <2> QED
    BY <2>1, <2>2, <2>3, <2>4, <2>5, <2>6, <2>7, <2>8, <2>9, <2>10, <2>11, <2>12, <2>13
       DEF Next, Prepares, Neighbors, Check
<1> QED
  BY <1>1, <1>2, PTL DEF Spec

-----------------------------------------------------------------------------
(* What makes the cap inductive: slots and calls are one budget, a call is    *)
(* known by its scan and address, and a check that has no call yet has none   *)
(* of this scan; no check runs outside the addresses phase.                   *)
CallsInv ==
    /\ IsFiniteSet(calls) /\ slots + Cardinality(calls) = Slots
    /\ \A c \in calls : /\ c.scan <= scan
                        /\ c.scan = scan => /\ phase # "loading"
                                            /\ at[c.address] \notin {"todo", "ping", "slot"}
    /\ \A c, d \in calls : c.scan = d.scan /\ c.address = d.address => c = d
    /\ phase # "addresses" => \A a \in Addresses : at[a] \notin Awaits

(* A step that leaves scan and calls alone, and that takes no check back.    *)
LEMMA ChecksStep ==
    ASSUME TypeOK, CallsInv, UNCHANGED <<native, scan>>,
           phase' = phase \/ phase' # "loading",
           \A a \in Addresses : \/ at'[a] = at[a] \/ at[a] \in {"todo", "ping", "slot"}
                                \/ at'[a] \notin {"todo", "ping", "slot"},
           phase' # "addresses" => \A a \in Addresses : at'[a] \notin Awaits
    PROVE  CallsInv'
<1>1. \A c \in calls : c.address \in Addresses
  BY DEF TypeOK
<1> QED
  BY <1>1 DEF CallsInv, native

(* The check of one address goes on in the addresses phase.                  *)
LEMMA OneCheckStep ==
    ASSUME TypeOK, CallsInv, UNCHANGED <<native, view>>, NEW a \in Addresses, NEW await,
           at' = [at EXCEPT ![a] = await],
           phase = "addresses" \/ await \notin Awaits,
           at[a] \in {"todo", "ping", "slot"} \/ await \notin {"todo", "ping", "slot"}
    PROVE  CallsInv'
<1>1. \A b \in Addresses : at'[b] = IF b = a THEN await ELSE at[b]
  BY DEF TypeOK
<1>2. UNCHANGED <<native, scan, phase>>
  BY DEF view
<1>3. phase' # "addresses" => \A b \in Addresses : at'[b] \notin Awaits
  BY <1>1, <1>2 DEF CallsInv
<1> QED
  BY <1>1, <1>2, <1>3, ChecksStep

LEMMA CollectGoes ==
    ASSUME NEW a \in Addresses, NEW device, Collect(a, device)
    PROVE  at' = [at EXCEPT ![a] = "checked"] \/ at' = [at EXCEPT ![a] = "dns"]
  BY DEF Collect, Goes

LEMMA CallsStep == TypeOK /\ CallsInv /\ [Next]_vars => CallsInv'
<1> SUFFICES ASSUME TypeOK, CallsInv, [Next]_vars PROVE CallsInv'
  OBVIOUS
<1> USE DEF Awaits
<1>0. /\ calls \subseteq [scan: Nat, address: Addresses, running: BOOLEAN]
      /\ scan \in Nat /\ slots \in Nat
      /\ IsFiniteSet(calls) /\ Cardinality(calls) \in Nat /\ slots + Cardinality(calls) = Slots
  BY FS_CardinalityType DEF TypeOK, CallsInv
<1>1. CASE Scan
  <2>1. \A c \in calls : c.scan <= scan' /\ c.scan # scan'
    BY <1>0, <1>1 DEF Scan, CallsInv
  <2> QED
    BY <1>0, <1>1, <2>1 DEF Scan, CallsInv, native, checks
<1>2. CASE Cancel \/ InterfaceStillThere \/ Refused \/ Interrupted \/ ScanEnds
  <2>1. /\ UNCHANGED <<native, scan, at>>
        /\ phase' = phase \/ phase' # "loading"
        /\ phase = "addresses" => phase' = phase
    BY <1>2 DEF Cancel, InterfaceStillThere, Refused, Interrupted, ScanEnds, Ends, checks
  <2>2. phase' # "addresses" => \A a \in Addresses : at'[a] \notin Awaits
    BY <2>1 DEF CallsInv
  <2>3. \A a \in Addresses : at'[a] = at[a]
    BY <2>1
  <2> QED
    BY <2>1, <2>2, <2>3, ChecksStep
<1>3. CASE Loaded
  <2>1. \A c \in calls : c.scan # scan
    BY <1>3 DEF Loaded, CallsInv
  <2>2. \A a \in Addresses : at'[a] = "todo"
    BY <1>3 DEF Loaded
  <2> QED
    BY <1>3, <2>1, <2>2 DEF Loaded, CallsInv, native
<1>4. CASE Show \/ UNCHANGED vars
  BY <1>4, ChecksStep DEF Show, CallsInv, vars, view, checks
<1>5. ASSUME NEW table \in Tables, MergeNeighbors(table) PROVE CallsInv'
  <2>1. /\ UNCHANGED <<native, scan, at>> /\ phase' # "loading"
        /\ phase # "addresses"
    BY <1>5 DEF MergeNeighbors, Ends
  <2> QED
    BY <2>1, ChecksStep DEF CallsInv
<1>6. ASSUME NEW a \in Addresses, StartCheck(a) PROVE CallsInv'
  <2>1. /\ phase = "addresses" /\ at[a] = "todo" /\ UNCHANGED <<native, view>>
        /\ \/ at' = [at EXCEPT ![a] = "ping"]
           \/ at' = [at EXCEPT ![a] = "checked"] \/ at' = [at EXCEPT ![a] = "dns"]
    BY <1>6, CollectGoes DEF StartCheck, Goes
  <2> QED
    BY <2>1, OneCheckStep
<1>7. ASSUME NEW a \in Addresses, NEW yes \in BOOLEAN, PingAnswers(a, yes) \/ DnsAnswers(a, yes)
      PROVE  CallsInv'
  <2>1. /\ at[a] \in {"ping", "dns"} /\ UNCHANGED <<native, view>>
        /\ \/ at[a] = "ping" /\ at' = [at EXCEPT ![a] = "slot"]
           \/ at' = [at EXCEPT ![a] = "checked"] \/ at' = [at EXCEPT ![a] = "dns"]
    BY <1>7, CollectGoes DEF PingAnswers, DnsAnswers, Goes
  <2>2. phase = "addresses"
    BY <2>1 DEF CallsInv
  <2> QED
    BY <2>1, <2>2, OneCheckStep
<1>8. ASSUME NEW a \in Addresses, ArpAnswers(a) PROVE CallsInv'
  <2>1. /\ at[a] = "answered" /\ UNCHANGED <<native, view>>
        /\ at' = [at EXCEPT ![a] = "checked"] \/ at' = [at EXCEPT ![a] = "dns"]
    BY <1>8, CollectGoes DEF ArpAnswers
  <2>2. phase = "addresses"
    BY <2>1 DEF CallsInv
  <2> QED
    BY <2>1, <2>2, OneCheckStep
<1>9. ASSUME NEW a \in Addresses, StopCheck(a) PROVE CallsInv'
  BY <1>9, OneCheckStep DEF StopCheck, Goes
<1>10. ASSUME NEW a \in Addresses, ProbeThrows(a) PROVE CallsInv'
  <2>1. /\ at[a] \in Awaits /\ at' = [at EXCEPT ![a] = "stopped"]
        /\ UNCHANGED <<native, scan, phase>>
    BY <1>10 DEF ProbeThrows, Goes
  <2>2. \A b \in Addresses : at'[b] = IF b = a THEN "stopped" ELSE at[b]
    BY <2>1 DEF TypeOK
  <2>3. phase' = "addresses"
    BY <2>1 DEF CallsInv
  <2> QED
    BY <2>1, <2>2, <2>3, ChecksStep
<1>11. CASE AddressesEnd
  <2>1. /\ UNCHANGED <<native, scan, at>> /\ phase' # "loading"
        /\ \A a \in Addresses : at[a] \notin Awaits
    BY <1>11 DEF AddressesEnd, Ends, checks, Active
  <2> QED
    BY <2>1, ChecksStep
<1>12. ASSUME NEW a \in Addresses, TakeSlot(a) PROVE CallsInv'
  <2> DEFINE call == [scan |-> scan, address |-> a, running |-> FALSE]
  <2>1. /\ at[a] = "slot" /\ slots > 0 /\ at' = [at EXCEPT ![a] = "arp"]
        /\ slots' = slots - 1 /\ calls' = calls \cup {call}
        /\ UNCHANGED <<scan, phase>>
    BY <1>12 DEF TakeSlot, Goes, view
  <2>2. \A c \in calls : ~(c.scan = scan /\ c.address = a)
    BY <2>1 DEF CallsInv
  <2>3. /\ IsFiniteSet(calls') /\ Cardinality(calls') = Cardinality(calls) + 1
    <3>1. call \notin calls
      BY <2>2
    <3> QED
      BY <1>0, <2>1, <3>1, FS_AddElement
  <2>4. slots' + Cardinality(calls') = Slots
    BY <1>0, <2>1, <2>3
  <2>5. phase = "addresses"
    BY <2>1 DEF CallsInv
  <2>6. \A b \in Addresses : at'[b] = IF b = a THEN "arp" ELSE at[b]
    BY <2>1 DEF TypeOK
  <2>7. \A c \in calls' : /\ c.scan <= scan'
                          /\ c.scan = scan' => /\ phase' # "loading"
                                               /\ at'[c.address] \notin {"todo", "ping", "slot"}
    <3>1. \A c \in calls : /\ c.address \in Addresses /\ c.scan <= scan
                           /\ c.scan = scan => at[c.address] \notin {"todo", "ping", "slot"}
      BY <1>0 DEF CallsInv
    <3>2. \A c \in calls' : c \in calls \/ c = call
      BY <2>1
    <3>3. call.scan = scan /\ call.address = a /\ scan <= scan
      BY <1>0
    <3> QED
      BY <2>1, <2>5, <2>6, <3>1, <3>2, <3>3
  <2>8. \A c, d \in calls' : c.scan = d.scan /\ c.address = d.address => c = d
    <3>1. \A c \in calls' : \/ c \in calls /\ ~(c.scan = scan /\ c.address = a)
                            \/ c = call
      BY <2>1, <2>2
    <3>2. call.scan = scan /\ call.address = a
      OBVIOUS
    <3> HIDE DEF call
    <3> QED
      BY <3>1, <3>2 DEF CallsInv
  <2> QED
    BY <2>1, <2>3, <2>4, <2>5, <2>7, <2>8 DEF CallsInv
<1>13. ASSUME NEW call \in calls, CallStarts(call) PROVE CallsInv'
  <2> DEFINE next == [call EXCEPT !.running = TRUE]
  <2>1. /\ call.running = FALSE /\ calls' = (calls \ {call}) \cup {next}
        /\ UNCHANGED <<slots, scan, phase, at>>
    BY <1>0, <1>13 DEF CallStarts, view, checks
  <2>2. next.scan = call.scan /\ next.address = call.address /\ next.running = TRUE
    BY <1>0
  <2> HIDE DEF next
  <2>3. next \notin calls \ {call}
    BY <2>1, <2>2 DEF CallsInv
  <2>4. /\ IsFiniteSet(calls') /\ Cardinality(calls') = Cardinality(calls)
    <3>1. IsFiniteSet(calls \ {call}) /\ Cardinality(calls \ {call}) = Cardinality(calls) - 1
      BY <1>0, FS_RemoveElement
    <3>2. /\ IsFiniteSet(calls')
          /\ Cardinality(calls') = Cardinality(calls \ {call}) + 1
      BY <2>1, <2>3, <3>1, FS_AddElement
    <3> QED
      BY <1>0, <3>1, <3>2
  <2>5. \A c \in calls' : \E d \in calls : /\ c.scan = d.scan /\ c.address = d.address
                                           /\ \/ c = d /\ c # call
                                              \/ c = next /\ d = call
    BY <2>1, <2>2
  <2> QED
    BY <2>1, <2>4, <2>5 DEF CallsInv
<1>14. ASSUME NEW call \in calls, NEW mac \in Macs \cup {NoMac}, CallReturns(call, mac)
       PROVE  CallsInv'
  <2>1. /\ calls' = calls \ {call} /\ slots' = slots + 1 /\ UNCHANGED <<scan, phase>>
        /\ \/ at' = at
           \/ Awaited(call) /\ at' = [at EXCEPT ![call.address] = "answered"]
    BY <1>14 DEF CallReturns, Goes, view
  <2>2. \A b \in Addresses : \/ at'[b] = at[b]
                             \/ at[b] = "arp" /\ at'[b] = "answered"
    <3>1. CASE at' = at
      BY <3>1
    <3>2. CASE Awaited(call) /\ at' = [at EXCEPT ![call.address] = "answered"]
      BY <3>2 DEF TypeOK, Awaited
    <3> QED
      BY <2>1, <3>1, <3>2
  <2>3. /\ IsFiniteSet(calls') /\ Cardinality(calls') = Cardinality(calls) - 1
    BY <1>0, <2>1, FS_RemoveElement
  <2>4. slots' + Cardinality(calls') = Slots
    BY <1>0, <2>1, <2>3
  <2>5. \A c \in calls' : c \in calls /\ c.address \in Addresses
    BY <1>0, <2>1
  <2>6. phase' # "addresses" => \A a \in Addresses : at'[a] \notin Awaits
    BY <2>1, <2>2 DEF CallsInv
  <2> QED
    BY <2>1, <2>2, <2>3, <2>4, <2>5, <2>6 DEF CallsInv
<1> QED
  BY <1>1, <1>2, <1>3, <1>4, <1>5, <1>6, <1>7, <1>8, <1>9, <1>10, <1>11, <1>12, <1>13, <1>14
     DEF Next, Prepares, Neighbors, Check

LEMMA CallsInit == Init => CallsInv
<1> SUFFICES ASSUME Init PROVE CallsInv
  OBVIOUS
<1>1. calls = {} /\ slots = Slots /\ \A a \in Addresses : at[a] = "todo"
  BY DEF Init
<1>2. IsFiniteSet({}) /\ Cardinality({}) = 0
  BY FS_EmptySet
<1>3. slots + Cardinality(calls) = Slots
  BY <1>1, <1>2
<1> QED
  BY <1>1, <1>2, <1>3 DEF CallsInv, Awaits

(* The native ARP calls of all scans together never exceed the slots.        *)
THEOREM CallsWithinCap == Spec => []NativeCallsBounded
<1>1. TypeOK /\ CallsInv => NativeCallsBounded
  <2> SUFFICES ASSUME TypeOK, CallsInv PROVE Cardinality(calls) <= Slots
    BY DEF NativeCallsBounded
  <2>1. Cardinality(calls) \in Nat /\ slots \in Nat /\ slots + Cardinality(calls) = Slots
    BY FS_CardinalityType DEF TypeOK, CallsInv
  <2> QED
    BY <2>1
<1> QED
  BY <1>1, CallsInit, CallsStep, TypeCorrect, PTL DEF Spec

-----------------------------------------------------------------------------
(* Tells, sighting by sighting.                                              *)
TellsEach(device, sightings) ==
    /\ \A kind \in Kinds : kind \in device.evidence <=> \E x \in sightings : x.kind = kind
    /\ device.named <=> \E x \in sightings : x.kind = "name"
    /\ device.live <=> \E x \in sightings : x.kind \in {"ping", "local"}
    /\ device.mac = NoMac => \A x \in sightings : x.mac = NoMac
    /\ device.mac # NoMac => \E x \in sightings : x.mac = device.mac

LEMMA TellsIsEach ==
    ASSUME NEW device \in Device, NEW sightings \in SUBSET Sightings
    PROVE  Tells(device, sightings) <=> TellsEach(device, sightings)
<1> DEFINE macs == {s.mac : s \in sightings} \ {NoMac}
           kinds == {s.kind : s \in sightings}
<1>1. \A kind : kind \in kinds <=> \E x \in sightings : x.kind = kind
  OBVIOUS
<1>2. \A mac : mac \in macs <=> mac # NoMac /\ \E x \in sightings : x.mac = mac
  OBVIOUS
<1>3. /\ device.evidence \subseteq Kinds /\ kinds \subseteq Kinds \cup {"name"}
      /\ "name" \notin Kinds
  BY DEF Device, Sightings, Kinds
<1>4. Tells(device, sightings) <=>
        /\ device.evidence = kinds \ {"name"}
        /\ device.named <=> "name" \in kinds
        /\ IF macs = {} THEN device.mac = NoMac ELSE device.mac \in macs
        /\ device.live <=> kinds \cap {"ping", "local"} # {}
  BY Zenon DEF Tells
<1>5. (device.evidence = kinds \ {"name"})
        <=> \A kind \in Kinds : kind \in device.evidence <=> \E x \in sightings : x.kind = kind
  <2> HIDE DEF kinds
  <2> QED
    BY <1>1, <1>3
<1>6. (device.named <=> "name" \in kinds)
         <=> (device.named <=> \E x \in sightings : x.kind = "name")
  <2> HIDE DEF kinds
  <2> QED
    BY <1>1, Zenon
<1>7. (device.live <=> kinds \cap {"ping", "local"} # {})
        <=> (device.live <=> \E x \in sightings : x.kind \in {"ping", "local"})
  <2>1. (kinds \cap {"ping", "local"} # {}) <=> \E x \in sightings : x.kind \in {"ping", "local"}
    <3> HIDE DEF kinds
    <3> QED
      BY <1>1
  <2> QED
    BY <2>1, Zenon
<1>8. (IF macs = {} THEN device.mac = NoMac ELSE device.mac \in macs)
        <=> /\ device.mac = NoMac => \A x \in sightings : x.mac = NoMac
            /\ device.mac # NoMac => \E x \in sightings : x.mac = device.mac
  <2> HIDE DEF macs
  <2> QED
    BY <1>2
<1> HIDE DEF macs, kinds
<1> QED
  BY <1>4, <1>5, <1>6, <1>7, <1>8, Zenon DEF TellsEach

(* Merging what a sighting says keeps the device true to the sightings.      *)
LEMMA TellsMore ==
    ASSUME NEW device \in Device, NEW sightings \in SUBSET Sightings, Tells(device, sightings),
           NEW x \in Sightings, NEW new \in Device,
           new.evidence = {x.kind} \cap Kinds,
           new.named <=> x.kind = "name", new.live <=> x.kind \in {"ping", "local"},
           new.mac = x.mac
    PROVE  Tells(Merged(device, new), sightings \cup {x})
<1> DEFINE both == Merged(device, new)
           more == sightings \cup {x}
<1>1. both \in Device /\ more \in SUBSET Sightings
  BY DEF Merged, Known, Device
<1>2. TellsEach(device, sightings)
  BY TellsIsEach
<1>3. /\ both.evidence = device.evidence \cup new.evidence
      /\ both.named <=> (device.named \/ new.named)
      /\ both.live <=> (device.live \/ new.live)
      /\ both.mac = IF new.mac # NoMac THEN new.mac ELSE device.mac
  BY DEF Merged, Known
<1> HIDE DEF both
<1>4. \A kind \in Kinds : kind \in both.evidence <=> \E y \in more : y.kind = kind
  BY <1>2, <1>3 DEF TellsEach
<1>5. both.named <=> \E y \in more : y.kind = "name"
  BY <1>2, <1>3, Zenon DEF TellsEach
<1>6. both.live <=> \E y \in more : y.kind \in {"ping", "local"}
  BY <1>2, <1>3, Zenon DEF TellsEach
<1>7. /\ both.mac = NoMac => \A y \in more : y.mac = NoMac
      /\ both.mac # NoMac => \E y \in more : y.mac = both.mac
  BY <1>2, <1>3 DEF TellsEach
<1>8. TellsEach(both, more)
  BY <1>4, <1>5, <1>6, <1>7, Zenon DEF TellsEach
<1> QED
  BY <1>1, <1>8, TellsIsEach, Zenon DEF both

(* While a scan is neither cancelled nor failed: the last report of an address *)
(* on its way carries its result, and without one the row shows the result;   *)
(* and the result, with what a running check holds back, tells what was seen. *)
Clean == ~cancelled /\ outcome # "failed" /\ phase # "loading"
OnItsWay(a) ==
    /\ (\A i \in 1..Len(posts) : posts[i].address # a) => rows[a] = results[a]
    /\ \A i \in 1..Len(posts) :
         /\ posts[i].address = a
         /\ \A j \in i+1..Len(posts) : posts[j].address # a
         => posts[i].device = results[a]
WithoutMac(device) == [device EXCEPT !.mac = NoMac]
Collected(a) ==
    /\ at[a] # "stopped"
    /\ at[a] \in {"todo", "ping", "dns", "checked"} => Tells(results[a], seen[a])
    /\ at[a] \in {"slot", "arp", "answered"} =>
         /\ Tells(Merged(results[a], WithoutMac(part[a])), seen[a])
         /\ part[a].evidence = {} => WithoutMac(part[a]) = Unseen
    /\ at[a] = "dns" => /\ part[a].evidence \subseteq results[a].evidence
                        /\ part[a].mac = results[a].mac
                        /\ part[a].live => results[a].live
RowsInv ==
    /\ phase \in {"idle", "loading", "interfaces"} => posts = <<>>
    /\ phase \in {"loading", "interfaces", "neighbors", "again"} => outcome # "failed"
    /\ Clean => \A a \in Addresses : OnItsWay(a) /\ Collected(a)

LEMMA PublishShows ==
    ASSUME TypeOK, NEW D \in SUBSET Addresses, NEW news \in [D -> Device], ~cancelled,
           Publish(news), rows' = rows, \A a \in Addresses : OnItsWay(a)
    PROVE  \A a \in Addresses : OnItsWay(a)'
<1> SUFFICES ASSUME NEW a \in Addresses PROVE OnItsWay(a)'
  OBVIOUS
<1> DEFINE s == Len(posts)
           n == Len(posts')
<1>1. /\ results' = [b \in Addresses |-> IF b \in D THEN Merged(results[b], news[b])
                                         ELSE results[b]]
      /\ s <= n
      /\ \A i \in 1..s : posts'[i] = posts[i]
      /\ \A i \in s+1..n : /\ posts'[i].address \in D
                           /\ posts'[i].device = results'[posts'[i].address]
      /\ \A b \in D : \E i \in s+1..n : posts'[i].address = b
  <2> HIDE DEF s, n
  <2>1. Reported(D, news)
    BY PublishStep
  <2> QED
    BY <2>1, Zenon DEF Reported, s, n
<1>2. s \in Nat /\ n \in Nat
  <2>1. posts \in Seq(Reports) /\ posts' \in Seq(Reports)
    BY PublishType DEF TypeOK, Reports
  <2> QED
    BY <2>1
<1>3. CASE a \in D
  <2>1. PICK k \in s+1..n : posts'[k].address = a
    BY <1>1, <1>3
  <2>2. \A i \in 1..n : (\A j \in i+1..n : posts'[j].address # a) => i \in s+1..n
    BY <1>2, <2>1
  <2> HIDE DEF s, n
  <2>3. /\ \E i \in 1..n : posts'[i].address = a
        /\ \A i \in 1..n : /\ posts'[i].address = a
                           /\ \A j \in i+1..n : posts'[j].address # a
                           => posts'[i].device = results'[a]
    BY <1>1, <1>2, <2>1, <2>2
  <2> QED
    BY <2>3 DEF OnItsWay, s, n
<1>4. CASE a \notin D
  <2>1. results'[a] = results[a]
    BY <1>1, <1>4
  <2>2. \A i \in s+1..n : posts'[i].address # a
    BY <1>1, <1>4
  <2> HIDE DEF s, n
  <2>3. \A i \in 1..n : posts'[i].address = a => i \in 1..s /\ posts'[i] = posts[i]
    BY <1>1, <1>2, <2>2
  <2>4. (\A i \in 1..n : posts'[i].address # a) => \A i \in 1..s : posts[i].address # a
    BY <1>1, <1>2
  <2>5. \A i \in 1..s : (\A j \in i+1..n : posts'[j].address # a)
                         => \A j \in i+1..s : posts[j].address # a
    BY <1>1, <1>2
  <2>6. OnItsWay(a)
    OBVIOUS
  <2>7. /\ (\A i \in 1..s : posts[i].address # a) => rows[a] = results[a]
        /\ \A i \in 1..s : /\ posts[i].address = a
                           /\ \A j \in i+1..s : posts[j].address # a
                           => posts[i].device = results[a]
    BY <2>6 DEF OnItsWay, s
  <2>8. /\ (\A i \in 1..n : posts'[i].address # a) => rows'[a] = results'[a]
        /\ \A i \in 1..n : /\ posts'[i].address = a
                           /\ \A j \in i+1..n : posts'[j].address # a
                           => posts'[i].device = results'[a]
    BY <2>1, <2>3, <2>4, <2>5, <2>7
  <2> QED
    BY <2>8 DEF OnItsWay, n
<1> QED
  BY <1>3, <1>4

LEMMA UnchangedShows ==
    ASSUME UNCHANGED <<posts, rows, results>>, NEW a, OnItsWay(a)
    PROVE  OnItsWay(a)'
  BY DEF OnItsWay

(* The head of the posts is shown.                                           *)
LEMMA ShowShows ==
    ASSUME TypeOK, Show, ~cancelled, NEW a \in Addresses, OnItsWay(a)
    PROVE  OnItsWay(a)'
<1> DEFINE n == Len(posts)
<1>1. posts \in Seq(Reports) /\ n \in Nat /\ n > 0
  BY EmptySeq DEF Show, TypeOK, Reports
<1>2. /\ Len(posts') = n - 1 /\ \A i \in 1..n-1 : posts'[i] = posts[i + 1]
      /\ Head(posts) = posts[1]
  BY <1>1 DEF Show
<1>3. posts[1] \in Reports
  BY <1>1, ElementOfSeq
<1>4. rows' = [rows EXCEPT ![posts[1].address] = posts[1].device] /\ results' = results
  BY <1>2 DEF Show, checks
<1>5. rows'[a] = IF posts[1].address = a THEN posts[1].device ELSE rows[a]
  BY <1>3, <1>4 DEF TypeOK, Reports
<1>6. /\ (\A i \in 1..n : posts[i].address # a) => rows[a] = results[a]
      /\ \A i \in 1..n : /\ posts[i].address = a
                         /\ \A j \in i+1..n : posts[j].address # a
                         => posts[i].device = results[a]
  BY DEF OnItsWay
<1> HIDE DEF n
<1>7. ASSUME \A i \in 1..n-1 : posts'[i].address # a PROVE rows'[a] = results'[a]
  <2>1. \A j \in 2..n : posts[j].address # a
    <3> SUFFICES ASSUME NEW j \in 2..n PROVE posts[j].address # a
      OBVIOUS
    <3>1. j - 1 \in 1..n-1 /\ (j - 1) + 1 = j
      BY <1>1
    <3> QED
      BY <1>2, <1>7, <3>1
  <2>2. CASE posts[1].address = a
    BY <1>1, <1>4, <1>5, <1>6, <2>1, <2>2
  <2>3. CASE posts[1].address # a
    BY <1>1, <1>4, <1>5, <1>6, <2>1, <2>3
  <2> QED
    BY <2>2, <2>3
<1>8. ASSUME NEW i \in 1..n-1, posts'[i].address = a,
             \A j \in i+1..n-1 : posts'[j].address # a
      PROVE  posts'[i].device = results'[a]
  <2>1. i + 1 \in 1..n /\ posts'[i] = posts[i + 1]
    BY <1>1, <1>2
  <2>2. \A j \in i+1+1..n : posts[j].address # a
    <3> SUFFICES ASSUME NEW j \in i+1+1..n PROVE posts[j].address # a
      OBVIOUS
    <3>1. j - 1 \in i+1..n-1 /\ j - 1 \in 1..n-1 /\ (j - 1) + 1 = j
      BY <1>1
    <3> QED
      BY <1>2, <1>8, <3>1
  <2> QED
    BY <1>4, <1>6, <1>8, <2>1, <2>2
<1> QED
  BY <1>2, <1>7, <1>8 DEF OnItsWay

(* What one address publishes is merged into its result alone.               *)
LEMMA OnlyResults ==
    ASSUME TypeOK, NEW a \in Addresses, NEW device \in Device, ~cancelled, Publish(Only(a, device))
    PROVE  /\ results'[a] = Merged(results[a], device)
           /\ \A b \in Addresses : b # a => results'[b] = results[b]
<1>1. Reported({a}, Only(a, device))
  BY OnlyType, PublishStep
<1>2. results' = [b \in Addresses |-> IF b \in {a} THEN Merged(results[b], Only(a, device)[b])
                                      ELSE results[b]]
  BY <1>1, Zenon DEF Reported
<1>3. Only(a, device)[a] = device
  BY DEF Only
<1> QED
  BY <1>2, <1>3

(* A step of the check of one address leaves the others as they are.         *)
LEMMA OthersCollected ==
    ASSUME TypeOK, NEW a \in Addresses, NEW b \in Addresses, b # a, Collected(b),
           at'[b] = at[b], part'[b] = part[b], results'[b] = results[b], seen'[b] = seen[b]
    PROVE  Collected(b)'
  BY DEF Collected

(* The last part of a check tells all the parts before told.                 *)
LEMMA CollectTells ==
    ASSUME TypeOK, NEW a \in Addresses, NEW device \in Device, ~cancelled, Collect(a, device),
           Tells(Merged(results[a], device), seen'[a]),
           device.evidence = {} => Merged(results[a], device) = results[a]
    PROVE  /\ Collected(a)'
           /\ \A b \in Addresses : b # a => /\ at'[b] = at[b] /\ part'[b] = part[b]
                                            /\ results'[b] = results[b]
<1> DEFINE whole == Whole(a, device)
<1>0. results[a] \in Device /\ part[a] \in Device /\ whole \in Device
  BY WholeType DEF TypeOK
<1>1. CASE whole.evidence = {}
  <2>1. at' = [at EXCEPT ![a] = "checked"] /\ UNCHANGED <<part, results, posts>>
    BY <1>1 DEF Collect, Goes
  <2>2. device.evidence = {}
    BY <1>1 DEF Whole, Device
  <2>3. Tells(results'[a], seen'[a])
    BY <2>1, <2>2
  <2> QED
    BY <2>1, <2>3 DEF Collected, TypeOK
<1>2. CASE whole.evidence # {}
  <2>1. /\ at' = [at EXCEPT ![a] = "dns"] /\ part' = [part EXCEPT ![a] = whole]
        /\ Publish(Only(a, whole))
    BY <1>2 DEF Collect, Goes
  <2>2. /\ results'[a] = Merged(results[a], whole)
        /\ \A b \in Addresses : b # a => results'[b] = results[b]
    BY <1>0, <2>1, OnlyResults
  <2>3. Merged(results[a], whole) = Merged(results[a], device)
    BY <1>0 DEF Merged, Whole, Known, Device
  <2>4. /\ whole.evidence \subseteq Merged(results[a], whole).evidence
        /\ whole.mac = Merged(results[a], whole).mac
        /\ whole.live => Merged(results[a], whole).live
    BY <1>0 DEF Merged, Whole, Known, Device
  <2>5. /\ at'[a] = "dns" /\ part'[a] = whole
        /\ \A b \in Addresses : b # a => at'[b] = at[b] /\ part'[b] = part[b]
    BY <2>1 DEF TypeOK
  <2> HIDE DEF whole
  <2>6. Collected(a)'
    BY <2>2, <2>3, <2>4, <2>5 DEF Collected
  <2> QED
    BY <2>2, <2>5, <2>6
<1> QED
  BY <1>1, <1>2

LEMMA CollectShows ==
    ASSUME TypeOK, NEW a \in Addresses, NEW device \in Device, ~cancelled, Collect(a, device),
           rows' = rows, \A b \in Addresses : OnItsWay(b)
    PROVE  \A b \in Addresses : OnItsWay(b)'
<1>1. CASE Whole(a, device).evidence = {}
  BY <1>1, UnchangedShows DEF Collect
<1>2. CASE Whole(a, device).evidence # {}
  BY <1>2, WholeType, OnlyType, PublishShows DEF Collect
<1> QED
  BY <1>1, <1>2

(* What a probe says of an address: one kind of evidence, and perhaps a MAC. *)
LEMMA SaysMore ==
    ASSUME NEW device \in Device, NEW sightings \in SUBSET Sightings, Tells(device, sightings),
           NEW kind \in Kinds, NEW mac \in Macs \cup {NoMac},
           NEW new \in Device, new.evidence = {kind}, new.mac = mac, new.named = FALSE,
           new.live <=> kind \in {"ping", "local"}
    PROVE  Tells(Merged(device, new), sightings \cup {Sighting(kind, mac)})
<1> DEFINE x == Sighting(kind, mac)
<1>1. x \in Sightings /\ x.kind = kind /\ x.mac = mac
  BY DEF Sighting, Sightings
<1>2. "name" \notin Kinds /\ {kind} \cap Kinds = {kind}
  BY DEF Kinds
<1> HIDE DEF x
<1>3. new.evidence = {x.kind} \cap Kinds /\ new.mac = x.mac
  BY <1>1, <1>2
<1>4. new.named <=> x.kind = "name"
  BY <1>1, <1>2
<1>5. new.live <=> x.kind \in {"ping", "local"}
  BY <1>1, Zenon
<1>6. Tells(Merged(device, new), sightings \cup {x})
  BY <1>1, <1>3, <1>4, <1>5, TellsMore
<1> QED
  BY <1>6 DEF x

LEMMA MergedUnseen ==
    ASSUME NEW device \in Device
    PROVE  /\ Merged(device, Unseen) = device
           /\ Merged(device, [Unseen EXCEPT !.mac = device.mac]) = device
  BY DEF Merged, Known, Unseen, Device

LEMMA StartTells ==
    ASSUME TypeOK, NEW a \in Addresses, StartCheck(a), ~cancelled,
           \A b \in Addresses : OnItsWay(b) /\ Collected(b)
    PROVE  \A b \in Addresses : OnItsWay(b)' /\ Collected(b)'
<1>1. at[a] = "todo" /\ rows' = rows /\ Tells(results[a], seen[a])
  BY DEF StartCheck, Collected
<1>0. results[a] \in Device /\ seen[a] \in SUBSET Sightings
  BY DEF TypeOK
<1>2. CASE a = Local
  <2> DEFINE own == [Unseen EXCEPT !.evidence = {"local"}, !.mac = LocalMac, !.live = TRUE]
  <2>1. Collect(a, own) /\ seen' = [seen EXCEPT ![a] = @ \cup {Sighting("local", LocalMac)}]
    BY <1>2 DEF StartCheck, SeesAt
  <2>2. own \in Device
    BY UnseenType DEF Unseen, Device, Kinds
  <2>3. /\ own.evidence = {"local"} /\ own.mac = LocalMac /\ own.named = FALSE
        /\ own.live <=> "local" \in {"ping", "local"}
    BY DEF Unseen
  <2> HIDE DEF own
  <2>4. own \in Device /\ Tells(Merged(results[a], own), seen[a] \cup {Sighting("local", LocalMac)})
    BY <1>0, <1>1, <2>2, <2>3, SaysMore DEF Kinds
  <2>5. /\ seen'[a] = seen[a] \cup {Sighting("local", LocalMac)}
        /\ \A b \in Addresses : b # a => seen'[b] = seen[b]
    BY <2>1 DEF TypeOK
  <2>6. Tells(Merged(results[a], own), seen'[a])
    BY <2>4, <2>5
  <2>7. /\ Collected(a)'
        /\ \A b \in Addresses : b # a => /\ at'[b] = at[b] /\ part'[b] = part[b]
                                         /\ results'[b] = results[b]
    BY <2>1, <2>3, <2>4, <2>6, CollectTells
  <2>8. \A b \in Addresses : OnItsWay(b)'
    BY <1>1, <2>1, <2>4, CollectShows
  <2>9. \A b \in Addresses : Collected(b)'
    BY <2>5, <2>7, OthersCollected
  <2> QED
    BY <2>8, <2>9
<1>3. CASE a # Local
  <2>1. at' = [at EXCEPT ![a] = "ping"] /\ UNCHANGED <<part, results, posts, rows, seen>>
    BY <1>3 DEF StartCheck, Goes
  <2>2. \A b \in Addresses : at'[b] = IF b = a THEN "ping" ELSE at[b]
    BY <2>1 DEF TypeOK
  <2>3. \A b \in Addresses : Collected(b)'
    BY <1>1, <2>1, <2>2 DEF Collected
  <2> QED
    BY <2>1, <2>3, UnchangedShows
<1> QED
  BY <1>2, <1>3

LEMMA PingTells ==
    ASSUME TypeOK, NEW a \in Addresses, NEW replies \in BOOLEAN, PingAnswers(a, replies), ~cancelled,
           \A b \in Addresses : OnItsWay(b) /\ Collected(b)
    PROVE  \A b \in Addresses : OnItsWay(b)' /\ Collected(b)'
<1> DEFINE device == IF replies THEN [Unseen EXCEPT !.evidence = {"ping"}, !.live = TRUE]
                     ELSE Unseen
           cached == [device EXCEPT !.mac = results[a].mac]
<1>0. results[a] \in Device /\ seen[a] \in SUBSET Sightings
  BY DEF TypeOK
<1>1. at[a] = "ping" /\ rows' = rows /\ Tells(results[a], seen[a])
  BY DEF PingAnswers, Collected
<1>2. /\ seen'[a] = seen[a] \cup (IF replies THEN {Sighting("ping", NoMac)} ELSE {})
      /\ \A b \in Addresses : b # a => seen'[b] = seen[b]
  BY DEF PingAnswers, SeesAt, TypeOK
<1>3. device \in Device /\ device.mac = NoMac /\ (device.evidence = {} => device = Unseen)
  BY UnseenType DEF Unseen, Device, Kinds
<1>4. Tells(Merged(results[a], device), seen'[a])
  <2>1. CASE replies
    <3>1. /\ device.evidence = {"ping"} /\ device.mac = NoMac /\ device.named = FALSE
          /\ device.live <=> "ping" \in {"ping", "local"}
      BY <2>1 DEF Unseen
    <3>2. "ping" \in Kinds
      BY DEF Kinds
    <3> HIDE DEF device
    <3>3. Tells(Merged(results[a], device), seen[a] \cup {Sighting("ping", NoMac)})
      BY <1>0, <1>1, <1>3, <3>1, <3>2, SaysMore
    <3> QED
      BY <1>2, <2>1, <3>3
  <2>2. CASE ~replies
    <3>1. device = Unseen /\ seen'[a] = seen[a]
      BY <1>2, <2>2
    <3> HIDE DEF device
    <3> QED
      BY <1>0, <1>1, <3>1, MergedUnseen
  <2> QED
    BY <2>1, <2>2
<1>5. cached \in Device /\ Merged(results[a], cached) = Merged(results[a], device)
  <2> HIDE DEF device
  <2> QED
    BY <1>0, <1>3 DEF Merged, Known, Device
<1>6. cached.evidence = {} => Merged(results[a], cached) = results[a]
  <2>1. cached.evidence = device.evidence
    BY <1>3 DEF Device
  <2> QED
    BY <1>0, <1>3, <1>5, <2>1, MergedUnseen
<1>7. CASE results[a].mac # NoMac
  <2>1. Collect(a, cached)
    BY <1>7 DEF PingAnswers
  <2> HIDE DEF device, cached
  <2>2. Tells(Merged(results[a], cached), seen'[a])
    BY <1>4, <1>5
  <2>3. /\ Collected(a)'
        /\ \A b \in Addresses : b # a => /\ at'[b] = at[b] /\ part'[b] = part[b]
                                         /\ results'[b] = results[b]
    BY <1>5, <1>6, <2>1, <2>2, CollectTells
  <2>4. \A b \in Addresses : OnItsWay(b)'
    BY <1>1, <1>5, <2>1, CollectShows
  <2>5. \A b \in Addresses : Collected(b)'
    BY <1>2, <2>3, OthersCollected
  <2> QED
    BY <2>4, <2>5
<1>8. CASE results[a].mac = NoMac
  <2>1. /\ at' = [at EXCEPT ![a] = "slot"] /\ part' = [part EXCEPT ![a] = device]
        /\ UNCHANGED <<results, posts>>
    BY <1>8 DEF PingAnswers, Goes
  <2> HIDE DEF device, cached
  <2>2. /\ at'[a] = "slot" /\ part'[a] = device
        /\ \A b \in Addresses : b # a => at'[b] = at[b] /\ part'[b] = part[b]
    BY <2>1 DEF TypeOK
  <2>3. WithoutMac(device) = device
    BY <1>3 DEF WithoutMac, Device
  <2>4. Collected(a)'
    BY <1>3, <1>4, <2>1, <2>2, <2>3 DEF Collected
  <2>5. \A b \in Addresses : Collected(b)'
    BY <1>2, <2>1, <2>2, <2>4, OthersCollected
  <2> QED
    BY <1>1, <2>1, <2>5, UnchangedShows
<1> QED
  BY <1>7, <1>8

LEMMA ArpTells ==
    ASSUME TypeOK, NEW a \in Addresses, ArpAnswers(a), ~cancelled,
           \A b \in Addresses : OnItsWay(b) /\ Collected(b)
    PROVE  \A b \in Addresses : OnItsWay(b)' /\ Collected(b)'
<1> DEFINE mac == part[a].mac
           before == WithoutMac(part[a])
           device == IF mac = NoMac THEN part[a]
                     ELSE [part[a] EXCEPT !.evidence = @ \cup {"arp"}]
           more == IF mac = NoMac THEN {} ELSE {Sighting("arp", mac)}
<1>0. /\ results[a] \in Device /\ part[a] \in Device /\ seen[a] \in SUBSET Sightings
      /\ mac \in Macs \cup {NoMac}
  BY DEF TypeOK, Device
<1>1. /\ rows' = rows /\ Collect(a, device) /\ SeesAt(a, more)
      /\ Tells(Merged(results[a], before), seen[a])
      /\ part[a].evidence = {} => before = Unseen
  BY DEF ArpAnswers, Collected
<1>2. seen'[a] = seen[a] \cup more /\ \A b \in Addresses : b # a => seen'[b] = seen[b]
  BY <1>1 DEF SeesAt, TypeOK
<1>3. before \in Device /\ Merged(results[a], before) \in Device
  BY <1>0 DEF WithoutMac, Merged, Known, Device
<1>4. CASE mac = NoMac
  <2>1. device = before /\ device \in Device /\ more = {}
    BY <1>0, <1>4 DEF WithoutMac, Device
  <2> HIDE DEF before, device, more
  <2>2. Tells(Merged(results[a], device), seen'[a])
    BY <1>1, <1>2, <2>1
  <2>3. device.evidence = {} => Merged(results[a], device) = results[a]
    BY <1>0, <1>1, <2>1, MergedUnseen DEF before, WithoutMac, Device
  <2>4. /\ Collected(a)'
        /\ \A b \in Addresses : b # a => /\ at'[b] = at[b] /\ part'[b] = part[b]
                                         /\ results'[b] = results[b]
    BY <1>1, <2>1, <2>2, <2>3, CollectTells
  <2> QED
    BY <1>1, <1>2, <2>1, <2>4, CollectShows, OthersCollected
<1>5. CASE mac # NoMac
  <2> DEFINE new == [evidence |-> {"arp"}, mac |-> mac, live |-> FALSE, named |-> FALSE]
  <2>1. /\ device = [part[a] EXCEPT !.evidence = @ \cup {"arp"}]
        /\ device \in Device /\ device.evidence # {}
        /\ more = {Sighting("arp", mac)}
    BY <1>0, <1>5 DEF Device, Kinds
  <2>2. /\ new \in Device
        /\ Tells(Merged(Merged(results[a], before), new), seen[a] \cup {Sighting("arp", mac)})
    <3>1. "arp" \in Kinds
      BY DEF Kinds
    <3> HIDE DEF before, mac
    <3>2. new \in Device
      BY <1>0, <3>1 DEF Device
    <3>3. /\ new.evidence = {"arp"} /\ new.mac = mac /\ new.named = FALSE
          /\ new.live <=> "arp" \in {"ping", "local"}
      OBVIOUS
    <3> HIDE DEF new
    <3> QED
      BY <1>0, <1>1, <1>3, <3>1, <3>2, <3>3, SaysMore
  <2>3. Merged(Merged(results[a], before), new) = Merged(results[a], device)
    BY <1>0, <1>5, <2>1, <2>2 DEF Merged, Known, WithoutMac, Device
  <2> HIDE DEF before, device, more, new
  <2>4. Tells(Merged(results[a], device), seen'[a])
    BY <1>2, <2>1, <2>2, <2>3
  <2>5. /\ Collected(a)'
        /\ \A b \in Addresses : b # a => /\ at'[b] = at[b] /\ part'[b] = part[b]
                                         /\ results'[b] = results[b]
    BY <1>1, <2>1, <2>4, CollectTells
  <2> QED
    BY <1>1, <1>2, <2>1, <2>5, CollectShows, OthersCollected
<1> QED
  BY <1>4, <1>5

LEMMA DnsTells ==
    ASSUME TypeOK, NEW a \in Addresses, NEW named \in BOOLEAN, DnsAnswers(a, named), ~cancelled,
           \A b \in Addresses : OnItsWay(b) /\ Collected(b)
    PROVE  \A b \in Addresses : OnItsWay(b)' /\ Collected(b)'
<1>0. results[a] \in Device /\ part[a] \in Device /\ seen[a] \in SUBSET Sightings
  BY DEF TypeOK
<1>1. /\ at' = [at EXCEPT ![a] = "checked"] /\ UNCHANGED <<part, rows>>
      /\ Tells(results[a], seen[a])
      /\ part[a].evidence \subseteq results[a].evidence
      /\ part[a].mac = results[a].mac
      /\ part[a].live => results[a].live
  BY DEF DnsAnswers, Goes, Collected
<1>2. \A b \in Addresses : at'[b] = IF b = a THEN "checked" ELSE at[b]
  BY <1>1 DEF TypeOK
<1>3. /\ seen'[a] = seen[a] \cup (IF named THEN {Sighting("name", NoMac)} ELSE {})
      /\ \A b \in Addresses : b # a => seen'[b] = seen[b]
  BY DEF DnsAnswers, SeesAt, TypeOK
<1>4. CASE named
  <2> DEFINE device == [part[a] EXCEPT !.named = TRUE]
             new == [Unseen EXCEPT !.named = TRUE]
  <2>1. Publish(Only(a, device))
    BY <1>4 DEF DnsAnswers
  <2>2. device \in Device
    BY <1>0 DEF Device
  <2>3. /\ results'[a] = Merged(results[a], device)
        /\ \A b \in Addresses : b # a => results'[b] = results[b]
    BY <2>1, <2>2, OnlyResults
  <2>4. Merged(results[a], device) = Merged(results[a], new)
    BY <1>0, <1>1 DEF Merged, Known, Device, Unseen
  <2>5. Tells(Merged(results[a], new), seen[a] \cup {Sighting("name", NoMac)})
    <3>1. /\ new \in Device /\ new.evidence = {} /\ new.mac = NoMac
          /\ new.named = TRUE /\ new.live = FALSE
      BY DEF Unseen, Device
    <3>2. /\ Sighting("name", NoMac) \in Sightings
          /\ Sighting("name", NoMac).kind = "name" /\ Sighting("name", NoMac).mac = NoMac
      BY DEF Sighting, Sightings
    <3>3. {"name"} \cap Kinds = {}
      BY DEF Kinds
    <3> HIDE DEF new
    <3>4. /\ new.named <=> Sighting("name", NoMac).kind = "name"
          /\ new.live <=> Sighting("name", NoMac).kind \in {"ping", "local"}
      BY <3>1, <3>2
    <3> QED
      BY <1>0, <1>1, <3>1, <3>2, <3>3, <3>4, TellsMore
  <2> HIDE DEF device, new
  <2>6. Tells(results'[a], seen'[a])
    BY <1>3, <1>4, <2>3, <2>4, <2>5
  <2>7. Collected(a)'
    BY <1>2, <2>6 DEF Collected
  <2>8. \A b \in Addresses : Collected(b)'
    BY <1>1, <1>2, <1>3, <2>3, <2>7, OthersCollected
  <2>9. \A b \in Addresses : OnItsWay(b)'
    BY <1>1, <2>1, <2>2, OnlyType, PublishShows
  <2> QED
    BY <2>8, <2>9
<1>5. CASE ~named
  <2>1. UNCHANGED <<results, posts>> /\ seen'[a] = seen[a]
    BY <1>3, <1>5 DEF DnsAnswers
  <2>2. \A b \in Addresses : Collected(b)'
    BY <1>1, <1>2, <1>3, <2>1 DEF Collected
  <2> QED
    BY <1>1, <2>1, <2>2, UnchangedShows
<1> QED
  BY <1>4, <1>5

(* The cache adds what it lists to the addresses that no check is at.        *)
LEMMA NeighborsTell ==
    ASSUME TypeOK, CallsInv, NEW table \in Tables, MergeNeighbors(table), ~cancelled,
           \A b \in Addresses : OnItsWay(b) /\ Collected(b)
    PROVE  \A b \in Addresses : OnItsWay(b)' /\ Collected(b)'
<1> DEFINE listed == {a \in Addresses : table[a] # NoMac}
           news == [a \in listed |-> Cached(table[a])]
<1>1. /\ Publish(news) /\ UNCHANGED <<at, part, rows>>
      /\ seen' = [a \in Addresses |-> seen[a] \cup
                    (IF a \in listed THEN {Sighting("cache", table[a])} ELSE {})]
      /\ phase # "addresses"
  BY DEF MergeNeighbors, Sees
<1>2. \A a \in Addresses : table[a] \in Macs \cup {NoMac}
  OBVIOUS
<1>3. listed \in SUBSET Addresses /\ news \in [listed -> Device]
  BY UnseenType DEF Cached, Unseen, Device, Kinds
<1> HIDE DEF news
<1>4. \A b \in Addresses : OnItsWay(b)'
  BY <1>1, <1>3, PublishShows
<1>5. Reported(listed, news)
  BY <1>1, <1>3, PublishStep
<1>6. results' = [a \in Addresses |-> IF a \in listed THEN Merged(results[a], news[a])
                                      ELSE results[a]]
  BY <1>5, Zenon DEF Reported
<1>7. ASSUME NEW a \in Addresses PROVE Collected(a)'
  <2>0. results[a] \in Device /\ seen[a] \in SUBSET Sightings
    BY DEF TypeOK
  <2>1. at[a] \in {"todo", "checked"} /\ Tells(results[a], seen[a])
    BY <1>1 DEF TypeOK, CallsInv, Collected, Awaits
  <2>2. CASE a \in listed
    <3>1. /\ news[a].evidence = {"cache"} /\ news[a].mac = table[a] /\ news[a].named = FALSE
          /\ news[a].live <=> "cache" \in {"ping", "local"}
      BY <2>2 DEF news, Cached, Unseen
    <3>2. "cache" \in Kinds
      BY DEF Kinds
    <3>3. Tells(Merged(results[a], news[a]), seen[a] \cup {Sighting("cache", table[a])})
      BY <1>2, <1>3, <2>0, <2>1, <2>2, <3>1, <3>2, SaysMore
    <3>4. Tells(results'[a], seen'[a])
      BY <1>1, <1>6, <2>2, <3>3
    <3> QED
      BY <1>1, <2>1, <3>4 DEF Collected
  <2>3. CASE a \notin listed
    <3>1. results'[a] = results[a] /\ seen'[a] = seen[a]
      BY <1>1, <1>6, <2>3
    <3> QED
      BY <1>1, <2>1, <3>1 DEF Collected
  <2> QED
    BY <2>2, <2>3
<1> QED
  BY <1>4, <1>7

LEMMA RowsStep == TypeOK /\ CallsInv /\ RowsInv /\ [Next]_vars => RowsInv'
<1> SUFFICES ASSUME TypeOK, CallsInv, RowsInv, [Next]_vars PROVE RowsInv'
  OBVIOUS
<1> DEFINE Kept == \A b \in Addresses : OnItsWay(b) /\ Collected(b)
           Quiet == /\ phase \in {"idle", "loading", "interfaces"} => posts = <<>>
                    /\ phase \in {"loading", "interfaces", "neighbors", "again"} => outcome # "failed"
<1>0. RowsInv <=> Quiet /\ (Clean => Kept)
  BY DEF RowsInv
<1>1. CASE Scan
  <2>1. UNCHANGED posts /\ posts = <<>> /\ ~Clean' /\ outcome' = "none"
    BY <1>1 DEF Scan, RowsInv, screen, Clean
  <2> QED
    BY <2>1 DEF RowsInv
<1>2. CASE Cancel \/ Interrupted \/ Refused
  <2>1. UNCHANGED posts /\ ~Clean'
    BY <1>2 DEF Cancel, Interrupted, Refused, Ends, screen, Clean
  <2>2. \/ UNCHANGED <<phase, outcome>>
        \/ phase' = "done"
    BY <1>2 DEF Cancel, Interrupted, Refused, Ends
  <2> QED
    BY <2>1, <2>2 DEF RowsInv
<1>3. CASE Loaded
  <2>1. /\ \A a \in Addresses : /\ at'[a] = "todo" /\ results'[a] = Unseen
                                /\ rows'[a] = Unseen /\ seen'[a] = {}
        /\ posts' = <<>> /\ outcome' # "failed"
    BY <1>3 DEF Loaded, RowsInv
  <2>2. TellsEach(Unseen, {})
    BY DEF TellsEach, Unseen
  <2>3. Tells(Unseen, {})
    BY <2>2, UnseenType, TellsIsEach
  <2>4. \A a \in Addresses : Collected(a)'
    BY <2>1, <2>3 DEF Collected
  <2>5. \A a \in Addresses : OnItsWay(a)'
    <3>1. 1..Len(posts') = {}
      BY <2>1, EmptySeq
    <3>2. \A a \in Addresses : rows'[a] = results'[a]
      BY <2>1
    <3> QED
      BY <3>1, <3>2, Zenon DEF OnItsWay
  <2> QED
    BY <2>1, <2>4, <2>5 DEF RowsInv
<1>4. CASE InterfaceStillThere \/ AddressesEnd \/ ScanEnds \/ UNCHANGED vars
  <2>1. UNCHANGED <<at, part, results, posts, rows, seen>>
    BY <1>4 DEF InterfaceStillThere, AddressesEnd, ScanEnds, vars, checks, screen
  <2>2. Quiet'
    BY <1>4 DEF InterfaceStillThere, AddressesEnd, ScanEnds, Ends, Stopping, vars, view, screen, RowsInv
  <2>3. Clean' => Clean
    BY <1>4 DEF InterfaceStillThere, AddressesEnd, ScanEnds, Ends, Stopping, vars, view, Clean
  <2>4. Clean' => Kept'
    BY <2>1, <2>3, UnchangedShows DEF RowsInv, Collected
  <2> QED
    BY <2>2, <2>4 DEF RowsInv
<1>5. CASE Show
  <2>1. UNCHANGED <<phase, cancelled, outcome, at, part, results, seen>> /\ posts # <<>>
    BY <1>5 DEF Show, view, checks
  <2>2. Clean' => Kept'
    BY <1>5, <2>1, ShowShows DEF RowsInv, Clean, Collected
  <2> QED
    BY <2>1, <2>2 DEF RowsInv
<1>6. ASSUME NEW table \in Tables, MergeNeighbors(table) PROVE RowsInv'
  <2>1. Clean' => Clean /\ ~cancelled
    BY <1>6 DEF MergeNeighbors, Ends, Clean, RowsInv
  <2>2. phase' \in {"addresses", "done"}
    BY <1>6 DEF MergeNeighbors, Ends
  <2> QED
    BY <1>6, <2>1, <2>2, NeighborsTell DEF RowsInv
<1>7. ASSUME NEW a \in Addresses, Check(a) PROVE RowsInv'
  <2>1. CASE ProbeThrows(a)
    BY <2>1 DEF ProbeThrows, RowsInv, CallsInv, Awaits, Clean, screen
  <2>2. CASE StopCheck(a)
    BY <2>2 DEF StopCheck, Stopping, RowsInv, Clean, view, screen
  <2>3. ASSUME NEW yes \in BOOLEAN,
               StartCheck(a) \/ ArpAnswers(a) \/ PingAnswers(a, yes) \/ DnsAnswers(a, yes)
        PROVE  RowsInv'
    <3>1. UNCHANGED view
      BY <2>3 DEF StartCheck, ArpAnswers, PingAnswers, DnsAnswers
    <3>2. phase = "addresses"
      BY <2>3 DEF StartCheck, ArpAnswers, PingAnswers, DnsAnswers, CallsInv, Awaits
    <3>3. Clean' => Clean /\ ~cancelled
      BY <3>1 DEF Clean, view
    <3>4. Clean' => Kept'
      BY <2>3, <3>3, StartTells, ArpTells, PingTells, DnsTells DEF RowsInv
    <3> QED
      BY <3>1, <3>2, <3>4 DEF RowsInv, view
  <2> QED
    BY <1>7, <2>1, <2>2, <2>3 DEF Check
<1>8. ASSUME NEW a \in Addresses, TakeSlot(a) PROVE RowsInv'
  <2>1. /\ UNCHANGED <<view, part, results, posts, rows, seen>>
        /\ at[a] = "slot" /\ at' = [at EXCEPT ![a] = "arp"]
    BY <1>8 DEF TakeSlot, Goes, screen
  <2>2. \A b \in Addresses : at'[b] = IF b = a THEN "arp" ELSE at[b]
    BY <2>1 DEF TypeOK
  <2>3. \A b \in Addresses : Collected(b) => Collected(b)'
    BY <2>1, <2>2 DEF Collected
  <2> QED
    BY <2>1, <2>3, UnchangedShows DEF RowsInv, Clean, view
<1>9. ASSUME NEW call \in calls, CallStarts(call) PROVE RowsInv'
  <2>1. UNCHANGED <<view, at, part, results, posts, rows, seen>>
    BY <1>9 DEF CallStarts, checks, screen
  <2> QED
    BY <2>1, UnchangedShows DEF RowsInv, Clean, view, Collected
<1>10. ASSUME NEW call \in calls, NEW mac \in Macs \cup {NoMac}, CallReturns(call, mac)
       PROVE  RowsInv'
  <2>1. UNCHANGED <<view, results, posts, rows, seen>> /\ call.address \in Addresses
    BY <1>10 DEF CallReturns, screen, TypeOK
  <2>2. \A b \in Addresses : Collected(b) => Collected(b)'
    <3>1. CASE Awaited(call)
      <4>1. /\ at[call.address] = "arp" /\ at' = [at EXCEPT ![call.address] = "answered"]
            /\ part' = [part EXCEPT ![call.address].mac = mac]
        BY <1>10, <3>1 DEF CallReturns, Awaited, Goes
      <4>2. \A b \in Addresses : at'[b] = IF b = call.address THEN "answered" ELSE at[b]
        BY <2>1, <4>1 DEF TypeOK
      <4>3. \A b \in Addresses : b # call.address => part'[b] = part[b]
        BY <2>1, <4>1 DEF TypeOK
      <4>4. part'[call.address] = [part[call.address] EXCEPT !.mac = mac]
        BY <2>1, <4>1 DEF TypeOK
      <4>5. /\ WithoutMac(part'[call.address]) = WithoutMac(part[call.address])
            /\ part'[call.address].evidence = part[call.address].evidence
        <5>1. part[call.address] \in Device
          BY <2>1 DEF TypeOK
        <5> QED
          BY <4>4, <5>1 DEF WithoutMac, Device
      <4> QED
        BY <2>1, <4>1, <4>2, <4>3, <4>5 DEF Collected
    <3>2. CASE ~Awaited(call)
      BY <1>10, <2>1, <3>2 DEF CallReturns, Collected
    <3> QED
      BY <3>1, <3>2
  <2> QED
    BY <2>1, <2>2, UnchangedShows DEF RowsInv, Clean, view
<1> QED
  BY <1>1, <1>2, <1>3, <1>4, <1>5, <1>6, <1>7, <1>8, <1>9, <1>10 DEF Next, Prepares, Neighbors

(* The rows of a complete scan tell all the network answered, and no more.    *)
THEOREM RowsComplete == Spec => []RowsTellAll
<1>1. Init => RowsInv
  <2> SUFFICES ASSUME Init PROVE RowsInv
    OBVIOUS
  <2>1. /\ \A a \in Addresses : /\ at[a] = "todo" /\ results[a] = Unseen
                                /\ rows[a] = Unseen /\ seen[a] = {}
        /\ posts = <<>> /\ outcome = "none"
    BY DEF Init
  <2>2. TellsEach(Unseen, {})
    BY DEF TellsEach, Unseen
  <2>3. Tells(Unseen, {})
    BY <2>2, UnseenType, TellsIsEach
  <2>4. \A a \in Addresses : Collected(a)
    BY <2>1, <2>3 DEF Collected
  <2>5. \A a \in Addresses : OnItsWay(a)
    <3>1. 1..Len(posts) = {}
      BY <2>1, EmptySeq
    <3>2. \A a \in Addresses : rows[a] = results[a]
      BY <2>1
    <3> QED
      BY <3>1, <3>2, Zenon DEF OnItsWay
  <2> QED
    BY <2>1, <2>4, <2>5 DEF RowsInv
<1>2. Init => CallsInv
  BY CallsInit
<1>3. TypeOK /\ CallsInv /\ RowsInv => RowsTellAll
  <2> SUFFICES ASSUME TypeOK, CallsInv, RowsInv, phase = "idle", outcome = "complete", ~cancelled,
                      NEW a \in Addresses
               PROVE  Tells(rows[a], seen[a])
    BY DEF RowsTellAll
  <2>1. posts = <<>> /\ OnItsWay(a) /\ Collected(a) /\ at[a] \notin Awaits
    BY DEF RowsInv, Clean, CallsInv
  <2>2. rows[a] = results[a]
    BY <2>1 DEF OnItsWay
  <2>3. Tells(results[a], seen[a])
    BY <2>1 DEF Collected, TypeOK, Awaits
  <2> QED
    BY <2>2, <2>3
<1> QED
  BY <1>1, <1>2, <1>3, RowsStep, CallsStep, TypeCorrect, PTL DEF Spec
=============================================================================
