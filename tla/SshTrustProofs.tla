---------------------------- MODULE SshTrustProofs ----------------------------
(* Theorems about SshTrust, for every number of servers, keys and windows.   *)
EXTENDS SshTrust, TLAPS

USE TrustAssumption

(* A fresh connection record is well typed and idle.                         *)
LEMMA UnusedType ==
    ASSUME NEW h \in Endpoints
    PROVE  /\ Unused(h) \in Connection
           /\ Unused(h).phase = "idle" /\ Unused(h).known = {}
           /\ Unused(h).reviewed = None /\ Unused(h).host = h
  BY DEF Unused, Connection

(* What an approved host key implies: it was in the snapshot, or it is the   *)
(* key that the user reviewed.                                               *)
LEMMA ApprovedKey ==
    ASSUME NEW known, NEW incoming, NEW reviewed,
           \/ EvaluateIdentity(known, incoming, reviewed) = "Trusted"
           \/ EvaluateIdentity(known, incoming, reviewed) = "Unknown" /\ reviewed # None
    PROVE  incoming \in known \/ (reviewed # None /\ reviewed = incoming.key)
  BY DEF EvaluateIdentity, Evaluate

(* A record that TrustAsync stores is the only one of its host afterwards.   *)
LEMMA EvaluatedAgainst ==
    ASSUME NEW known, NEW incoming, Evaluate(known, incoming) # "Changed"
    PROVE  incoming \in known \/ \A k \in known : k.host # incoming.host
  BY DEF Evaluate

-----------------------------------------------------------------------------
(* Every reachable state is well typed, and a connection past its host key   *)
(* has one.                                                                  *)
THEOREM TypeCorrect == Spec => []TypeOK
<1>1. Init => TypeOK
  BY UnusedType DEF Init, TypeOK
<1>2. TypeOK /\ [Next]_vars => TypeOK'
  <2> SUFFICES ASSUME TypeOK, [Next]_vars PROVE TypeOK'
    OBVIOUS
  <2>0. \A c \in Connections : conn[c] \in Connection /\ conn[c].host \in Endpoints
    BY DEF TypeOK, Connection
  <2>1. ASSUME NEW c \in Connections, NEW h \in Endpoints, Begin(c, h) PROVE TypeOK'
    BY <2>1, UnusedType DEF TypeOK, Begin, Connection, Unused
  <2>2. ASSUME NEW c \in Connections, ListKnown(c) PROVE TypeOK'
    BY <2>2 DEF TypeOK, ListKnown, Connection
  <2>3. ASSUME NEW c \in Connections, HostKeyApproved(c) \/ HostKeyUnknown(c) PROVE TypeOK'
    <3>1. Presented(c).key \in Keys
      BY <2>0 DEF Presented, TypeOK
    <3> QED
      BY <2>3, <3>1 DEF TypeOK, HostKeyApproved, HostKeyUnknown, Connection
  <2>4. ASSUME NEW c \in Connections, Accept(c) PROVE TypeOK'
    <3> DEFINE record == [host |-> conn[c].host, key |-> conn[c].key]
    <3>1. record \in KnownHost /\ record.key # None
      BY <2>0, <2>4 DEF Accept, TypeOK, Connection, KnownHost
    <3>2. [Unused(record.host) EXCEPT !.phase = "listing", !.reviewed = record.key]
             \in Connection
      BY <3>1 DEF Unused, Connection, KnownHost
    <3> QED
      BY <2>4, <3>1, <3>2 DEF TypeOK, Accept, Unused
  <2>5. ASSUME NEW c \in Connections, Authenticate(c) PROVE TypeOK'
    BY <2>5 DEF TypeOK, Authenticate, Connection
  <2>6. ASSUME NEW c \in Connections, Trust(c) PROVE TypeOK'
    <3>1. [host |-> conn[c].host, key |-> conn[c].key] \in KnownHost
      BY <2>0, <2>6 DEF Trust, TypeOK, Connection, KnownHost
    <3> DEFINE record == [host |-> conn[c].host, key |-> conn[c].key]
               known == {k \in conn[c].known : k.host # record.host} \cup {record}
               next == [conn[c] EXCEPT !.phase = "connected", !.known = known]
    <3>2. /\ conn' = [conn EXCEPT ![c] = next] /\ file' = file \cup {record}
          /\ UNCHANGED <<serverKey, accepted, standing>> /\ conn[c].phase = "trusting"
      BY <2>0, <2>6 DEF Trust, TypeOK
    <3>3. known \in SUBSET KnownHost
      BY <2>0, <3>1 DEF Connection
    <3> HIDE DEF known
    <3>4. next \in Connection /\ next.key = conn[c].key
      BY <2>0, <3>3 DEF Connection
    <3> HIDE DEF next
    <3>5. conn[c].key # None
      BY <3>2 DEF TypeOK
    <3> HIDE DEF record
    <3> QED
      BY <3>1, <3>2, <3>4, <3>5 DEF TypeOK, record
  <2>7. ASSUME NEW c \in Connections, Rekey(c) PROVE TypeOK'
    <3>1. Presented(c).key \in Keys
      BY <2>0 DEF Presented, TypeOK
    <3>2. conn[c].host \in Endpoints
      BY <2>0
    <3>3. CASE TrustOf(c) = "Trusted"
      BY <2>7, <3>1, <3>3 DEF TypeOK, Rekey, Connection
    <3>4. CASE TrustOf(c) # "Trusted"
      BY <2>7, <3>2, <3>4, UnusedType DEF TypeOK, Rekey
    <3> QED
      BY <3>3, <3>4
  <2>8. ASSUME NEW c \in Connections, End(c) PROVE TypeOK'
    BY <2>0, <2>8, UnusedType DEF TypeOK, End
  <2>9. ASSUME NEW record \in KnownHost, Remove(record) PROVE TypeOK'
    BY <2>9 DEF TypeOK, Remove
  <2>10. ASSUME NEW h \in Endpoints, NEW k \in Keys, ServerChangesKey(h, k) PROVE TypeOK'
    BY <2>10 DEF TypeOK, ServerChangesKey
  <2>11. CASE Crash
    BY <2>0, <2>11, UnusedType DEF TypeOK, Crash
  <2>12. CASE UNCHANGED vars
    BY <2>12 DEF TypeOK, vars
  <2> QED
    BY <2>1, <2>2, <2>3, <2>4, <2>5, <2>6, <2>7, <2>8, <2>9, <2>10, <2>11, <2>12 DEF Next
<1> QED
  BY <1>1, <1>2, PTL DEF Spec

(* However many windows store keys at once, the file never holds two keys of *)
(* one host: TrustAsync evaluates against the file itself, not the snapshot. *)
THEOREM FileHasOneKeyPerHost == Spec => []OneKeyPerHost
<1>1. Init => OneKeyPerHost
  BY DEF Init, OneKeyPerHost
<1>2. OneKeyPerHost /\ [Next]_vars => OneKeyPerHost'
  <2> SUFFICES ASSUME OneKeyPerHost, [Next]_vars PROVE OneKeyPerHost'
    OBVIOUS
  <2>1. ASSUME NEW c \in Connections, Trust(c) PROVE OneKeyPerHost'
    <3> DEFINE record == [host |-> conn[c].host, key |-> conn[c].key]
    <3>1. Evaluate(file, record) # "Changed" /\ file' = file \cup {record}
      BY <2>1 DEF Trust, TrustRecords
    <3>2. record \in file \/ \A k \in file : k.host # record.host
      BY <3>1, EvaluatedAgainst
    <3> HIDE DEF record
    <3> QED
      BY <3>1, <3>2 DEF OneKeyPerHost
  <2>2. ASSUME NEW record \in KnownHost, Remove(record) PROVE OneKeyPerHost'
    BY <2>2 DEF Remove, OneKeyPerHost
  <2>3. ASSUME UNCHANGED file PROVE OneKeyPerHost'
    BY <2>3 DEF OneKeyPerHost
  <2> QED
    BY <2>1, <2>2, <2>3 DEF Next, vars, Begin, ListKnown, HostKeyApproved, HostKeyUnknown,
        Accept, Authenticate, Rekey, End, ServerChangesKey, Crash
<1> QED
  BY <1>1, <1>2, PTL DEF Spec

-----------------------------------------------------------------------------
(* OnlyAcceptedKeys is not inductive: what a connection may approve later    *)
(* depends on the snapshot it read and on the key it carries as reviewed, so *)
(* both must already be accepted.                                            *)
AcceptedInv ==
    /\ file \subseteq accepted
    /\ \A c \in Connections :
        /\ conn[c].known \subseteq accepted
        /\ conn[c].reviewed # None => [host |-> conn[c].host, key |-> conn[c].reviewed] \in accepted
        /\ conn[c].phase \in {"authenticating", "trusting", "connected"}
             => [host |-> conn[c].host, key |-> conn[c].key] \in accepted

(* No key the user did not accept for the host is used or stored.            *)
THEOREM KeysAreAccepted == Spec => []OnlyAcceptedKeys
<1>1. Init => AcceptedInv
  BY UnusedType DEF Init, AcceptedInv
<1>2. TypeOK /\ AcceptedInv /\ [Next]_vars => AcceptedInv'
  <2> SUFFICES ASSUME TypeOK, AcceptedInv, [Next]_vars PROVE AcceptedInv'
    OBVIOUS
  <2>0. \A c \in Connections : conn[c] \in Connection /\ conn[c].host \in Endpoints
    BY DEF TypeOK, Connection
  <2>1. ASSUME NEW c \in Connections, NEW h \in Endpoints, Begin(c, h) PROVE AcceptedInv'
    BY <2>1, UnusedType DEF AcceptedInv, TypeOK, Begin, Unused, Connection
  <2>2. ASSUME NEW c \in Connections, ListKnown(c) PROVE AcceptedInv'
    BY <2>0, <2>2 DEF AcceptedInv, TypeOK, ListKnown, Connection
  <2>3. ASSUME NEW c \in Connections, HostKeyApproved(c) PROVE AcceptedInv'
    <3>1. Presented(c).host = conn[c].host
      BY DEF Presented
    <3>2. \/ Presented(c) \in conn[c].known
          \/ conn[c].reviewed # None /\ conn[c].reviewed = Presented(c).key
      BY <2>3, ApprovedKey DEF HostKeyApproved, TrustOf
    <3>3. [host |-> conn[c].host, key |-> Presented(c).key] \in accepted
      BY <3>1, <3>2 DEF AcceptedInv, Presented
    <3> QED
      BY <2>0, <2>3, <3>3 DEF AcceptedInv, TypeOK, HostKeyApproved, Connection
  <2>4. ASSUME NEW c \in Connections, HostKeyUnknown(c) PROVE AcceptedInv'
    BY <2>0, <2>4 DEF AcceptedInv, TypeOK, HostKeyUnknown, Connection
  <2>5. ASSUME NEW c \in Connections, Accept(c) PROVE AcceptedInv'
    BY <2>0, <2>5, UnusedType DEF AcceptedInv, TypeOK, Accept, Unused, Connection
  <2>6. ASSUME NEW c \in Connections, Authenticate(c) PROVE AcceptedInv'
    BY <2>0, <2>6 DEF AcceptedInv, TypeOK, Authenticate, Connection
  <2>7. ASSUME NEW c \in Connections, Trust(c) PROVE AcceptedInv'
    <3> DEFINE record == [host |-> conn[c].host, key |-> conn[c].key]
    <3>1. record \in accepted
      BY <2>7 DEF AcceptedInv, Trust
    <3>2. file' = file \cup {record} /\ accepted' = accepted
      BY <2>7 DEF Trust
    <3>3. \A b \in Connections :
            /\ conn'[b].host = conn[b].host /\ conn'[b].key = conn[b].key
            /\ conn'[b].reviewed = conn[b].reviewed
            /\ conn'[b].known \subseteq conn[b].known \cup {record}
            /\ b # c => conn'[b].phase = conn[b].phase
      BY <2>0, <2>7 DEF Trust, TypeOK, Connection
    <3> HIDE DEF record
    <3>4. file' \subseteq accepted'
      BY <3>1, <3>2 DEF AcceptedInv
    <3>5. ASSUME NEW b \in Connections
          PROVE  /\ conn'[b].known \subseteq accepted'
                 /\ conn'[b].reviewed # None
                      => [host |-> conn'[b].host, key |-> conn'[b].reviewed] \in accepted'
                 /\ conn'[b].phase \in {"authenticating", "trusting", "connected"}
                      => [host |-> conn'[b].host, key |-> conn'[b].key] \in accepted'
      BY <3>1, <3>2, <3>3 DEF AcceptedInv, record
    <3> QED
      BY <3>4, <3>5 DEF AcceptedInv
  <2>8. ASSUME NEW c \in Connections, Rekey(c) PROVE AcceptedInv'
    <3>1. CASE TrustOf(c) = "Trusted"
      <4>1. \/ Presented(c) \in conn[c].known
            \/ conn[c].reviewed # None /\ conn[c].reviewed = Presented(c).key
        BY <3>1, ApprovedKey DEF TrustOf
      <4>2. [host |-> conn[c].host, key |-> Presented(c).key] \in accepted
        BY <4>1 DEF AcceptedInv, Presented
      <4> QED
        BY <2>0, <2>8, <3>1, <4>2 DEF AcceptedInv, TypeOK, Rekey, Connection
    <3>2. CASE TrustOf(c) # "Trusted"
      BY <2>0, <2>8, <3>2, UnusedType DEF AcceptedInv, TypeOK, Rekey
    <3> QED
      BY <3>1, <3>2
  <2>9. ASSUME NEW c \in Connections, End(c) PROVE AcceptedInv'
    BY <2>0, <2>9, UnusedType DEF AcceptedInv, TypeOK, End
  <2>10. ASSUME NEW record \in KnownHost, Remove(record) PROVE AcceptedInv'
    BY <2>10 DEF AcceptedInv, Remove
  <2>11. CASE Crash
    BY <2>0, <2>11, UnusedType DEF AcceptedInv, TypeOK, Crash
  <2>12. ASSUME UNCHANGED <<file, conn, accepted>> PROVE AcceptedInv'
    BY <2>12 DEF AcceptedInv
  <2> QED
    BY <2>1, <2>2, <2>3, <2>4, <2>5, <2>6, <2>7, <2>8, <2>9, <2>10, <2>11, <2>12
       DEF Next, vars, ServerChangesKey
<1>3. AcceptedInv => OnlyAcceptedKeys
  BY DEF AcceptedInv, OnlyAcceptedKeys
<1> QED
  BY <1>1, <1>2, <1>3, TypeCorrect, PTL DEF Spec

-----------------------------------------------------------------------------
(* The records a session holds name its own key and no other of its host.    *)
SessionInv ==
    \A c \in Connections : conn[c].phase = "connected" =>
        \A k \in conn[c].known : k.host = conn[c].host => k.key = conn[c].key

(* A re-key cannot change the key of a session.                              *)
THEOREM SessionsKeepTheirKey == Spec => SessionKeepsItsKey
<1>1. Init => SessionInv
  BY UnusedType DEF Init, SessionInv
<1>2. ASSUME TypeOK, SessionInv, NEW c \in Connections, Rekey(c), TrustOf(c) = "Trusted"
      PROVE  Presented(c).key = conn[c].key
  <2>1. Presented(c) \in conn[c].known
    BY <1>2 DEF TrustOf, EvaluateIdentity, Evaluate
  <2>2. Presented(c).host = conn[c].host
    BY DEF Presented
  <2> QED
    BY <1>2, <2>1, <2>2 DEF SessionInv, Rekey
<1>3. TypeOK /\ SessionInv /\ [Next]_vars => SessionInv'
  <2> SUFFICES ASSUME TypeOK, SessionInv, [Next]_vars PROVE SessionInv'
    OBVIOUS
  <2>0. \A c \in Connections : conn[c] \in Connection /\ conn[c].host \in Endpoints
    BY DEF TypeOK, Connection
  <2>1. ASSUME NEW c \in Connections, NEW h \in Endpoints, Begin(c, h) PROVE SessionInv'
    BY <2>1 DEF SessionInv, TypeOK, Begin, Unused
  <2>2. ASSUME NEW c \in Connections,
               ListKnown(c) \/ HostKeyApproved(c) \/ HostKeyUnknown(c) \/ Accept(c)
                 \/ Authenticate(c)
        PROVE SessionInv'
    <3>1. conn'[c].phase # "connected"
      <4>1. CASE ListKnown(c)
        BY <2>0, <4>1 DEF TypeOK, Connection, ListKnown
      <4>2. CASE HostKeyApproved(c) \/ HostKeyUnknown(c)
        BY <2>0, <4>2 DEF TypeOK, Connection, HostKeyApproved, HostKeyUnknown
      <4>3. CASE Accept(c)
        BY <2>0, <4>3 DEF TypeOK, Connection, Accept, Unused
      <4>4. CASE Authenticate(c)
        BY <2>0, <4>4 DEF TypeOK, Connection, Authenticate
      <4> QED
        BY <2>2, <4>1, <4>2, <4>3, <4>4
    <3>2. \A b \in Connections \ {c} : conn'[b] = conn[b]
      BY <2>2 DEF TypeOK, ListKnown, HostKeyApproved, HostKeyUnknown, Accept, Authenticate
    <3> QED
      BY <3>1, <3>2 DEF SessionInv
  <2>3. ASSUME NEW c \in Connections, Trust(c) PROVE SessionInv'
    BY <2>0, <2>3 DEF SessionInv, TypeOK, Trust, Connection
  <2>4. ASSUME NEW c \in Connections, Rekey(c) PROVE SessionInv'
    <3>1. CASE TrustOf(c) = "Trusted"
      <4>1. Presented(c).key = conn[c].key
        BY <1>2, <2>4, <3>1
      <4> QED
        BY <2>0, <2>4, <3>1, <4>1 DEF SessionInv, TypeOK, Rekey, Connection
    <3>2. CASE TrustOf(c) # "Trusted"
      BY <2>0, <2>4, <3>2, UnusedType DEF SessionInv, TypeOK, Rekey
    <3> QED
      BY <3>1, <3>2
  <2>5. ASSUME NEW c \in Connections, End(c) PROVE SessionInv'
    BY <2>0, <2>5, UnusedType DEF SessionInv, TypeOK, End
  <2>6. CASE Crash
    BY <2>0, <2>6, UnusedType DEF SessionInv, TypeOK, Crash
  <2>7. ASSUME UNCHANGED conn PROVE SessionInv'
    BY <2>7 DEF SessionInv
  <2> QED
    BY <2>1, <2>2, <2>3, <2>4, <2>5, <2>6, <2>7 DEF Next, vars, Remove, ServerChangesKey
<1>4. TypeOK /\ SessionInv /\ [Next]_vars =>
        [\A c \in Connections :
            conn[c].phase = "connected" /\ conn'[c].phase = "connected"
               => conn'[c].key = conn[c].key]_vars
  <2> SUFFICES ASSUME TypeOK, SessionInv, Next, NEW c \in Connections,
                      conn[c].phase = "connected", conn'[c].phase = "connected"
               PROVE  conn'[c].key = conn[c].key
    OBVIOUS
  <2>0. \A b \in Connections : conn[b] \in Connection /\ conn[b].host \in Endpoints
    BY DEF TypeOK, Connection
  <2>1. ASSUME NEW b \in Connections, Rekey(b) PROVE conn'[c].key = conn[c].key
    <3>1. CASE TrustOf(b) = "Trusted"
      <4>1. Presented(b).key = conn[b].key
        BY <1>2, <2>1, <3>1
      <4> QED
        BY <2>0, <2>1, <3>1, <4>1 DEF TypeOK, Rekey, Connection
    <3>2. CASE TrustOf(b) # "Trusted"
      BY <2>0, <2>1, <3>2, UnusedType DEF TypeOK, Rekey
    <3> QED
      BY <3>1, <3>2
  <2>2. ASSUME NEW b \in Connections, Trust(b) PROVE conn'[c].key = conn[c].key
    BY <2>0, <2>2 DEF TypeOK, Trust, Connection
  <2>3. ASSUME NEW b \in Connections, NEW h \in Endpoints, Begin(b, h)
        PROVE  conn'[c].key = conn[c].key
    BY <2>0, <2>3 DEF TypeOK, Begin, Unused
  <2>4. ASSUME NEW b \in Connections,
               ListKnown(b) \/ HostKeyApproved(b) \/ HostKeyUnknown(b) \/ Accept(b)
                 \/ Authenticate(b)
        PROVE conn'[c].key = conn[c].key
    BY <2>0, <2>4 DEF TypeOK, Connection, ListKnown, HostKeyApproved, HostKeyUnknown,
        Accept, Authenticate, Unused
  <2>5. ASSUME NEW b \in Connections, End(b) PROVE conn'[c].key = conn[c].key
    BY <2>0, <2>5, UnusedType DEF TypeOK, End
  <2>6. CASE Crash
    BY <2>0, <2>6, UnusedType DEF Crash
  <2> QED
    BY <2>1, <2>2, <2>3, <2>4, <2>5, <2>6 DEF Next, Remove, ServerChangesKey
<1> QED
  BY <1>1, <1>3, <1>4, TypeCorrect, PTL DEF Spec, SessionKeepsItsKey
=============================================================================
