------------------------------- MODULE SshTrust -------------------------------
(***************************************************************************)
(* Whom an SSH connection trusts: the known-hosts file, the connection      *)
(* attempts that read it once when they begin, ask the user about a key     *)
(* they do not know, and store the key only after authentication, and the   *)
(* user who removes records meanwhile.  Servers may change their key at any *)
(* time, also between the attempt that is reviewed and the one that follows *)
(* it.  The file's updates are one step each: they run behind a semaphore   *)
(* and replace the file atomically, so a crash loses or keeps all of one.   *)
(***************************************************************************)
EXTENDS FiniteSets

CONSTANTS
    Endpoints,      (* host and port, normalised by Identify                  *)
    Keys,           (* algorithm and public key, as one value                 *)
    Connections,    (* terminal windows                                       *)
    None            (* no key                                                 *)

ASSUME TrustAssumption == None \notin Keys

VARIABLES
    file,       (* the records of known-hosts.json                            *)
    serverKey,  (* the key each server presents                               *)
    conn,       (* the connection of each terminal window                     *)
    accepted,   (* history: the records the user ever accepted                *)
    standing    (* history: those the user did not remove since               *)

vars == <<file, serverKey, conn, accepted, standing>>

KnownHost == [host: Endpoints, key: Keys]
Connection ==
    [phase: {"idle", "listing", "connecting", "review", "authenticating", "trusting", "connected"},
     host: Endpoints, known: SUBSET KnownHost,
     reviewed: Keys \cup {None},    \* the key the user accepted for this attempt
     key: Keys \cup {None}]         \* the key under review, or approved by the callback
Unused(h) == [phase |-> "idle", host |-> h, known |-> {}, reviewed |-> None, key |-> None]

(* Every variable has its type, and a connection past its host key has one.  *)
TypeOK ==
    /\ file \subseteq KnownHost
    /\ serverKey \in [Endpoints -> Keys]
    /\ conn \in [Connections -> Connection]
    /\ \A c \in Connections :
          conn[c].phase \in {"review", "authenticating", "trusting", "connected"}
             => conn[c].key # None
    /\ accepted \subseteq KnownHost
    /\ standing \subseteq accepted

Init ==
    /\ file = {}
    /\ serverKey \in [Endpoints -> Keys]
    /\ conn \in [Connections -> {Unused(h) : h \in Endpoints}]
    /\ accepted = {}
    /\ standing = {}

(* KnownHostsStore.Evaluate.                                                 *)
EvaluateHostOnly(known, incoming) ==                          \* faulty variant
    IF \A k \in known : k.host # incoming.host THEN "Unknown" ELSE "Trusted"
Evaluate(known, incoming) ==
    IF \A k \in known : k.host # incoming.host THEN "Unknown"
    ELSE IF incoming \in known THEN "Trusted"
    ELSE "Changed"

EvaluateIdentityAnyKey(known, incoming, reviewed) ==          \* faulty variant
    Evaluate(known, incoming)
EvaluateIdentity(known, incoming, reviewed) ==
    IF reviewed # None /\ reviewed # incoming.key THEN "Changed"
    ELSE Evaluate(known, incoming)

-----------------------------------------------------------------------------
Begin(c, h) ==
    /\ conn[c].phase = "idle"
    /\ conn' = [conn EXCEPT ![c] = [Unused(h) EXCEPT !.phase = "listing"]]
    /\ UNCHANGED <<file, serverKey, accepted, standing>>

(* ConnectAttemptAsync reads the records once, before it connects.           *)
ListKnown(c) ==
    /\ conn[c].phase = "listing"
    /\ conn' = [conn EXCEPT ![c].known = file, ![c].phase = "connecting"]
    /\ UNCHANGED <<file, serverKey, accepted, standing>>

Presented(c) == [host |-> conn[c].host, key |-> serverKey[conn[c].host]]
TrustOf(c) == EvaluateIdentity(conn[c].known, Presented(c), conn[c].reviewed)

(* HostKeyReceived while connecting: go on, ask the user, or give up.  The   *)
(* connection that asks is closed before the user is asked.                  *)
HostKeyApproved(c) ==
    /\ conn[c].phase = "connecting"
    /\ TrustOf(c) = "Trusted" \/ (TrustOf(c) = "Unknown" /\ conn[c].reviewed # None)
    /\ conn' = [conn EXCEPT ![c].phase = "authenticating", ![c].key = Presented(c).key]
    /\ UNCHANGED <<file, serverKey, accepted, standing>>

HostKeyUnknown(c) ==
    /\ conn[c].phase = "connecting"
    /\ TrustOf(c) = "Unknown" /\ conn[c].reviewed = None
    /\ conn' = [conn EXCEPT ![c].phase = "review", ![c].key = Presented(c).key]
    /\ UNCHANGED <<file, serverKey, accepted, standing>>

(* The user accepts: a second attempt, which insists on the reviewed key.    *)
Accept(c) ==
    LET record == [host |-> conn[c].host, key |-> conn[c].key]
    IN /\ conn[c].phase = "review"
       /\ conn' = [conn EXCEPT ![c] = [Unused(record.host) EXCEPT
                                         !.phase = "listing", !.reviewed = record.key]]
       /\ accepted' = accepted \cup {record}
       /\ standing' = standing \cup {record}
       /\ UNCHANGED <<file, serverKey>>

Authenticate(c) ==
    /\ conn[c].phase = "authenticating"
    /\ conn' = [conn EXCEPT ![c].phase = "trusting"]
    /\ UNCHANGED <<file, serverKey, accepted, standing>>

(* TrustAsync evaluates the approved key against the file as it is now.      *)
TrustRecordsOfAttempt(c) == conn[c].known                     \* faulty variant
TrustRecords(c) == file

Trust(c) ==
    LET record == [host |-> conn[c].host, key |-> conn[c].key]
    IN /\ conn[c].phase = "trusting"
       /\ Evaluate(TrustRecords(c), record) # "Changed"
       /\ file' = file \cup {record}
       /\ conn' = [conn EXCEPT ![c].phase = "connected",
             ![c].known = {k \in @ : k.host # record.host} \cup {record}]
       /\ UNCHANGED <<serverKey, accepted, standing>>

(* The attempt or the session ends: a changed key (also when the session is  *)
(* re-keyed), a declined review, a failed login, a timeout, a cancellation,  *)
(* an unreadable file, or the window is closed.                              *)
End(c) ==
    /\ conn[c].phase # "idle"
    /\ conn' = [conn EXCEPT ![c] = Unused(conn[c].host)]
    /\ UNCHANGED <<file, serverKey, accepted, standing>>

(* A re-key keeps the session only when the approved key is presented again; *)
(* the callback evaluates it against the records the session holds.          *)
Rekey(c) ==
    /\ conn[c].phase = "connected"
    /\ conn' = [conn EXCEPT ![c] =
          IF TrustOf(c) = "Trusted" THEN [@ EXCEPT !.key = Presented(c).key]
          ELSE Unused(@.host)]
    /\ UNCHANGED <<file, serverKey, accepted, standing>>

(* The user removes a record of the list, confirmed by its fingerprint.      *)
Remove(record) ==
    /\ record \in file
    /\ file' = file \ {record}
    /\ standing' = standing \ {record}
    /\ UNCHANGED <<serverKey, conn, accepted>>

ServerChangesKey(h, k) ==
    /\ serverKey[h] # k
    /\ serverKey' = [serverKey EXCEPT ![h] = k]
    /\ UNCHANGED <<file, conn, accepted, standing>>

Crash ==
    /\ conn' = [c \in Connections |-> Unused(conn[c].host)]
    /\ UNCHANGED <<file, serverKey, accepted, standing>>

Next ==
    \/ \E c \in Connections, h \in Endpoints : Begin(c, h)
    \/ \E c \in Connections :
          \/ ListKnown(c) \/ HostKeyApproved(c) \/ HostKeyUnknown(c) \/ Accept(c)
          \/ Authenticate(c) \/ Trust(c) \/ Rekey(c) \/ End(c)
    \/ \E record \in KnownHost : Remove(record)
    \/ \E h \in Endpoints, k \in Keys : ServerChangesKey(h, k)
    \/ Crash

Spec == Init /\ [][Next]_vars

-----------------------------------------------------------------------------
(* However many windows review different keys of a server at once, the file  *)
(* holds at most one key per host and port: a change goes through a removal. *)
OneKeyPerHost ==
    \A a, b \in file : a.host = b.host => a = b

(* No key reaches authentication, a session or the file that the user has    *)
(* not accepted for this host, even if the server changes its key between    *)
(* the review and the attempt that follows it.                               *)
OnlyAcceptedKeys ==
    /\ file \subseteq accepted
    /\ \A c \in Connections :
          conn[c].phase \in {"authenticating", "trusting", "connected"}
             => [host |-> conn[c].host, key |-> conn[c].key] \in accepted

(* "Unknown keys require explicit approval": a record that the user removed  *)
(* comes back only when the user accepts it again.                           *)
RemovedStaysRemoved == file \subseteq standing

(* A session keeps the key it was approved with for as long as it lasts.     *)
SessionKeepsItsKey ==
    [][\A c \in Connections :
          conn[c].phase = "connected" /\ conn'[c].phase = "connected"
             => conn'[c].key = conn[c].key]_vars
=============================================================================
