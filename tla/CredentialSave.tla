---------------------------- MODULE CredentialSave ----------------------------
(***************************************************************************)
(* Saving and deleting credentials over two stores that share no            *)
(* transaction: the metadata in SQLite and the secret in Windows Credential *)
(* Manager.  CredentialSaveService compensates: the secret is written       *)
(* first, then the metadata, and when either throws (having taken effect or *)
(* not) both are put back independently.  Deletion, in                      *)
(* ConnectionsViewModel, removes the metadata first and puts back its list  *)
(* row when the secret cannot be removed.  The process may crash anywhere.  *)
(*                                                                          *)
(* A secret carries, as history, the authentication kind it was saved for.  *)
(***************************************************************************)
EXTENDS Naturals, FiniteSets

CONSTANTS
    Ids,            (* credential GUIDs                                       *)
    Users,          (* label, user name and key path, as one value            *)
    Values,         (* passwords and passphrases                              *)
    Callers,        (* who saves                                              *)
    None,           (* no metadata, no secret                                 *)
    RowsMayLag      (* TRUE: the list on screen may be older than the store,  *)
                    (* because the reload after a save failed                 *)

Kinds == {"Password", "PrivateKey"}
Metadata == [auth: Kinds, user: Users]
Secret == [kind: Kinds, value: Values]
Request == [id: Ids, new: Metadata, replace: BOOLEAN, value: Values]

ASSUME CredentialAssumption ==
    /\ None \notin Metadata
    /\ None \notin Secret \cup Request
    /\ None \notin Callers \cup Ids
    /\ RowsMayLag \in BOOLEAN

VARIABLES
    meta,       (* the credentials table                                      *)
    secret,     (* Windows Credential Manager                                 *)
    save,       (* the call of each caller                                    *)
    gate,       (* the caller inside the service's semaphore, or None         *)
    deletion,   (* the deletion of the connections view                       *)
    rows,       (* the credential list of the connections view                *)
    reported    (* ids whose user was told of a failed restoration, or whose  *)
                (* operation a crash cut short                                *)

vars == <<meta, secret, save, gate, deletion, rows, reported>>

(* `before` is history: both stores when the call began to change them.      *)
Snapshot == [meta: Metadata \cup {None}, secret: Secret \cup {None}]
NoSave == [phase |-> "idle", request |-> None, prior |-> None, priorSecret |-> None,
           tried |-> FALSE, repair |-> FALSE, result |-> "none", before |-> None]
NoDeletion == [phase |-> "idle", id |-> None, row |-> None]

Mutating == {"secret", "metadata", "undoSecret", "undoMetadata"}
Phases == {"idle", "waiting", "reading", "checking"} \cup Mutating
Saves == [phase: Phases, request: Request \cup {None}, prior: Metadata \cup {None},
          priorSecret: Secret \cup {None}, tried: BOOLEAN, repair: BOOLEAN,
          result: {"none", "saved", "restored", "repair", "rejected"},
          before: Snapshot \cup {None}]
Deletions == [phase: {"idle", "secret", "restore"}, id: Ids \cup {None},
              row: Metadata \cup {None}]

(* Every variable has its type; and whoever is past the gate holds it.       *)
TypeOK ==
    /\ meta \in [Ids -> Metadata \cup {None}]
    /\ secret \in [Ids -> Secret \cup {None}]
    /\ save \in [Callers -> Saves]
    /\ gate \in Callers \cup {None}
    /\ deletion \in Deletions
    /\ rows \in [Ids -> Metadata \cup {None}]
    /\ reported \subseteq Ids
    /\ \A c \in Callers :
        /\ save[c].phase # "idle" => save[c].request # None
        /\ save[c].phase \notin {"idle", "waiting"} <=> gate = c
    /\ deletion.phase # "idle" => deletion.id # None /\ deletion.row # None

Init ==
    /\ meta = [i \in Ids |-> None]
    /\ secret = [i \in Ids |-> None]
    /\ save = [c \in Callers |-> NoSave]
    /\ gate = None
    /\ deletion = NoDeletion
    /\ rows = [i \in Ids |-> None]
    /\ reported = {}

(* What SaveAsync decides from the prior record.                             *)
ChangesSecretOnReplace(prior, request) == request.replace     \* faulty variant
ChangesSecret(prior, request) ==
    request.replace \/ (prior # None /\ prior.auth # request.new.auth)
SecretAfter(request) ==
    IF request.replace THEN [kind |-> request.new.auth, value |-> request.value] ELSE None

-----------------------------------------------------------------------------
(* SaveAsync: up to the first mutation everything may be rejected, by a      *)
(* cancellation, a store that cannot be read or the service's own checks.    *)

Begin(c, request) ==
    /\ save[c].phase = "idle" /\ deletion.phase = "idle"
    /\ save' = [save EXCEPT ![c] = [NoSave EXCEPT !.phase = "waiting", !.request = request]]
    /\ UNCHANGED <<meta, secret, gate, deletion, rows, reported>>

GateAlwaysOpen == TRUE                                        \* faulty variant
GateOpen == gate = None

Enter(c) ==
    /\ save[c].phase = "waiting" /\ GateOpen
    /\ gate' = c
    /\ save' = [save EXCEPT ![c].phase = "reading"]
    /\ UNCHANGED <<meta, secret, deletion, rows, reported>>

ReadPrior(c) ==
    /\ save[c].phase = "reading"
    /\ save' = [save EXCEPT ![c].phase = "checking",
                            ![c].prior = meta[save[c].request.id]]
    /\ UNCHANGED <<meta, secret, gate, deletion, rows, reported>>

(* A new identifier must have no secret yet, and a password must be there or *)
(* come with the call.                                                       *)
Permits(prior, request, old) ==
    /\ prior = None => old = None
    /\ request.new.auth = "Password" /\ ~request.replace
         => prior # None /\ prior.auth = "Password" /\ old # None

Check(c) ==
    LET s == save[c]
        old == secret[s.request.id]
    IN /\ s.phase = "checking"
       /\ Permits(s.prior, s.request, old)
       /\ save' = [save EXCEPT
             ![c].phase = IF ChangesSecret(s.prior, s.request) THEN "secret" ELSE "metadata",
             ![c].before = [meta |-> meta[s.request.id], secret |-> old],
             ![c].priorSecret = IF ChangesSecret(s.prior, s.request) THEN old ELSE None]
       /\ UNCHANGED <<meta, secret, gate, deletion, rows, reported>>

EndInsideGate(c, result) ==                                   \* faulty variant
    /\ save' = [save EXCEPT ![c] = [NoSave EXCEPT !.result = result]]
    /\ UNCHANGED gate
End(c, result) ==
    /\ save' = [save EXCEPT ![c] = [NoSave EXCEPT !.result = result]]
    /\ gate' = IF gate = c THEN None ELSE gate

(* Rejected: refused by the checks, unreadable, or cancelled in time.        *)
Reject(c) ==
    /\ save[c].phase \in {"waiting", "reading", "checking"}
    /\ End(c, "rejected")
    /\ UNCHANGED <<meta, secret, deletion, rows, reported>>
-----------------------------------------------------------------------------
(* From here on nothing is cancelled: the call finishes or compensates.  An  *)
(* operation that throws may have taken effect.                              *)

WriteSecret(c) ==
    LET r == save[c].request
        written == [secret EXCEPT ![r.id] = SecretAfter(r)]
    IN /\ save[c].phase = "secret"
       /\ \/ secret' = written /\ save' = [save EXCEPT ![c].phase = "metadata"]
          \/ secret' \in {secret, written} /\ save' = [save EXCEPT ![c].phase = "undoSecret"]
       /\ UNCHANGED <<meta, gate, deletion, rows, reported>>

(* The list is reloaded after a save.                                        *)
Reloaded == rows' \in {meta'} \cup (IF RowsMayLag THEN {rows} ELSE {})

SaveMetadata(c) ==
    LET s == save[c]
        r == s.request
    IN /\ s.phase = "metadata"
       /\ meta' = [meta EXCEPT ![r.id] = r.new]
       /\ End(c, "saved")
       /\ reported' = IF ChangesSecret(s.prior, r) THEN reported \ {r.id} ELSE reported
       /\ Reloaded
       /\ UNCHANGED <<secret, deletion>>

UndoPhase(s) == IF ChangesSecret(s.prior, s.request) THEN "undoSecret" ELSE "undoMetadata"
SaveMetadataThrows(c) ==
    LET r == save[c].request
    IN /\ save[c].phase = "metadata"
       /\ meta' \in {meta, [meta EXCEPT ![r.id] = r.new]}
       /\ save' = [save EXCEPT ![c].phase = UndoPhase(save[c]), ![c].tried = TRUE]
       /\ UNCHANGED <<secret, gate, deletion, rows, reported>>

(* The last restoration ends the call.                                       *)
Compensated(c, repair) ==
    /\ End(c, IF repair THEN "repair" ELSE "restored")
    /\ reported' = IF repair THEN reported \cup {save[c].request.id} ELSE reported

UndoSecret(c) ==
    LET s == save[c]
        restored == [secret EXCEPT ![s.request.id] = s.priorSecret]
    IN /\ s.phase = "undoSecret"
       /\ \E throws \in BOOLEAN :
            /\ secret' \in {restored} \cup (IF throws THEN {secret} ELSE {})
            /\ IF s.tried
               THEN /\ save' = [save EXCEPT ![c].phase = "undoMetadata", ![c].repair = throws]
                    /\ UNCHANGED <<gate, reported>>
               ELSE Compensated(c, throws)
       /\ UNCHANGED <<meta, deletion, rows>>

UndoMetadata(c) ==
    LET s == save[c]
        restored == [meta EXCEPT ![s.request.id] = s.prior]
    IN /\ s.phase = "undoMetadata"
       /\ \E throws \in BOOLEAN :
            /\ meta' \in {restored} \cup (IF throws THEN {meta} ELSE {})
            /\ Compensated(c, s.repair \/ throws)
       /\ UNCHANGED <<secret, deletion, rows>>

-----------------------------------------------------------------------------
(* DeleteCredentialAsync of the connections view, which its IsBusy keeps     *)
(* apart from saves.  A delete refused by a profile's foreign key, or that   *)
(* fails before the secret, changes nothing.                                 *)

StartDelete(i) ==
    /\ deletion.phase = "idle" /\ \A c \in Callers : save[c].phase = "idle"
    /\ rows[i] # None
    /\ meta' = [meta EXCEPT ![i] = None]
    /\ deletion' = [phase |-> "secret", id |-> i, row |-> rows[i]]
    /\ UNCHANGED <<secret, save, gate, rows, reported>>

DeleteSecret ==
    /\ deletion.phase = "secret"
    /\ secret' = [secret EXCEPT ![deletion.id] = None]
    /\ deletion' = NoDeletion
    /\ reported' = reported \ {deletion.id}
    /\ UNCHANGED <<meta, save, gate>>
    /\ Reloaded

DeleteSecretFails ==
    /\ deletion.phase = "secret"
    /\ deletion' = [deletion EXCEPT !.phase = "restore"]
    /\ UNCHANGED <<meta, secret, save, gate, rows, reported>>

RestoreRow ==
    /\ deletion.phase = "restore"
    /\ \/ /\ meta' = [meta EXCEPT ![deletion.id] = deletion.row]
          /\ UNCHANGED reported
       \/ /\ reported' = reported \cup {deletion.id}
          /\ UNCHANGED meta
    /\ deletion' = NoDeletion
    /\ UNCHANGED <<secret, save, gate, rows>>

-----------------------------------------------------------------------------
Busy(i) == \/ deletion.id = i
           \/ \E c \in Callers : save[c].phase \in Mutating /\ save[c].request.id = i

(* The snapshots live in memory only: a crash leaves the stores as they are. *)
Crash ==
    /\ save' = [c \in Callers |-> NoSave]
    /\ gate' = None
    /\ deletion' = NoDeletion
    /\ rows' = meta
    /\ reported' = reported \cup {i \in Ids : Busy(i)}
    /\ UNCHANGED <<meta, secret>>

SaveStep(c) ==
    \/ ReadPrior(c) \/ Check(c) \/ Reject(c)
    \/ WriteSecret(c) \/ SaveMetadata(c) \/ SaveMetadataThrows(c)
    \/ UndoSecret(c) \/ UndoMetadata(c)

Next ==
    \/ \E c \in Callers, request \in Request : Begin(c, request)
    \/ \E c \in Callers : Enter(c) \/ SaveStep(c)
    \/ \E i \in Ids : StartDelete(i)
    \/ DeleteSecret \/ DeleteSecretFails \/ RestoreRow
    \/ Crash

Spec == Init /\ [][Next]_vars

(* The stores answer, and the semaphore serves its waiters in turn; that a   *)
(* waiting save is cancelled is not assumed.                                 *)
FairSpec ==
    /\ Spec
    /\ \A c \in Callers : /\ WF_vars(save[c].phase # "waiting" /\ SaveStep(c))
                          /\ SF_vars(Enter(c))

-----------------------------------------------------------------------------
(* A save that reports that the previous state was restored has restored     *)
(* both stores to what they held when it began to change them; one that      *)
(* reports success has stored both halves of the request.                    *)
SaveIsAllOrNothing ==
    [][\A c \in Callers :
          LET s == save[c]
              i == s.request.id
          IN s.phase \in Mutating /\ save'[c].phase = "idle" =>
               /\ save'[c].result = "restored" =>
                    meta'[i] = s.before.meta /\ secret'[i] = s.before.secret
               /\ save'[c].result = "saved" =>
                    /\ meta'[i] = s.request.new
                    /\ secret'[i] = IF ChangesSecret(s.before.meta, s.request)
                                    THEN SecretAfter(s.request) ELSE s.before.secret]_vars

Settled(i) == ~Busy(i) /\ i \notin reported

(* Unless the user was told of a failed restoration, or a crash cut an       *)
(* operation short, no secret outlives its metadata, none is ever             *)
(* reinterpreted under another kind of authentication, and every stored       *)
(* password credential has a password.                                       *)
SecretsMatchMetadata ==
    \A i \in Ids : Settled(i) =>
        /\ secret[i] # None => meta[i] # None /\ meta[i].auth = secret[i].kind
        /\ meta[i] # None /\ meta[i].auth = "Password" => secret[i] # None

(* Every save ends, however the stores fail and whoever holds the gate.      *)
SavesEnd == \A c \in Callers : save[c].phase = "waiting" ~> save[c].phase = "idle"
=============================================================================
