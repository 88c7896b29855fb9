------------------------- MODULE CredentialSaveProofs -------------------------
(* Theorems about CredentialSave, for any credentials, secrets and callers:  *)
(* what the compensation of a save restores, and that the two stores agree   *)
(* about every credential nobody was warned of.                              *)
EXTENDS CredentialSave, TLAPS

USE CredentialAssumption

Touches(c) == save[c].phase \in Mutating
Target(c) == save[c].request.id
Changes(c) == ChangesSecret(save[c].prior, save[c].request)
Written(c) == IF Changes(c) THEN SecretAfter(save[c].request) ELSE save[c].before.secret

(* What a call past its checks remembers, and what it has done by now.       *)
CallInv(c) ==
    /\ save[c].phase \in {"waiting", "reading", "checking"} => ~save[c].tried /\ ~save[c].repair
    /\ save[c].phase = "checking" => save[c].prior = meta[Target(c)]
    /\ Touches(c) =>
        /\ save[c].before \in Snapshot
        /\ save[c].prior = save[c].before.meta
        /\ Permits(save[c].prior, save[c].request, save[c].before.secret)
        /\ Changes(c) => save[c].priorSecret = save[c].before.secret
    /\ save[c].phase = "secret" =>
        /\ Changes(c) /\ ~save[c].tried /\ ~save[c].repair
        /\ meta[Target(c)] = save[c].before.meta
        /\ secret[Target(c)] = save[c].before.secret
    /\ save[c].phase = "metadata" =>
        /\ ~save[c].repair
        /\ meta[Target(c)] = save[c].before.meta
        /\ secret[Target(c)] = Written(c)
    /\ save[c].phase = "undoSecret" =>
        /\ Changes(c) /\ ~save[c].repair
        /\ ~save[c].tried => meta[Target(c)] = save[c].before.meta
    /\ save[c].phase = "undoMetadata" /\ ~save[c].repair =>
        secret[Target(c)] = save[c].before.secret

(* The connections view deletes only while nobody saves, and the other way   *)
(* round.                                                                    *)
DeleteInv ==
    /\ \A c \in Callers : save[c].phase # "idle" => deletion.phase = "idle"
    /\ deletion.phase = "idle" => deletion.id = None
    /\ deletion.phase # "idle" => meta[deletion.id] = None

StoresInv == TypeOK /\ DeleteInv /\ \A c \in Callers : CallInv(c)

Fits(m, s) ==
    /\ s # None => m # None /\ m.auth = s.kind
    /\ m # None /\ m.auth = "Password" => s # None

(* The two halves of a credential fit, or those do to which the operation    *)
(* that works on it would go back; and the list on screen shows those.       *)
PairInv ==
    \A i \in Ids \ reported :
        /\ ~Busy(i) => Fits(meta[i], secret[i]) /\ rows[i] = meta[i]
        /\ deletion.id = i => Fits(deletion.row, secret[i]) /\ rows[i] = deletion.row
        /\ \A c \in Callers : Touches(c) /\ Target(c) = i =>
              Fits(save[c].before.meta, save[c].before.secret) /\ rows[i] = save[c].before.meta

-----------------------------------------------------------------------------
LEMMA InitStores == Init => StoresInv
  BY DEF Init, StoresInv, TypeOK, DeleteInv, CallInv, Touches, Mutating, NoSave, NoDeletion,
         Saves, Deletions, Phases

(* Whoever is past the gate is alone there.                                  *)
LEMMA Alone ==
    ASSUME TypeOK, NEW c \in Callers, save[c].phase \notin {"idle", "waiting"}
    PROVE  /\ gate = c /\ save[c].request \in Request /\ save[c] \in Saves
           /\ \A d \in Callers \ {c} : save[d].phase \in {"idle", "waiting"} /\ ~Touches(d)
  BY DEF TypeOK, Saves, Touches, Mutating

LEMMA BeginKeeps ==
    ASSUME StoresInv, NEW c \in Callers, NEW request \in Request, Begin(c, request)
    PROVE  StoresInv'
<1>1. /\ save' = [save EXCEPT ![c] = [NoSave EXCEPT !.phase = "waiting", !.request = request]]
      /\ UNCHANGED <<meta, secret, gate, deletion, rows, reported>>
      /\ save[c].phase = "idle" /\ deletion.phase = "idle"
  BY DEF Begin
<1>2. TypeOK'
  BY <1>1 DEF StoresInv, TypeOK, Saves, Phases, NoSave
<1>3. DeleteInv'
  BY <1>1 DEF StoresInv, TypeOK, DeleteInv
<1>4. ASSUME NEW d \in Callers PROVE CallInv(d)'
  BY <1>1 DEF StoresInv, TypeOK, CallInv, NoSave, Touches, Mutating, Target, Changes, Written
<1> QED
  BY <1>2, <1>3, <1>4 DEF StoresInv
(* Frames: what a step of one call at the gate leaves to prove.              *)
LEMMA StepFrame ==
    ASSUME StoresInv, NEW c \in Callers, save[c].phase \notin {"idle", "waiting"},
           TypeOK', UNCHANGED deletion, save'[c].phase # "waiting",
           \A d \in Callers \ {c} : save'[d] = save[d],
           CallInv(c)'
    PROVE  StoresInv'
<1>1. DeleteInv'
  BY DEF StoresInv, DeleteInv, TypeOK
<1>2. ASSUME NEW d \in Callers \ {c} PROVE CallInv(d)'
  BY Alone DEF StoresInv, CallInv, Touches, Mutating
<1> QED
  BY <1>1, <1>2 DEF StoresInv
LEMMA EnterKeeps ==
    ASSUME StoresInv, NEW c \in Callers, Enter(c)
    PROVE  StoresInv'
<1>1. /\ save' = [save EXCEPT ![c].phase = "reading"] /\ save[c].phase = "waiting"
      /\ gate = None /\ gate' = c
      /\ UNCHANGED <<meta, secret, deletion, rows, reported>>
  BY DEF Enter, GateOpen
<1>2. TypeOK'
  BY <1>1 DEF StoresInv, TypeOK, Saves, Phases
<1>3. DeleteInv'
  BY <1>1 DEF StoresInv, TypeOK, DeleteInv
<1>4. ASSUME NEW d \in Callers PROVE CallInv(d)'
  BY <1>1 DEF StoresInv, TypeOK, CallInv, Touches, Mutating
<1> QED
  BY <1>2, <1>3, <1>4 DEF StoresInv

(* A step at the gate that leaves a record of a call keeps the types.        *)
LEMMA GateTypes ==
    ASSUME TypeOK, NEW c \in Callers, NEW s \in Saves,
           save[c].phase \notin {"idle", "waiting"}, s.phase \notin {"idle", "waiting"},
           s.request # None, save' = [save EXCEPT ![c] = s],
           meta' \in [Ids -> Metadata \cup {None}], secret' \in [Ids -> Secret \cup {None}],
           UNCHANGED <<gate, deletion, rows, reported>>
    PROVE  TypeOK'
<1>1. save' \in [Callers -> Saves]
  BY DEF TypeOK
<1>2. save'[c] = s /\ \A d \in Callers \ {c} : save'[d] = save[d]
  BY DEF TypeOK
<1>3. ASSUME NEW d \in Callers
      PROVE  /\ save'[d].phase # "idle" => save'[d].request # None
             /\ save'[d].phase \notin {"idle", "waiting"} <=> gate' = d
  <2>1. /\ save[d].phase # "idle" => save[d].request # None
        /\ save[d].phase \notin {"idle", "waiting"} <=> gate = d
        /\ save[c].phase \notin {"idle", "waiting"} <=> gate = c
    BY DEF TypeOK
  <2>2. CASE d = c
    BY <1>2, <2>1, <2>2
  <2>3. CASE d # c
    BY <1>2, <2>1, <2>3
  <2> QED
    BY <2>2, <2>3
<1>4. /\ gate' \in Callers \cup {None} /\ deletion' \in Deletions
      /\ rows' \in [Ids -> Metadata \cup {None}] /\ reported' \subseteq Ids
      /\ deletion'.phase # "idle" => deletion'.id # None /\ deletion'.row # None
  BY DEF TypeOK
<1> QED
  BY <1>1, <1>3, <1>4 DEF TypeOK

LEMMA ReadKeeps ==
    ASSUME StoresInv, NEW c \in Callers, ReadPrior(c)
    PROVE  StoresInv'
<1>1. /\ save[c].phase = "reading"
      /\ save' = [save EXCEPT ![c].phase = "checking", ![c].prior = meta[save[c].request.id]]
      /\ UNCHANGED <<meta, secret, gate, deletion, rows, reported>>
  BY DEF ReadPrior
<1>2. save[c].request \in Request /\ save[c] \in Saves /\ gate = c
  BY <1>1, Alone DEF StoresInv
<1> DEFINE s == [save[c] EXCEPT !.phase = "checking", !.prior = meta[save[c].request.id]]
<1>5. /\ s \in Saves /\ s.phase = "checking" /\ s.request = save[c].request
      /\ s.prior = meta[save[c].request.id]
      /\ s.tried = save[c].tried /\ s.repair = save[c].repair
  <2>1. meta[save[c].request.id] \in Metadata \cup {None} /\ save[c].request # None
    BY <1>2, CredentialAssumption DEF StoresInv, TypeOK, Request
  <2> QED
    BY <1>2, <2>1 DEF Saves, Phases
<1>6. save' = [save EXCEPT ![c] = s]
  BY <1>1
<1> HIDE DEF s
<1>7. save'[c] = s /\ \A d \in Callers \ {c} : save'[d] = save[d]
  BY <1>6 DEF StoresInv, TypeOK
<1>3. TypeOK'
  <2>1. TypeOK /\ save[c].request # None
    BY <1>2, CredentialAssumption DEF StoresInv
  <2>2. meta' \in [Ids -> Metadata \cup {None}] /\ secret' \in [Ids -> Secret \cup {None}]
    BY <1>1, <2>1 DEF TypeOK
  <2>3. /\ save[c].phase \notin {"idle", "waiting"} /\ s.phase \notin {"idle", "waiting"}
        /\ s.request # None
        /\ UNCHANGED <<gate, deletion, rows, reported>>
    BY <1>1, <1>5, <2>1
  <2> QED
    BY <1>5, <1>6, <2>1, <2>2, <2>3, GateTypes
<1>4. CallInv(c)'
  <2>1. ~save[c].tried /\ ~save[c].repair
    BY <1>1 DEF StoresInv, CallInv
  <2>2. s.prior = meta'[Target(c)']
    BY <1>1, <1>5, <1>7 DEF Target
  <2> QED
    BY <1>5, <1>7, <2>1, <2>2 DEF CallInv, Touches, Mutating
<1>8. save[c].phase \notin {"idle", "waiting"} /\ save'[c].phase # "waiting" /\ UNCHANGED deletion
  BY <1>1, <1>5, <1>7
<1> QED
  BY <1>3, <1>4, <1>7, <1>8, StepFrame

(* The checks leave a call that knows both stores.                           *)
LEMMA CheckKeeps ==
    ASSUME StoresInv, NEW c \in Callers, Check(c)
    PROVE  StoresInv'
<1> DEFINE s == save[c]
           old == secret[s.request.id]
           changes == ChangesSecret(s.prior, s.request)
<1>1. /\ s.phase = "checking" /\ Permits(s.prior, s.request, old)
      /\ save' = [save EXCEPT
             ![c].phase = IF changes THEN "secret" ELSE "metadata",
             ![c].before = [meta |-> meta[s.request.id], secret |-> old],
             ![c].priorSecret = IF changes THEN old ELSE None]
      /\ UNCHANGED <<meta, secret, gate, deletion, rows, reported>>
  BY DEF Check
<1>2. s.request \in Request /\ s \in Saves /\ gate = c /\ s.prior = meta[s.request.id]
  BY <1>1, Alone DEF StoresInv, CallInv, Target
<1>3. old \in Secret \cup {None} /\ meta[s.request.id] \in Metadata \cup {None}
  BY <1>2 DEF StoresInv, TypeOK, Request
<1> DEFINE next == IF changes THEN "secret" ELSE "metadata"
           snapshot == [meta |-> meta[s.request.id], secret |-> old]
           kept == IF changes THEN old ELSE None
           t == [s EXCEPT !.phase = next, !.before = snapshot, !.priorSecret = kept]
<1>5. /\ snapshot \in Snapshot /\ kept \in Secret \cup {None} /\ next \in {"secret", "metadata"}
      /\ snapshot.meta = meta[s.request.id] /\ snapshot.secret = old
      /\ (next = "secret" <=> changes) /\ (changes => kept = old)
  BY <1>3 DEF Snapshot
<1>15. save' = [save EXCEPT ![c] = t]
  BY <1>1
<1> HIDE DEF next, snapshot, kept, old, changes
<1>16. /\ t \in Saves /\ t.phase = next /\ t.before = snapshot /\ t.priorSecret = kept
       /\ t.request = s.request /\ t.prior = s.prior
       /\ t.tried = s.tried /\ t.repair = s.repair
  BY <1>2, <1>5 DEF Saves, Phases, Mutating
<1> HIDE DEF t
<1>4. save'[c] = t /\ \A d \in Callers \ {c} : save'[d] = save[d]
  BY <1>15 DEF StoresInv, TypeOK
<1>6. TypeOK'
  <2>1. TypeOK /\ s.request # None
    BY <1>2, CredentialAssumption DEF StoresInv
  <2>2. meta' \in [Ids -> Metadata \cup {None}] /\ secret' \in [Ids -> Secret \cup {None}]
    BY <1>1, <2>1 DEF TypeOK
  <2>3. s.phase \notin {"idle", "waiting"} /\ t.phase \notin {"idle", "waiting"}
        /\ t.request # None /\ UNCHANGED <<gate, deletion, rows, reported>>
    BY <1>1, <1>5, <1>16, <2>1
  <2> QED
    BY <1>15, <1>16, <2>1, <2>2, <2>3, GateTypes
<1>7. /\ save'[c].phase \in {"secret", "metadata"}
      /\ save'[c].phase = "secret" <=> changes
      /\ save'[c].before = snapshot
      /\ changes => save'[c].priorSecret = old
      /\ save'[c].request = s.request /\ save'[c].prior = s.prior
      /\ save'[c].tried = s.tried /\ save'[c].repair = s.repair
  BY <1>4, <1>5, <1>16
<1>8. save'[c].before.meta = s.prior /\ save'[c].before.secret = old
  BY <1>2, <1>5, <1>7
<1>10. ~save'[c].tried /\ ~save'[c].repair
  <2>1. ~s.tried /\ ~s.repair
    BY <1>1 DEF StoresInv, CallInv
  <2> QED
    BY <1>7, <2>1
<1>9. (Changes(c)' <=> changes) /\ Target(c)' = s.request.id
  BY <1>7 DEF Changes, ChangesSecret, Target, changes
<1>12. /\ meta'[Target(c)'] = save'[c].before.meta /\ secret'[Target(c)'] = old
       /\ Permits(save'[c].prior, save'[c].request, save'[c].before.secret)
  BY <1>1, <1>2, <1>7, <1>8, <1>9 DEF old
<1>13. save'[c].before \in Snapshot /\ save'[c].prior = save'[c].before.meta
  BY <1>5, <1>7, <1>8
<1>11. CallInv(c)'
  <2>1. CASE changes
    BY <1>7, <1>8, <1>9, <1>10, <1>12, <1>13, <2>1 DEF CallInv, Touches, Mutating
  <2>2. CASE ~changes
    BY <1>7, <1>8, <1>9, <1>10, <1>12, <1>13, <2>2 DEF CallInv, Touches, Mutating, Written
  <2> QED
    BY <2>1, <2>2
<1>14. /\ save[c].phase \notin {"idle", "waiting"} /\ save'[c].phase # "waiting"
       /\ UNCHANGED deletion
  BY <1>1, <1>7
<1> QED
  BY <1>4, <1>6, <1>11, <1>14, StepFrame
(* A call that ends leaves the gate open and the others as they were.        *)
LEMMA EndKeeps ==
    ASSUME StoresInv, NEW c \in Callers, save[c].phase # "idle",
           NEW result \in {"saved", "restored", "repair", "rejected"}, End(c, result),
           meta' \in [Ids -> Metadata \cup {None}], secret' \in [Ids -> Secret \cup {None}],
           rows' \in [Ids -> Metadata \cup {None}], reported' \subseteq Ids,
           UNCHANGED deletion, save[c].phase = "waiting" => UNCHANGED <<meta, secret>>
    PROVE  StoresInv' /\ save'[c].phase = "idle" /\ save'[c].result = result
           /\ (\A d \in Callers \ {c} : save'[d] = save[d])
<1>1. /\ save' = [save EXCEPT ![c] = [NoSave EXCEPT !.result = result]]
      /\ gate' = IF gate = c THEN None ELSE gate
  BY DEF End
<1>2. [NoSave EXCEPT !.result = result] \in Saves
  BY DEF NoSave, Saves, Phases
<1>3. save'[c].phase = "idle" /\ save'[c].result = result
      /\ \A d \in Callers \ {c} : save'[d] = save[d]
  BY <1>1 DEF StoresInv, TypeOK, NoSave
<1>4. TypeOK'
  BY <1>1, <1>2, <1>3 DEF StoresInv, TypeOK
<1>5. DeleteInv'
  BY <1>3 DEF StoresInv, DeleteInv
<1>6. CallInv(c)'
  BY <1>3 DEF CallInv, Touches, Mutating
<1>7. ASSUME NEW d \in Callers \ {c} PROVE CallInv(d)'
  <2>1. CASE save[c].phase = "waiting"
    BY <1>3, <2>1 DEF StoresInv, CallInv, Touches, Target, Changes, Written
  <2>2. CASE save[c].phase # "waiting"
    BY <1>3, <2>2, Alone DEF StoresInv, CallInv, Touches, Mutating
  <2> QED
    BY <2>1, <2>2
<1> QED
  BY <1>3, <1>4, <1>5, <1>6, <1>7 DEF StoresInv

LEMMA RejectKeeps ==
    ASSUME StoresInv, NEW c \in Callers, Reject(c)
    PROVE  StoresInv'
  BY EndKeeps DEF Reject, StoresInv, TypeOK

LEMMA WriteSecretKeeps ==
    ASSUME StoresInv, NEW c \in Callers, WriteSecret(c)
    PROVE  StoresInv'
<1> DEFINE r == save[c].request
           written == [secret EXCEPT ![r.id] = SecretAfter(r)]
<1>1. /\ save[c].phase = "secret"
      /\ \/ secret' = written /\ save' = [save EXCEPT ![c].phase = "metadata"]
         \/ secret' \in {secret, written} /\ save' = [save EXCEPT ![c].phase = "undoSecret"]
      /\ UNCHANGED <<meta, gate, deletion, rows, reported>>
  BY DEF WriteSecret
<1>2. r \in Request /\ save[c] \in Saves /\ gate = c
  BY <1>1, Alone DEF StoresInv
<1>3. SecretAfter(r) \in Secret \cup {None}
  BY <1>2 DEF SecretAfter, Request, Secret, Metadata
<1>4. secret' \in [Ids -> Secret \cup {None}] /\ written[r.id] = SecretAfter(r)
  BY <1>1, <1>2, <1>3 DEF StoresInv, TypeOK, Request
<1>5. TypeOK'
  <2>1. PICK phase \in {"metadata", "undoSecret"} : save' = [save EXCEPT ![c].phase = phase]
    BY <1>1
  <2> DEFINE t == [save[c] EXCEPT !.phase = phase]
  <2>2. t \in Saves /\ t.phase = phase /\ t.request = r /\ r # None
    BY <1>2, CredentialAssumption DEF Saves, Phases, Mutating
  <2>3. save' = [save EXCEPT ![c] = t]
    BY <2>1
  <2> HIDE DEF t
  <2> QED
    BY <1>1, <1>4, <2>2, <2>3, GateTypes DEF StoresInv, TypeOK
<1>6. /\ \/ save'[c].phase = "metadata" /\ secret'[r.id] = SecretAfter(r)
         \/ save'[c].phase = "undoSecret"
      /\ save'[c].before = save[c].before /\ save'[c].priorSecret = save[c].priorSecret
      /\ save'[c].request = r /\ save'[c].prior = save[c].prior
      /\ save'[c].tried = save[c].tried /\ save'[c].repair = save[c].repair
      /\ \A d \in Callers \ {c} : save'[d] = save[d]
  BY <1>1, <1>2, <1>4 DEF StoresInv, TypeOK, Saves
<1>7. (Changes(c)' <=> Changes(c)) /\ Target(c)' = r.id
  BY <1>6 DEF Changes, ChangesSecret, Target
<1>8. CallInv(c) /\ Touches(c) /\ Changes(c)
  BY <1>1 DEF StoresInv, CallInv, Touches, Mutating
<1>9. Written(c)' = SecretAfter(r)
  BY <1>6, <1>7, <1>8 DEF Written
<1>10. CallInv(c)'
  BY <1>1, <1>6, <1>7, <1>8, <1>9 DEF CallInv, Touches, Mutating, Target
<1> QED
  BY <1>1, <1>5, <1>6, <1>10, StepFrame
LEMMA SaveMetadataKeeps ==
    ASSUME StoresInv, NEW c \in Callers, SaveMetadata(c)
    PROVE  StoresInv' /\ save'[c].phase = "idle" /\ save'[c].result = "saved"
           /\ (\A d \in Callers \ {c} : save'[d] = save[d])
<1> DEFINE r == save[c].request
<1>1. /\ save[c].phase = "metadata" /\ End(c, "saved")
      /\ meta' = [meta EXCEPT ![r.id] = r.new]
      /\ reported' \in {reported, reported \ {r.id}}
      /\ rows' \in {meta', rows}
      /\ UNCHANGED <<secret, deletion>>
  BY DEF SaveMetadata, Reloaded
<1>2. r \in Request
  BY <1>1, Alone DEF StoresInv
<1>3. meta' \in [Ids -> Metadata \cup {None}]
  BY <1>1, <1>2 DEF StoresInv, TypeOK, Request
<1>4. /\ secret' \in [Ids -> Secret \cup {None}] /\ rows' \in [Ids -> Metadata \cup {None}]
      /\ reported' \subseteq Ids
  BY <1>1, <1>3 DEF StoresInv, TypeOK
<1> QED
  BY <1>1, <1>3, <1>4, EndKeeps

LEMMA SaveMetadataThrowsKeeps ==
    ASSUME StoresInv, NEW c \in Callers, SaveMetadataThrows(c)
    PROVE  StoresInv'
<1> DEFINE r == save[c].request
<1>1. /\ save[c].phase = "metadata"
      /\ meta' \in {meta, [meta EXCEPT ![r.id] = r.new]}
      /\ save' = [save EXCEPT ![c].phase = UndoPhase(save[c]), ![c].tried = TRUE]
      /\ UNCHANGED <<secret, gate, deletion, rows, reported>>
  BY DEF SaveMetadataThrows
<1>2. r \in Request /\ save[c] \in Saves /\ gate = c
  BY <1>1, Alone DEF StoresInv
<1>3. meta' \in [Ids -> Metadata \cup {None}]
  BY <1>1, <1>2 DEF StoresInv, TypeOK, Request
<1>4. UndoPhase(save[c]) \in {"undoSecret", "undoMetadata"}
      /\ (UndoPhase(save[c]) = "undoSecret" <=> Changes(c))
  BY DEF UndoPhase, Changes
<1>5. TypeOK'
  <2> DEFINE t == [save[c] EXCEPT !.phase = UndoPhase(save[c]), !.tried = TRUE]
  <2>1. t \in Saves /\ t.phase = UndoPhase(save[c]) /\ t.request = r /\ r # None
    BY <1>2, <1>4, CredentialAssumption DEF Saves, Phases, Mutating
  <2>2. save' = [save EXCEPT ![c] = t]
    BY <1>1
  <2> HIDE DEF t
  <2> QED
    BY <1>1, <1>3, <1>4, <2>1, <2>2, GateTypes DEF StoresInv, TypeOK
<1>6. /\ save'[c].phase = UndoPhase(save[c]) /\ save'[c].tried
      /\ save'[c].before = save[c].before /\ save'[c].priorSecret = save[c].priorSecret
      /\ save'[c].request = r /\ save'[c].prior = save[c].prior
      /\ save'[c].repair = save[c].repair
      /\ \A d \in Callers \ {c} : save'[d] = save[d]
  BY <1>1, <1>2 DEF StoresInv, TypeOK, Saves
<1>7. (Changes(c)' <=> Changes(c)) /\ Target(c)' = r.id
  BY <1>6 DEF Changes, ChangesSecret, Target
<1>8. CallInv(c) /\ Touches(c)
  BY <1>1 DEF StoresInv, CallInv, Touches, Mutating
<1>9. CallInv(c)'
  <2>1. CASE Changes(c)
    BY <1>1, <1>4, <1>6, <1>7, <1>8, <2>1 DEF CallInv, Touches, Mutating, Target
  <2>2. CASE ~Changes(c)
    BY <1>1, <1>4, <1>6, <1>7, <1>8, <2>2 DEF CallInv, Touches, Mutating, Target, Written
  <2> QED
    BY <2>1, <2>2
<1> QED
  BY <1>1, <1>4, <1>5, <1>6, <1>9, StepFrame

(* What the call remembers fits the stores' types.                           *)
LEMMA Remembers ==
    ASSUME StoresInv, NEW c \in Callers, Touches(c)
    PROVE  /\ save[c].request \in Request /\ save[c] \in Saves /\ gate = c
           /\ save[c].prior \in Metadata \cup {None}
           /\ save[c].priorSecret \in Secret \cup {None}
           /\ Target(c) \in Ids /\ save[c].before \in Snapshot
  BY Alone DEF StoresInv, TypeOK, CallInv, Touches, Mutating, Saves, Target, Request

LEMMA UndoSecretKeeps ==
    ASSUME StoresInv, NEW c \in Callers, UndoSecret(c)
    PROVE  /\ StoresInv'
           /\ ~save[c].tried => save'[c].phase = "idle"
           /\ \A d \in Callers \ {c} : save'[d] = save[d]
<1> DEFINE i == Target(c)
           restored == [secret EXCEPT ![i] = save[c].priorSecret]
<1>1. PICK throws \in BOOLEAN :
        /\ save[c].phase = "undoSecret"
        /\ secret' \in {restored} \cup (IF throws THEN {secret} ELSE {})
        /\ IF save[c].tried
           THEN /\ save' = [save EXCEPT ![c].phase = "undoMetadata", ![c].repair = throws]
                /\ UNCHANGED <<gate, reported>>
           ELSE Compensated(c, throws)
        /\ UNCHANGED <<meta, deletion, rows>>
  BY DEF UndoSecret, Target
<1>2. Touches(c) /\ save[c].request \in Request /\ save[c] \in Saves /\ gate = c
      /\ save[c].priorSecret \in Secret \cup {None} /\ i \in Ids
  BY <1>1, Remembers DEF Touches, Mutating
<1>3. secret' \in [Ids -> Secret \cup {None}] /\ restored[i] = save[c].priorSecret
  BY <1>1, <1>2 DEF StoresInv, TypeOK
<1>4. CASE save[c].tried
  <2>1. save' = [save EXCEPT ![c].phase = "undoMetadata", ![c].repair = throws]
        /\ UNCHANGED <<gate, reported>>
    BY <1>1, <1>4
  <2>2. TypeOK'
    <3> DEFINE t == [save[c] EXCEPT !.phase = "undoMetadata", !.repair = throws]
    <3>1. /\ t \in Saves /\ t.phase = "undoMetadata" /\ t.request = save[c].request
          /\ save[c].request # None
      BY <1>2, CredentialAssumption DEF Saves, Phases, Mutating
    <3>2. save' = [save EXCEPT ![c] = t]
      BY <2>1
    <3> HIDE DEF t
    <3> QED
      BY <1>1, <1>3, <2>1, <3>1, <3>2, GateTypes DEF StoresInv, TypeOK
  <2>3. /\ save'[c].phase = "undoMetadata" /\ (save'[c].repair <=> throws)
        /\ save'[c].before = save[c].before /\ save'[c].priorSecret = save[c].priorSecret
        /\ save'[c].request = save[c].request /\ save'[c].prior = save[c].prior
        /\ \A d \in Callers \ {c} : save'[d] = save[d]
    BY <1>2, <2>1 DEF StoresInv, TypeOK, Saves
  <2>4. (Changes(c)' <=> Changes(c)) /\ Target(c)' = i
    BY <2>3 DEF Changes, ChangesSecret, Target
  <2>5. CallInv(c)
    BY DEF StoresInv
  <2>6. ~throws => secret'[i] = save[c].before.secret
    BY <1>1, <1>2, <1>3, <2>5 DEF CallInv
  <2>7. CallInv(c)'
    BY <1>1, <1>2, <2>3, <2>4, <2>5, <2>6 DEF CallInv, Touches, Mutating
  <2> QED
    BY <1>1, <1>4, <2>2, <2>3, <2>7, StepFrame
<1>5. CASE ~save[c].tried
  <2>1. End(c, IF throws THEN "repair" ELSE "restored")
        /\ reported' \in {reported, reported \cup {i}}
    BY <1>1, <1>5 DEF Compensated, Target
  <2>2. meta' \in [Ids -> Metadata \cup {None}] /\ rows' \in [Ids -> Metadata \cup {None}]
        /\ reported' \subseteq Ids
    BY <1>1, <1>2, <2>1 DEF StoresInv, TypeOK
  <2> QED
    BY <1>1, <1>3, <1>5, <2>1, <2>2, EndKeeps
<1> QED
  BY <1>4, <1>5
LEMMA UndoMetadataKeeps ==
    ASSUME StoresInv, NEW c \in Callers, UndoMetadata(c)
    PROVE  StoresInv' /\ save'[c].phase = "idle"
           /\ (\A d \in Callers \ {c} : save'[d] = save[d])
<1> DEFINE i == Target(c)
<1>1. PICK throws \in BOOLEAN :
        /\ save[c].phase = "undoMetadata"
        /\ meta' \in {[meta EXCEPT ![i] = save[c].prior]} \cup (IF throws THEN {meta} ELSE {})
        /\ Compensated(c, save[c].repair \/ throws)
        /\ UNCHANGED <<secret, deletion, rows>>
  BY DEF UndoMetadata, Target
<1>2. Touches(c) /\ save[c].prior \in Metadata \cup {None} /\ i \in Ids
  BY <1>1, Remembers DEF Touches, Mutating
<1>3. End(c, IF save[c].repair \/ throws THEN "repair" ELSE "restored")
      /\ reported' \in {reported, reported \cup {i}}
  BY <1>1 DEF Compensated, Target
<1>4. meta' \in [Ids -> Metadata \cup {None}] /\ reported' \subseteq Ids
      /\ secret' \in [Ids -> Secret \cup {None}] /\ rows' \in [Ids -> Metadata \cup {None}]
  BY <1>1, <1>2, <1>3 DEF StoresInv, TypeOK
<1> QED
  BY <1>1, <1>3, <1>4, EndKeeps

LEMMA DeletionKeeps ==
    ASSUME StoresInv,
           (\E i \in Ids : StartDelete(i)) \/ DeleteSecret \/ DeleteSecretFails \/ RestoreRow
    PROVE  StoresInv'
<1>1. UNCHANGED <<save, gate>> /\ \A c \in Callers : save[c].phase = "idle"
  BY DEF StoresInv, DeleteInv, StartDelete, DeleteSecret, DeleteSecretFails, RestoreRow
<1>2. \A c \in Callers : CallInv(c)'
  BY <1>1 DEF CallInv, Touches, Mutating
<1>3. ASSUME NEW i \in Ids, StartDelete(i) PROVE TypeOK' /\ DeleteInv'
  <2>1. TypeOK'
    BY <1>1, <1>3 DEF StartDelete, StoresInv, TypeOK, Deletions
  <2> QED
    BY <1>1, <1>3, <2>1 DEF StartDelete, StoresInv, TypeOK, DeleteInv
<1>4. CASE DeleteSecret
  <2>1. deletion' = NoDeletion /\ deletion.id \in Ids /\ UNCHANGED meta
        /\ secret' = [secret EXCEPT ![deletion.id] = None]
        /\ reported' = reported \ {deletion.id} /\ rows' \in {meta, rows}
    BY <1>4 DEF DeleteSecret, Reloaded, StoresInv, TypeOK, Deletions
  <2>2. TypeOK'
    BY <1>1, <2>1 DEF StoresInv, TypeOK, Deletions, NoDeletion
  <2> QED
    BY <1>1, <1>2, <2>1, <2>2 DEF StoresInv, DeleteInv, NoDeletion
<1>5. CASE DeleteSecretFails
  <2>1. TypeOK'
    BY <1>1, <1>5 DEF DeleteSecretFails, StoresInv, TypeOK, Deletions
  <2> QED
    BY <1>1, <1>2, <1>5, <2>1 DEF DeleteSecretFails, StoresInv, TypeOK, Deletions, DeleteInv
<1>6. CASE RestoreRow
  <2>1. deletion' = NoDeletion /\ deletion.id \in Ids /\ deletion.row \in Metadata
        /\ meta' \in {meta, [meta EXCEPT ![deletion.id] = deletion.row]}
        /\ reported' \in {reported, reported \cup {deletion.id}} /\ UNCHANGED <<secret, rows>>
    BY <1>6 DEF RestoreRow, StoresInv, TypeOK, Deletions
  <2>2. TypeOK'
    BY <1>1, <2>1 DEF StoresInv, TypeOK, Deletions, NoDeletion
  <2> QED
    BY <1>1, <1>2, <2>1, <2>2 DEF StoresInv, DeleteInv, NoDeletion
<1> QED
  BY <1>2, <1>3, <1>4, <1>5, <1>6 DEF StoresInv

LEMMA CrashKeeps == ASSUME StoresInv, Crash PROVE StoresInv'
<1>1. TypeOK'
  BY DEF Crash, StoresInv, TypeOK, NoSave, NoDeletion, Saves, Phases, Deletions
<1>2. \A c \in Callers : save'[c].phase = "idle"
  BY DEF Crash, NoSave
<1> QED
  BY <1>1, <1>2 DEF Crash, StoresInv, DeleteInv, NoDeletion, CallInv, Touches, Mutating

LEMMA NextStores == StoresInv /\ [Next]_vars => StoresInv'
<1> SUFFICES ASSUME StoresInv, [Next]_vars
             PROVE  StoresInv'
  OBVIOUS
<1>1. ASSUME NEW c \in Callers, Enter(c) \/ SaveStep(c) PROVE StoresInv'
  BY <1>1, EnterKeeps, ReadKeeps, CheckKeeps, RejectKeeps, WriteSecretKeeps, SaveMetadataKeeps,
     SaveMetadataThrowsKeeps, UndoSecretKeeps, UndoMetadataKeeps DEF SaveStep
<1>2. CASE UNCHANGED vars
  BY <1>2 DEF vars, StoresInv, TypeOK, DeleteInv, CallInv, Touches, Target, Changes, Written
<1> QED
  BY <1>1, <1>2, BeginKeeps, DeletionKeeps, CrashKeeps DEF Next

LEMMA StoresInductive == Spec => []StoresInv
  BY InitStores, NextStores, PTL DEF Spec
-----------------------------------------------------------------------------
(* While one call changes the stores nothing else but a crash does.          *)
LEMMA OneActs ==
    ASSUME StoresInv, NEW c \in Callers, Touches(c), [Next]_vars
    PROVE  \/ SaveStep(c)
           \/ Crash
           \/ /\ save'[c] = save[c]
              /\ UNCHANGED <<meta, secret, rows, reported>> /\ UNCHANGED deletion
              /\ \A d \in Callers : Touches(d)' <=> Touches(d)
<1> DEFINE Idle == /\ save'[c] = save[c]
                   /\ UNCHANGED <<meta, secret, rows, reported>> /\ UNCHANGED deletion
                   /\ \A d \in Callers : Touches(d)' <=> Touches(d)
<1>1. /\ save[c].phase \notin {"idle", "waiting"} /\ gate = c /\ deletion.phase = "idle"
      /\ \A d \in Callers \ {c} : save[d].phase \in {"idle", "waiting"}
  BY Alone DEF StoresInv, DeleteInv, Touches, Mutating
<1>2. ASSUME NEW d \in Callers, NEW request \in Request, Begin(d, request) PROVE Idle
  BY <1>1, <1>2 DEF Begin, StoresInv, TypeOK, NoSave, Touches, Mutating
<1>3. ASSUME NEW d \in Callers, Enter(d) PROVE Idle
  BY <1>1, <1>3 DEF Enter, GateOpen, StoresInv, TypeOK
<1>4. ASSUME NEW d \in Callers \ {c}, SaveStep(d) PROVE Idle
  <2>1. save[d].phase \in {"idle", "waiting"}
    BY <1>1, <1>4
  <2>2. ~ReadPrior(d) /\ ~Check(d) /\ ~WriteSecret(d) /\ ~SaveMetadata(d)
    BY <2>1 DEF ReadPrior, Check, WriteSecret, SaveMetadata
  <2>3. ~SaveMetadataThrows(d) /\ ~UndoSecret(d) /\ ~UndoMetadata(d)
    BY <2>1 DEF SaveMetadataThrows, UndoSecret, UndoMetadata
  <2>4. Reject(d) /\ save[d].phase = "waiting"
    BY <1>4, <2>1, <2>2, <2>3 DEF SaveStep, Reject
  <2> QED
    BY <1>1, <2>4 DEF Reject, End, StoresInv, TypeOK, NoSave, Touches, Mutating
<1>5. (\A i \in Ids : ~StartDelete(i)) /\ ~DeleteSecret /\ ~DeleteSecretFails /\ ~RestoreRow
  BY <1>1 DEF StartDelete, DeleteSecret, DeleteSecretFails, RestoreRow
<1>6. CASE UNCHANGED vars
  BY <1>6 DEF vars, Touches
<1> QED
  BY <1>2, <1>3, <1>4, <1>5, <1>6 DEF Next

LEMMA EndsWhole ==
    ASSUME StoresInv, NEW c \in Callers, Touches(c), [Next]_vars, save'[c].phase = "idle"
    PROVE  /\ save'[c].result = "restored" =>
                meta'[Target(c)] = save[c].before.meta /\ secret'[Target(c)] = save[c].before.secret
           /\ save'[c].result = "saved" =>
                /\ meta'[Target(c)] = save[c].request.new
                /\ secret'[Target(c)] = Written(c)
<1> DEFINE i == Target(c)
<1>1. CallInv(c) /\ i \in Ids /\ meta \in [Ids -> Metadata \cup {None}]
      /\ secret \in [Ids -> Secret \cup {None}] /\ save[c].phase # "idle"
  BY Remembers DEF StoresInv, TypeOK, Touches, Mutating
<1>2. CASE SaveMetadata(c)
  <2>1. save[c].phase = "metadata" /\ UNCHANGED secret
        /\ meta' = [meta EXCEPT ![i] = save[c].request.new]
    BY <1>2 DEF SaveMetadata, Target
  <2> QED
    BY <1>1, <1>2, <2>1, SaveMetadataKeeps DEF CallInv
<1>3. CASE UndoSecret(c)
  <2>1. ~save[c].tried
    <3>1. ASSUME save[c].tried
          PROVE  \E throws \in BOOLEAN :
                    save' = [save EXCEPT ![c].phase = "undoMetadata", ![c].repair = throws]
      BY <1>3, <3>1 DEF UndoSecret
    <3>2. save[c] \in Saves /\ save \in [Callers -> Saves]
      BY Remembers DEF StoresInv, TypeOK
    <3> QED
      BY <3>1, <3>2 DEF Saves
  <2>2. PICK throws \in BOOLEAN :
          /\ secret' \in {[secret EXCEPT ![i] = save[c].priorSecret]}
                          \cup (IF throws THEN {secret} ELSE {})
          /\ End(c, IF throws THEN "repair" ELSE "restored")
          /\ save[c].phase = "undoSecret" /\ UNCHANGED meta
    BY <1>3, <2>1 DEF UndoSecret, Compensated, Target
  <2>3. save'[c].result = (IF throws THEN "repair" ELSE "restored")
    BY <2>2 DEF End, NoSave, StoresInv, TypeOK
  <2> QED
    BY <1>1, <2>1, <2>2, <2>3 DEF CallInv
<1>4. CASE UndoMetadata(c)
  <2>1. PICK throws \in BOOLEAN :
          /\ meta' \in {[meta EXCEPT ![i] = save[c].prior]} \cup (IF throws THEN {meta} ELSE {})
          /\ End(c, IF save[c].repair \/ throws THEN "repair" ELSE "restored")
          /\ save[c].phase = "undoMetadata" /\ UNCHANGED secret
    BY <1>4 DEF UndoMetadata, Compensated, Target
  <2>2. save'[c].result = (IF save[c].repair \/ throws THEN "repair" ELSE "restored")
    BY <2>1 DEF End, NoSave, StoresInv, TypeOK
  <2> QED
    BY <1>1, <2>1, <2>2 DEF CallInv, Touches, Mutating
<1>5. CASE Crash
  BY <1>5 DEF Crash, NoSave
<1>6. ~ReadPrior(c) /\ ~Check(c) /\ ~Reject(c)
  BY DEF ReadPrior, Check, Reject, Touches, Mutating
<1>7. ~WriteSecret(c) /\ ~SaveMetadataThrows(c)
  BY Remembers DEF WriteSecret, SaveMetadataThrows, UndoPhase, StoresInv, TypeOK, Saves
<1> QED
  BY <1>1, <1>2, <1>3, <1>4, <1>5, <1>6, <1>7, OneActs DEF SaveStep

(* A save that reports that it restored the previous state has restored both *)
(* stores, and one that reports success has stored both halves (SaveAsync).  *)
THEOREM AllOrNothing == Spec => SaveIsAllOrNothing
<1> DEFINE Whole(c) ==
          LET s == save[c]
              i == s.request.id
          IN s.phase \in Mutating /\ save'[c].phase = "idle" =>
               /\ save'[c].result = "restored" =>
                    meta'[i] = s.before.meta /\ secret'[i] = s.before.secret
               /\ save'[c].result = "saved" =>
                    /\ meta'[i] = s.request.new
                    /\ secret'[i] = IF ChangesSecret(s.before.meta, s.request)
                                    THEN SecretAfter(s.request) ELSE s.before.secret
<1>1. StoresInv /\ [Next]_vars => \A c \in Callers : Whole(c)
  <2> SUFFICES ASSUME StoresInv, [Next]_vars, NEW c \in Callers,
                      Touches(c), save'[c].phase = "idle"
               PROVE  Whole(c)
    BY DEF Touches
  <2>1. save[c].prior = save[c].before.meta
    BY DEF StoresInv, CallInv
  <2> QED
    BY <2>1, EndsWhole DEF Target, Written, Changes
<1>2. StoresInv /\ [Next]_vars => [\A c \in Callers : Whole(c)]_vars
  BY <1>1
<1> QED
  BY <1>2, StoresInductive, PTL DEF Spec, SaveIsAllOrNothing

(* The variables of credential saves keep their types, and whoever is past   *)
(* the gate holds it.                                                        *)
THEOREM TypeCorrect == Spec => []TypeOK
<1>1. StoresInv => TypeOK
  BY DEF StoresInv
<1> QED
  BY <1>1, StoresInductive, PTL
-----------------------------------------------------------------------------
(* Which credentials an operation works on.                                  *)
LEMMA BusyTarget ==
    ASSUME StoresInv, NEW c \in Callers, Touches(c)
    PROVE  /\ deletion.phase = "idle" /\ deletion.id = None
           /\ \A i \in Ids : Busy(i) <=> i = Target(c)
           /\ \A d \in Callers \ {c} : ~Touches(d)
  BY Alone DEF StoresInv, DeleteInv, Busy, Touches, Mutating, Target

LEMMA BusyDeletion ==
    ASSUME StoresInv, \A c \in Callers : ~Touches(c)
    PROVE  \A i \in Ids : Busy(i) <=> i = deletion.id
  BY DEF Busy, Touches

LEMMA InitPair == Init => PairInv
  BY DEF Init, PairInv, Busy, Fits, Touches, Mutating, NoSave, NoDeletion

(* A step that stays within one operation, or before it.                     *)
LEMMA PairFrame ==
    ASSUME PairInv, UNCHANGED <<rows, reported>>,
           deletion'.id = deletion.id /\ deletion'.row = deletion.row,
           \A i \in Ids : ~Busy(i)' => ~Busy(i) /\ meta'[i] = meta[i] /\ secret'[i] = secret[i],
           \A i \in Ids : deletion.id = i => secret'[i] = secret[i],
           \A c \in Callers : Touches(c)' =>
                Touches(c) /\ Target(c)' = Target(c) /\ save'[c].before = save[c].before
    PROVE  PairInv'
  BY DEF PairInv

(* A step with which a save ends.                                            *)
LEMMA EndPair ==
    ASSUME StoresInv, PairInv, NEW c \in Callers, Touches(c), ~Touches(c)',
           UNCHANGED deletion, \A d \in Callers \ {c} : save'[d] = save[d],
           reported \subseteq reported' \cup {Target(c)},
           \A i \in Ids \ {Target(c)} : meta'[i] = meta[i] /\ secret'[i] = secret[i],
           \A i \in Ids \ {Target(c)} : rows'[i] \in {rows[i], meta[i]},
           Target(c) \notin reported' =>
                /\ Fits(meta'[Target(c)], secret'[Target(c)])
                /\ rows'[Target(c)] = meta'[Target(c)]
    PROVE  PairInv'
<1>1. deletion.id = None /\ (\A i \in Ids : Busy(i) <=> i = Target(c))
      /\ \A d \in Callers \ {c} : ~Touches(d)
  BY BusyTarget
<1>2. \A d \in Callers : ~Touches(d)'
  BY <1>1 DEF Touches
<1>3. ASSUME NEW i \in Ids \ reported' PROVE Fits(meta'[i], secret'[i]) /\ rows'[i] = meta'[i]
  BY <1>1, <1>3 DEF PairInv
<1> QED
  BY <1>1, <1>2, <1>3 DEF PairInv

(* Before its checks are through, and where it leaves the gate without them, *)
(* a call changes nothing.                                                   *)
LEMMA QuietPair ==
    ASSUME StoresInv, PairInv, NEW c \in Callers,
           (\E request \in Request : Begin(c, request)) \/ Enter(c) \/ ReadPrior(c) \/ Reject(c)
    PROVE  PairInv'
<1>1. UNCHANGED <<meta, secret, rows, reported, deletion>>
      /\ \A d \in Callers \ {c} : save'[d] = save[d]
  BY DEF Begin, Enter, ReadPrior, Reject, End, StoresInv, TypeOK
<1>2. ~Touches(c)
  BY DEF Begin, Enter, ReadPrior, Reject, Touches, Mutating
<1>3. ~Touches(c)'
  <2>1. save'[c].phase \in {"idle", "waiting", "reading", "checking"}
    <3>1. ASSUME NEW request \in Request, Begin(c, request) PROVE save'[c].phase = "waiting"
      <4>1. save' = [save EXCEPT ![c] = [NoSave EXCEPT !.phase = "waiting", !.request = request]]
        BY <3>1 DEF Begin
      <4> QED
        BY <4>1 DEF StoresInv, TypeOK, NoSave
    <3>2. CASE Enter(c)
      BY <3>2 DEF Enter, StoresInv, TypeOK, Saves
    <3>3. CASE ReadPrior(c)
      BY <3>3 DEF ReadPrior, StoresInv, TypeOK, Saves
    <3>4. CASE Reject(c)
      BY <3>4 DEF Reject, End, StoresInv, TypeOK, NoSave
    <3> QED
      BY <3>1, <3>2, <3>3, <3>4
  <2> QED
    BY <2>1 DEF Touches, Mutating
<1>4. \A d \in Callers : (Touches(d)' <=> Touches(d))
                          /\ (Touches(d) => save'[d] = save[d])
  BY <1>1, <1>2, <1>3 DEF Touches
<1>5. \A i \in Ids : Busy(i)' <=> Busy(i)
  BY <1>1, <1>4 DEF Busy, Touches
<1> QED
  BY <1>1, <1>4, <1>5, PairFrame DEF Target

LEMMA CheckPair ==
    ASSUME StoresInv, PairInv, NEW c \in Callers, Check(c)
    PROVE  PairInv'
<1>1. /\ save[c].phase = "checking" /\ UNCHANGED <<meta, secret, gate, deletion, rows, reported>>
      /\ save'[c].request = save[c].request
      /\ save'[c].before = [meta |-> meta[Target(c)], secret |-> secret[Target(c)]]
      /\ \A d \in Callers \ {c} : save'[d] = save[d]
  <2>1. save \in [Callers -> Saves] /\ save[c] \in Saves
    BY DEF StoresInv, TypeOK
  <2> QED
    BY <2>1 DEF Check, Saves, Target
<1>2. Target(c)' = Target(c) /\ Target(c) \in Ids
  BY <1>1, Alone DEF Target, StoresInv, Request
<1>3. deletion.id = None /\ \A d \in Callers : ~Touches(d)
  BY <1>1, Alone DEF StoresInv, DeleteInv, Touches, Mutating
<1>4. \A i \in Ids : ~Busy(i)
  BY <1>3, BusyDeletion
<1>5. \A d \in Callers \ {c} : ~Touches(d)'
  BY <1>1, <1>3 DEF Touches
<1> QED
  BY <1>1, <1>2, <1>3, <1>4, <1>5 DEF PairInv
(* A call that works on one credential touches no other.                     *)
LEMMA InsidePair ==
    ASSUME StoresInv, PairInv, NEW c \in Callers, Touches(c), Touches(c)',
           UNCHANGED <<deletion, rows, reported>>, \A d \in Callers \ {c} : save'[d] = save[d],
           save'[c].request = save[c].request, save'[c].before = save[c].before,
           \A i \in Ids \ {Target(c)} : meta'[i] = meta[i] /\ secret'[i] = secret[i]
    PROVE  PairInv'
<1>1. deletion.id = None /\ (\A i \in Ids : Busy(i) <=> i = Target(c))
      /\ \A d \in Callers \ {c} : ~Touches(d)
  BY BusyTarget
<1>2. Target(c)' = Target(c) /\ \A d \in Callers \ {c} : ~Touches(d)'
  BY <1>1 DEF Touches, Target
<1>3. \A i \in Ids : ~Busy(i)' => i # Target(c)
  BY <1>2 DEF Busy, Touches, Target
<1> QED
  BY <1>1, <1>2, <1>3, PairFrame

LEMMA WorkPair ==
    ASSUME StoresInv, PairInv, NEW c \in Callers,
           WriteSecret(c) \/ SaveMetadataThrows(c) \/ (UndoSecret(c) /\ save[c].tried)
    PROVE  PairInv'
<1>1. Touches(c)
  BY DEF WriteSecret, SaveMetadataThrows, UndoSecret, Touches, Mutating
<1>2. Target(c) \in Ids /\ save[c] \in Saves
  BY <1>1, Remembers
<1>3. ASSUME WriteSecret(c) PROVE PairInv'
  <2>1. /\ secret' \in {secret, [secret EXCEPT ![Target(c)] = SecretAfter(save[c].request)]}
        /\ \/ save' = [save EXCEPT ![c].phase = "metadata"]
           \/ save' = [save EXCEPT ![c].phase = "undoSecret"]
        /\ UNCHANGED <<meta, deletion, rows, reported>>
    BY <1>3 DEF WriteSecret, Target
  <2>2. /\ save'[c].phase \in Mutating /\ save'[c].request = save[c].request
        /\ save'[c].before = save[c].before /\ \A d \in Callers \ {c} : save'[d] = save[d]
    BY <1>2, <2>1 DEF StoresInv, TypeOK, Saves, Mutating
  <2>3. \A i \in Ids \ {Target(c)} : meta'[i] = meta[i] /\ secret'[i] = secret[i]
    BY <2>1 DEF StoresInv, TypeOK
  <2> QED
    BY <1>1, <2>1, <2>2, <2>3, InsidePair DEF Touches
<1>4. ASSUME SaveMetadataThrows(c) PROVE PairInv'
  <2>1. /\ meta' \in {meta, [meta EXCEPT ![Target(c)] = save[c].request.new]}
        /\ save' = [save EXCEPT ![c].phase = UndoPhase(save[c]), ![c].tried = TRUE]
        /\ UNCHANGED <<secret, deletion, rows, reported>>
    BY <1>4 DEF SaveMetadataThrows, Target
  <2>2. UndoPhase(save[c]) \in Mutating
    BY DEF UndoPhase, Mutating
  <2>3. /\ save'[c].phase \in Mutating /\ save'[c].request = save[c].request
        /\ save'[c].before = save[c].before /\ \A d \in Callers \ {c} : save'[d] = save[d]
    BY <1>2, <2>1, <2>2 DEF StoresInv, TypeOK, Saves
  <2>4. \A i \in Ids \ {Target(c)} : meta'[i] = meta[i] /\ secret'[i] = secret[i]
    BY <2>1 DEF StoresInv, TypeOK
  <2> QED
    BY <1>1, <2>1, <2>3, <2>4, InsidePair DEF Touches
<1>5. ASSUME UndoSecret(c), save[c].tried PROVE PairInv'
  <2>1. PICK throws \in BOOLEAN :
          /\ secret' \in {[secret EXCEPT ![Target(c)] = save[c].priorSecret]}
                         \cup (IF throws THEN {secret} ELSE {})
          /\ save' = [save EXCEPT ![c].phase = "undoMetadata", ![c].repair = throws]
          /\ UNCHANGED <<meta, deletion, rows, reported>>
    BY <1>5 DEF UndoSecret, Target
  <2>2. /\ save'[c].phase \in Mutating /\ save'[c].request = save[c].request
        /\ save'[c].before = save[c].before /\ \A d \in Callers \ {c} : save'[d] = save[d]
    BY <1>2, <2>1 DEF StoresInv, TypeOK, Saves, Mutating
  <2>3. \A i \in Ids \ {Target(c)} : meta'[i] = meta[i] /\ secret'[i] = secret[i]
    BY <2>1 DEF StoresInv, TypeOK
  <2> QED
    BY <1>1, <2>1, <2>2, <2>3, InsidePair DEF Touches
<1> QED
  BY <1>3, <1>4, <1>5

(* What a save stores fits, if what it found did.                            *)
LEMMA SavedFits ==
    ASSUME StoresInv, NEW c \in Callers, Touches(c),
           Fits(save[c].before.meta, save[c].before.secret) \/ Changes(c)
    PROVE  Fits(save[c].request.new, Written(c))
<1>1. /\ save[c].request \in Request /\ save[c].prior = save[c].before.meta
      /\ Permits(save[c].prior, save[c].request, save[c].before.secret)
  BY Remembers DEF StoresInv, CallInv
<1>2. save[c].request.new # None /\ save[c].request.new \in Metadata
  BY <1>1 DEF Request
<1>3. CASE Changes(c)
  <2>1. CASE save[c].request.replace
    <3>1. Written(c) = [kind |-> save[c].request.new.auth, value |-> save[c].request.value]
      BY <1>3, <2>1 DEF Written, SecretAfter
    <3>2. Written(c) \in Secret
      BY <1>1, <1>2, <3>1 DEF Secret, Request, Metadata
    <3> QED
      BY <1>2, <3>1, <3>2 DEF Fits
  <2>2. CASE ~save[c].request.replace
    <3>1. save[c].request.new.auth # "Password"
      BY <1>1, <1>3, <2>2 DEF Changes, ChangesSecret, Permits
    <3>2. Written(c) = None
      BY <1>3, <2>2 DEF Written, SecretAfter
    <3> QED
      BY <3>1, <3>2 DEF Fits
  <2> QED
    BY <2>1, <2>2
<1>4. CASE ~Changes(c)
  <2>1. Written(c) = save[c].before.secret /\ ~save[c].request.replace
        /\ (save[c].prior # None => save[c].prior.auth = save[c].request.new.auth)
    BY <1>4 DEF Written, Changes, ChangesSecret
  <2>2. Fits(save[c].prior, save[c].before.secret)
    BY <1>1, <1>4
  <2>3. CASE save[c].prior = None
    <3>1. Written(c) = None /\ save[c].request.new.auth # "Password"
      BY <1>1, <2>1, <2>3 DEF Permits
    <3> QED
      BY <3>1 DEF Fits
  <2>4. CASE save[c].prior # None
    BY <1>2, <2>1, <2>2, <2>4 DEF Fits
  <2> QED
    BY <2>3, <2>4
<1> QED
  BY <1>3, <1>4
(* The steps with which a save ends, where the list follows the store.       *)
LEMMA EndsPair ==
    ASSUME ~RowsMayLag, StoresInv, PairInv, NEW c \in Callers,
           SaveMetadata(c) \/ (UndoSecret(c) /\ ~save[c].tried) \/ UndoMetadata(c)
    PROVE  PairInv'
<1> DEFINE i == Target(c)
<1>1. Touches(c)
  BY DEF SaveMetadata, UndoSecret, UndoMetadata, Touches, Mutating
<1>2. CallInv(c) /\ i \in Ids /\ meta \in [Ids -> Metadata \cup {None}]
      /\ secret \in [Ids -> Secret \cup {None}]
  BY <1>1, Remembers DEF StoresInv, TypeOK
<1>3. i \notin reported => Fits(save[c].before.meta, save[c].before.secret)
                           /\ rows[i] = save[c].before.meta
  BY <1>1, <1>2 DEF PairInv
<1>4. ASSUME SaveMetadata(c) PROVE PairInv'
  <2>1. /\ save[c].phase = "metadata" /\ UNCHANGED <<secret, deletion>>
        /\ meta' = [meta EXCEPT ![i] = save[c].request.new]
        /\ reported' = IF Changes(c) THEN reported \ {i} ELSE reported
        /\ rows' = meta'
    BY <1>4 DEF SaveMetadata, Target, Changes, Reloaded
  <2>2. ~Touches(c)' /\ \A d \in Callers \ {c} : save'[d] = save[d]
    BY <1>4, SaveMetadataKeeps DEF Touches, Mutating
  <2>3. secret'[i] = Written(c) /\ meta'[i] = save[c].request.new
    BY <1>2, <2>1 DEF CallInv
  <2>4. i \notin reported' => Fits(meta'[i], secret'[i])
    <3>1. i \notin reported' => i \notin reported \/ Changes(c)
      BY <2>1
    <3> QED
      BY <1>1, <1>3, <2>3, <3>1, SavedFits
  <2>5. reported \subseteq reported' \cup {i}
        /\ \A j \in Ids \ {i} : meta'[j] = meta[j] /\ secret'[j] = secret[j] /\ rows'[j] = meta[j]
    BY <1>2, <2>1
  <2> QED
    BY <1>1, <2>1, <2>2, <2>4, <2>5, EndPair
<1>5. ASSUME UndoSecret(c), ~save[c].tried PROVE PairInv'
  <2>1. PICK throws \in BOOLEAN :
          /\ save[c].phase = "undoSecret"
          /\ secret' \in {[secret EXCEPT ![i] = save[c].priorSecret]}
                          \cup (IF throws THEN {secret} ELSE {})
          /\ reported' = IF throws THEN reported \cup {i} ELSE reported
          /\ UNCHANGED <<meta, deletion, rows>>
    BY <1>5 DEF UndoSecret, Compensated, Target
  <2>2. ~Touches(c)' /\ \A d \in Callers \ {c} : save'[d] = save[d]
    BY <1>5, UndoSecretKeeps DEF Touches, Mutating
  <2>3. i \notin reported' => meta'[i] = save[c].before.meta /\ secret'[i] = save[c].before.secret
                              /\ i \notin reported
    BY <1>1, <1>2, <1>5, <2>1 DEF CallInv
  <2>4. reported \subseteq reported'
        /\ \A j \in Ids \ {i} : meta'[j] = meta[j] /\ secret'[j] = secret[j]
    BY <1>2, <2>1
  <2> QED
    BY <1>1, <1>3, <2>1, <2>2, <2>3, <2>4, EndPair
<1>6. ASSUME UndoMetadata(c) PROVE PairInv'
  <2>1. PICK throws \in BOOLEAN :
          /\ save[c].phase = "undoMetadata"
          /\ meta' \in {[meta EXCEPT ![i] = save[c].prior]} \cup (IF throws THEN {meta} ELSE {})
          /\ reported' = IF save[c].repair \/ throws THEN reported \cup {i} ELSE reported
          /\ UNCHANGED <<secret, deletion, rows>>
    BY <1>6 DEF UndoMetadata, Compensated, Target
  <2>2. ~Touches(c)' /\ \A d \in Callers \ {c} : save'[d] = save[d]
    BY <1>6, UndoMetadataKeeps DEF Touches, Mutating
  <2>3. i \notin reported' => meta'[i] = save[c].before.meta /\ secret'[i] = save[c].before.secret
                              /\ i \notin reported
    BY <1>1, <1>2, <2>1 DEF CallInv
  <2>4. reported \subseteq reported'
        /\ \A j \in Ids \ {i} : meta'[j] = meta[j] /\ secret'[j] = secret[j]
    BY <1>2, <2>1
  <2> QED
    BY <1>1, <1>3, <2>1, <2>2, <2>3, <2>4, EndPair
<1> QED
  BY <1>4, <1>5, <1>6

LEMMA DeletionPair ==
    ASSUME ~RowsMayLag, StoresInv, PairInv,
           (\E i \in Ids : StartDelete(i)) \/ DeleteSecret \/ DeleteSecretFails \/ RestoreRow
    PROVE  PairInv'
<1>1. UNCHANGED <<save, gate>> /\ \A c \in Callers : save[c].phase = "idle"
  BY DEF StoresInv, DeleteInv, StartDelete, DeleteSecret, DeleteSecretFails, RestoreRow
<1>2. \A c \in Callers : ~Touches(c) /\ ~Touches(c)'
  BY <1>1 DEF Touches, Mutating
<1>3. /\ \A i \in Ids : Busy(i) <=> i = deletion.id
      /\ \A i \in Ids : Busy(i)' <=> i = deletion'.id
  BY <1>2 DEF Busy, Touches
<1>4. deletion \in Deletions /\ meta \in [Ids -> Metadata \cup {None}]
      /\ secret \in [Ids -> Secret \cup {None}]
      /\ (deletion.phase = "idle" => deletion.id = None)
      /\ (deletion.phase # "idle" => deletion.id \in Ids)
  BY DEF StoresInv, TypeOK, DeleteInv, Deletions
<1>5. ASSUME NEW i \in Ids, StartDelete(i) PROVE PairInv'
  <2>1. /\ deletion.phase = "idle" /\ UNCHANGED <<secret, rows, reported>>
        /\ meta' = [meta EXCEPT ![i] = None]
        /\ deletion'.id = i /\ deletion'.row = rows[i]
    BY <1>5 DEF StartDelete
  <2>2. \A j \in Ids \ reported : Fits(meta[j], secret[j]) /\ rows[j] = meta[j]
    BY <1>3, <1>4, <2>1 DEF PairInv
  <2> QED
    BY <1>2, <1>3, <1>4, <2>1, <2>2 DEF PairInv
<1>6. CASE DeleteSecret
  <2>1. /\ deletion.phase # "idle" /\ deletion'.id = None
        /\ secret' = [secret EXCEPT ![deletion.id] = None]
        /\ reported' = reported \ {deletion.id} /\ rows' = meta /\ UNCHANGED meta
    BY <1>6 DEF DeleteSecret, Reloaded, NoDeletion
  <2>2. meta[deletion.id] = None
    BY <2>1 DEF StoresInv, DeleteInv
  <2>3. Fits(None, None)
    BY DEF Fits
  <2>4. \A j \in Ids \ reported' : Fits(meta'[j], secret'[j]) /\ rows'[j] = meta'[j]
    BY <1>3, <1>4, <2>1, <2>2, <2>3 DEF PairInv
  <2> QED
    BY <1>2, <1>3, <2>1, <2>4 DEF PairInv
<1>7. CASE DeleteSecretFails
  <2>1. /\ deletion'.id = deletion.id /\ deletion'.row = deletion.row
        /\ UNCHANGED <<meta, secret, rows, reported>>
    BY <1>4, <1>7 DEF DeleteSecretFails, Deletions
  <2> QED
    BY <1>2, <1>3, <2>1 DEF PairInv
<1>8. CASE RestoreRow
  <2>1. /\ deletion.phase # "idle" /\ deletion'.id = None /\ UNCHANGED <<secret, rows>>
        /\ \/ meta' = [meta EXCEPT ![deletion.id] = deletion.row] /\ UNCHANGED reported
           \/ reported' = reported \cup {deletion.id} /\ UNCHANGED meta
    BY <1>8 DEF RestoreRow, NoDeletion
  <2>2. \A j \in Ids \ reported' : Fits(meta'[j], secret'[j]) /\ rows'[j] = meta'[j]
    BY <1>3, <1>4, <2>1 DEF PairInv
  <2> QED
    BY <1>2, <1>3, <1>4, <2>1, <2>2 DEF PairInv
<1> QED
  BY <1>5, <1>6, <1>7, <1>8
LEMMA CrashPair == ASSUME StoresInv, PairInv, Crash PROVE PairInv'
<1>1. /\ \A c \in Callers : ~Touches(c)'
      /\ \A i \in Ids : deletion'.id # i
      /\ rows' = meta /\ UNCHANGED <<meta, secret>>
      /\ reported' = reported \cup {i \in Ids : Busy(i)}
  BY DEF Crash, NoSave, NoDeletion, Touches, Mutating
<1> QED
  BY <1>1 DEF PairInv

LEMMA NextPair ==
    ASSUME ~RowsMayLag
    PROVE  StoresInv /\ PairInv /\ [Next]_vars => PairInv'
<1> SUFFICES ASSUME StoresInv, PairInv, [Next]_vars
             PROVE  PairInv'
  OBVIOUS
<1>1. ASSUME NEW c \in Callers, SaveStep(c) PROVE PairInv'
  BY <1>1, QuietPair, CheckPair, WorkPair, EndsPair DEF SaveStep
<1>2. CASE UNCHANGED vars
  BY <1>2 DEF vars, PairInv, Busy, Touches, Target
<1> QED
  BY <1>1, <1>2, QuietPair, DeletionPair, CrashPair DEF Next

(* Where the list on screen follows the store, no secret outlives its        *)
(* metadata, none is reinterpreted, and every stored password credential has *)
(* its password, but for those whose user was told or whose operation a      *)
(* crash cut short (SaveAsync and the deletion of the connections view).     *)
THEOREM SecretsFit ==
    ASSUME ~RowsMayLag
    PROVE  Spec => []SecretsMatchMetadata
<1>1. PairInv => SecretsMatchMetadata
  BY DEF PairInv, SecretsMatchMetadata, Settled, Fits
<1>2. StoresInv /\ PairInv /\ [Next]_vars => PairInv'
  BY NextPair
<1> QED
  BY <1>1, <1>2, InitPair, StoresInductive, PTL DEF Spec
=============================================================================
