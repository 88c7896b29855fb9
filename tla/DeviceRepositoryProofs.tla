------------------------ MODULE DeviceRepositoryProofs ------------------------
(* Theorems about DeviceRepository, for every number of devices, dialogs,    *)
(* observers, addresses, settings and instants.                              *)
EXTENDS DeviceRepository, TLAPS

USE DeviceAssumption, RepositoryAssumption

-----------------------------------------------------------------------------
(* The rules return devices.                                                 *)
LEMMA EditedType ==
    ASSUME NEW original \in Device, NEW form \in Form
    PROVE  Edited(original, form) \in Device
  <1>1. EditedCapability(original, form) \in Capabilities
    BY DEF EditedCapability, Capabilities
  <1> QED
    BY <1>1 DEF Edited, Form, Device

(* So does another observation and capability.                               *)
LEMMA Rewritten ==
    ASSUME NEW d \in Device, NEW state \in Observable, NEW checked \in Times \cup {0},
           NEW seen \in Times \cup {0}, NEW cap \in Capabilities
    PROVE  [d EXCEPT !.state = state, !.checked = checked, !.seen = seen, !.cap = cap] \in Device
  BY DEF Device

(* Merging two records gives a record.                                       *)
LEMMA MergedType ==
    ASSUME NEW current \in Device, NEW new \in Device
    PROVE  Merged(current, new) \in Device
  <1> DEFINE same == SameStatus(current, new)
             state == IF same THEN current.state ELSE "Unknown"
             checked == IF same THEN current.checked ELSE 0
             seen == IF same THEN current.seen ELSE 0
  <1>1. MergedCapability(current, new) \in Capabilities
    BY DEF MergedCapability, Capabilities
  <1>2. /\ current.state \in Observable /\ current.checked \in Times \cup {0}
        /\ current.seen \in Times \cup {0} /\ "Unknown" \in Observable
    BY DEF Device, Observable
  <1>3. state \in Observable /\ checked \in Times \cup {0} /\ seen \in Times \cup {0}
    BY <1>2
  <1>4. Merged(current, new) = [new EXCEPT !.state = state, !.checked = checked, !.seen = seen,
                                           !.cap = MergedCapability(current, new)]
    BY DEF Merged
  <1> HIDE DEF state, checked, seen
  <1>5. [new EXCEPT !.state = state, !.checked = checked, !.seen = seen,
                    !.cap = MergedCapability(current, new)] \in Device
    BY <1>1, <1>3, Rewritten
  <1> QED
    BY <1>4, <1>5

(* Applying an observation to a record gives a record.                       *)
LEMMA ObservedType ==
    ASSUME NEW current \in Device, NEW expected, NEW at \in Times,
           NEW state \in Observable, NEW verify
    PROVE  Observed(current, expected, at, state, verify) \in Device
<1> DEFINE seen == IF state = "Online" THEN at ELSE current.seen
           cap == IF Qualifies(current, expected, state, verify) THEN "Verified" ELSE current.cap
<1>1. current.seen \in Times \cup {0} /\ current.cap \in Capabilities
  BY DEF Device
<1>2. seen \in Times \cup {0} /\ cap \in Capabilities
  BY <1>1 DEF Capabilities
<1>3. Observed(current, expected, at, state, verify) =
        [current EXCEPT !.state = state, !.checked = at, !.seen = seen, !.cap = cap]
  BY DEF Observed
<1> HIDE DEF seen, cap
<1>4. [current EXCEPT !.state = state, !.checked = at, !.seen = seen, !.cap = cap] \in Device
  BY <1>2 DEF Device
<1> QED
  BY <1>3, <1>4

(* The default record is a record.                                           *)
LEMMA NewDeviceType == NewDevice \in Device
  BY DEF NewDevice, Device, Capabilities, Observable

(* A device opened from a scan is a record, switched off for wakes and never *)
(* checked.                                                                  *)
LEMMA DiscoveredType ==
    ASSUME NEW f \in Found
    PROVE  /\ Discovered(f) \in Device
           /\ Discovered(f).cap = "Disabled" /\ Discovered(f).checked = 0
           /\ Discovered(f).seen = f.seen
           /\ Discovered(f).state = IF f.seen # 0 THEN "Online" ELSE "Unknown"
  <1>1. NewDevice \in Device /\ NewDevice.cap = "Disabled" /\ NewDevice.checked = 0
    BY NewDeviceType DEF NewDevice
  <1>2. "Online" \in Observable /\ "Unknown" \in Observable
    BY DEF Observable
  <1>3. CASE f.seen # 0
    BY <1>1, <1>2, <1>3 DEF Discovered, Found, Device
  <1>4. CASE f.seen = 0
    BY <1>1, <1>2, <1>4 DEF Discovered, Found, Device
  <1> QED
    BY <1>3, <1>4

(* A merged record and an observed one stay valid.                           *)
LEMMA MergedValid ==
    ASSUME NEW current \in Device, NEW new \in Device, Valid(new)
    PROVE  Valid(Merged(current, new))
  <1>1. Merged(current, new).cap # "Disabled" => new.cap # "Disabled"
    BY DEF Merged, MergedCapability, Device
  <1>2. /\ Merged(current, new).host = new.host
        /\ Merged(current, new).ip = new.ip
        /\ Merged(current, new).mac = new.mac
    BY DEF Merged, Device
  <1> QED
    BY <1>1, <1>2 DEF Valid

(* An observation leaves what NormalizeAndValidate checked alone.            *)
LEMMA ObservedValid ==
    ASSUME NEW current \in Device, Valid(current), NEW expected, NEW at, NEW state, NEW verify
    PROVE  Valid(Observed(current, expected, at, state, verify))
  <1> DEFINE d == Observed(current, expected, at, state, verify)
  <1>1. d.host = current.host /\ d.ip = current.ip /\ d.mac = current.mac
    BY DEF Observed, Device
  <1>2. d.cap # "Disabled" => current.cap # "Disabled"
    BY DEF Observed, Qualifies, Device
  <1> QED
    BY <1>1, <1>2 DEF Valid

(* The targets of a record are the targets that the histories hold.          *)
LEMMA TargetType ==
    ASSUME NEW d \in Device
    PROVE  StatusTarget(d) \in StatusTargets /\ WakeTarget(d) \in WakeTargets
  BY DEF StatusTarget, WakeTarget, StatusTargets, WakeTargets, Device

-----------------------------------------------------------------------------
(* Every reachable state is well typed and every stored device is valid.     *)
THEOREM TypeCorrect == Spec => []TypeOK
<1>1. Init => TypeOK
  <2> SUFFICES ASSUME Init PROVE TypeOK
    OBVIOUS
  <2>1. store \in [Ids -> Device \cup {None}] /\ \A i \in Ids : store[i] = None
    BY DEF Init
  <2>2. \A i \in Ids : Closed(i) \in Editor
    BY DEF Closed, Editor
  <2>3. \A i \in Ids : Idle(i) \in Observer /\ Idle(i).phase = "idle"
    BY DEF Idle, Observer, Observable
  <2>4. editor \in [Editors -> Editor]
    BY <2>2 DEF Init
  <2>5. observer \in [Observers -> Observer] /\ \A o \in Observers : observer[o].phase = "idle"
    BY <2>3 DEF Init
  <2> QED
    BY <2>1, <2>4, <2>5 DEF Init, TypeOK
<1>2. TypeOK /\ [Next]_vars => TypeOK'
  <2> SUFFICES ASSUME TypeOK, [Next]_vars PROVE TypeOK'
    OBVIOUS
  <2>1. ASSUME NEW e \in Editors, NEW i \in Ids, Open(e, i) PROVE TypeOK'
    <3>1. [id |-> i, original |-> store[i]] \in Editor
      BY DEF TypeOK, Editor
    <3> QED
      BY <2>1, <3>1 DEF TypeOK, Open
  <2>2. ASSUME NEW e \in Editors, NEW i \in Ids, OpenNew(e, i) PROVE TypeOK'
    <3>1. PICK new \in {NewDevice} \cup {Discovered(f) : f \in Discoveries} :
             editor' = [editor EXCEPT ![e] = [id |-> i, original |-> new]]
      BY <2>2 DEF OpenNew
    <3>2. new \in Device
      BY NewDeviceType, DiscoveredType
    <3>3. [id |-> i, original |-> new] \in Editor
      BY <3>2 DEF Editor
    <3> QED
      BY <2>2, <3>1, <3>3 DEF TypeOK, OpenNew
  <2>3. ASSUME NEW e \in Editors, NEW form \in Forms, Save(e, form) PROVE TypeOK'
    <3> DEFINE i == editor[e].id
               edited == Edited(editor[e].original, form)
               record == SavedRecord(i, edited)
    <3>1. i \in Ids /\ editor[e].original \in Device /\ form \in Form
      BY <2>3 DEF Save, TypeOK, Editor
    <3>2. edited \in Device
      BY <3>1, EditedType
    <3>3. record \in Device
      BY <3>1, <3>2, MergedType DEF SavedRecord, TypeOK
    <3>4. Valid(record)
      BY <2>3, <3>1, <3>2, MergedValid DEF Save, SavedRecord, TypeOK
    <3>5. Closed(i) \in Editor
      BY <3>1 DEF Closed, Editor
    <3>6. store' = [store EXCEPT ![i] = record] /\ allocated' = allocated \cup {i}
          /\ editor' = [editor EXCEPT ![e] = Closed(i)]
          /\ UNCHANGED <<observer, observed, witnessed>>
      BY <2>3 DEF Save
    <3> HIDE DEF i, edited, record
    <3> QED
      BY <3>1, <3>3, <3>4, <3>5, <3>6 DEF TypeOK
  <2>4. ASSUME NEW e \in Editors, Close(e) PROVE TypeOK'
    BY <2>4 DEF TypeOK, Close, Closed, Editor
  <2>5. ASSUME NEW i \in Ids, Delete(i) PROVE TypeOK'
    BY <2>5 DEF TypeOK, Delete
  <2>6. ASSUME NEW o \in Observers, NEW i \in Ids, StartObserving(o, i) PROVE TypeOK'
    BY <2>6 DEF TypeOK, StartObserving, Idle, Observer, Observable
  <2>7. ASSUME NEW o \in Observers, NEW at \in Times, NEW state \in Observable,
               NEW verify \in BOOLEAN, Answer(o, at, state, verify)
        PROVE  TypeOK'
    <3> DEFINE q == observer[o]
               answer == [id |-> q.id, target |-> StatusTarget(q.dev), at |-> at, state |-> state]
               wake == [id |-> q.id, target |-> WakeTarget(q.dev)]
    <3>1. q \in Observer /\ q.id \in Ids /\ q.dev \in Device
      BY <2>7 DEF TypeOK, Answer, Observer
    <3>2. answer \in Answers /\ wake \in Wakes
      BY <3>1, TargetType DEF Answers, Wakes
    <3>3. observed' \subseteq Answers /\ witnessed' \subseteq Wakes
      BY <2>7, <3>2 DEF TypeOK, Answer
    <3>4. /\ observer' = [observer EXCEPT ![o] = [q EXCEPT !.phase = "applying", !.at = at,
                                                       !.state = state, !.verify = verify]]
          /\ UNCHANGED <<store, allocated, editor>>
      BY <2>7 DEF Answer, TypeOK
    <3>5. [q EXCEPT !.phase = "applying", !.at = at, !.state = state, !.verify = verify] \in Observer
      BY <3>1 DEF Observer
    <3>6. at # 0
      BY DEF DeviceAssumption
    <3> QED
      BY <3>1, <3>3, <3>4, <3>5, <3>6 DEF TypeOK, Observer
  <2>8. ASSUME NEW o \in Observers, ApplyObservation(o) PROVE TypeOK'
    <3> DEFINE q == observer[o]
               d == store[q.id]
               updated == Observed(d, q.dev, q.at, q.state, q.verify)
    <3>1. q.id \in Ids /\ q.at \in Times /\ q.state \in Observable
      BY <2>8 DEF TypeOK, ApplyObservation, Observer
    <3>2. Idle(q.id) \in Observer /\ Idle(q.id).phase = "idle"
      BY <3>1 DEF Idle, Observer, Observable
    <3>3. CASE Accepts(d, q.dev, q.at)
      <4>1. d \in Device /\ Valid(d)
        BY <3>1, <3>3 DEF Accepts, TypeOK
      <4>2. updated \in Device /\ Valid(updated)
        BY <3>1, <4>1, ObservedType, ObservedValid
      <4>3. store' = [store EXCEPT ![q.id] = updated]
        BY <2>8, <3>3 DEF ApplyObservation
      <4> HIDE DEF updated
      <4> QED
        BY <2>8, <3>1, <3>2, <4>2, <4>3 DEF ApplyObservation, TypeOK
    <3>4. CASE ~Accepts(d, q.dev, q.at)
      BY <2>8, <3>1, <3>2, <3>4 DEF ApplyObservation, TypeOK
    <3> QED
      BY <3>3, <3>4
  <2>9. ASSUME NEW o \in Observers, GiveUp(o) PROVE TypeOK'
    <3>1. observer[o].id \in Ids
      BY DEF TypeOK, Observer
    <3>2. Idle(observer[o].id) \in Observer /\ Idle(observer[o].id).phase = "idle"
      BY <3>1 DEF Idle, Observer, Observable
    <3> QED
      BY <2>9, <3>2 DEF GiveUp, TypeOK
  <2>10. CASE UNCHANGED vars
    BY <2>10 DEF vars, TypeOK
  <2> QED
    BY <2>1, <2>2, <2>3, <2>4, <2>5, <2>6, <2>7, <2>8, <2>9, <2>10 DEF Next
<1> QED
  BY <1>1, <1>2, PTL DEF Spec

-----------------------------------------------------------------------------
(* An address match does not depend on which of the two records is asked,    *)
(* nor on anything but the addresses.                                        *)
LEMMA MatchesSymmetric == ASSUME NEW a, NEW b, Matches(a, b) PROVE Matches(b, a)
  BY DEF Matches

SameAddresses(a, b) == a.mac = b.mac /\ a.host = b.host /\ a.ip = b.ip

(* A match survives a change of anything but the addresses.                  *)
LEMMA MatchesAddresses ==
    ASSUME NEW a, NEW b, NEW c, SameAddresses(a, c), Matches(c, b)
    PROVE  Matches(a, b)
  BY DEF Matches, SameAddresses

(* An observation keeps the addresses, the targets and the wake settings.    *)
LEMMA ObservedConfiguration ==
    ASSUME NEW current \in Device, NEW expected, NEW at, NEW state, NEW verify
    PROVE  LET d == Observed(current, expected, at, state, verify)
           IN /\ SameAddresses(d, current)
              /\ StatusTarget(d) = StatusTarget(current)
              /\ WakeTarget(d) = WakeTarget(current)
              /\ Configuration(d) = Configuration(current)
              /\ d.cap = "Disabled" <=> current.cap = "Disabled"
  <1> DEFINE d == Observed(current, expected, at, state, verify)
  <1>1. /\ d.mac = current.mac /\ d.host = current.host /\ d.ip = current.ip
        /\ d.check = current.check /\ d.wake = current.wake /\ d.name = current.name
    BY DEF Observed, Device
  <1>2. d.cap = "Disabled" <=> current.cap = "Disabled"
    BY DEF Observed, Qualifies, Device
  <1> HIDE DEF d
  <1>3. StatusTarget(d) = StatusTarget(current) /\ WakeTarget(d) = WakeTarget(current)
    BY <1>1 DEF StatusTarget, WakeTarget
  <1>4. Configuration(d) = Configuration(current) /\ SameAddresses(d, current)
    BY <1>1, <1>3 DEF Configuration, SameAddresses
  <1> QED
    BY <1>2, <1>3, <1>4 DEF d

(* What each step leaves as it is.                                           *)
LEMMA Frames ==
    ASSUME [Next]_vars
    PROVE  \/ UNCHANGED vars
           \/ \E e \in Editors :
                /\ (\E i \in Ids : Open(e, i) \/ OpenNew(e, i)) \/ Close(e)
                /\ UNCHANGED <<store, allocated, observer, observed, witnessed>>
           \/ \E e \in Editors, form \in Forms :
                Save(e, form) /\ UNCHANGED <<observer, observed, witnessed>>
           \/ \E i \in Ids :
                Delete(i) /\ UNCHANGED <<allocated, editor, observer, observed, witnessed>>
           \/ \E o \in Observers :
                /\ \/ GiveUp(o)
                   \/ \E i \in Ids : StartObserving(o, i)
                /\ UNCHANGED <<store, allocated, editor, observed, witnessed>>
           \/ \E o \in Observers, at \in Times, state \in Observable, verify \in BOOLEAN :
                /\ Answer(o, at, state, verify) /\ UNCHANGED <<store, allocated, editor>>
                /\ observed \subseteq observed' /\ witnessed \subseteq witnessed'
           \/ \E o \in Observers :
                ApplyObservation(o) /\ UNCHANGED <<allocated, editor, observed, witnessed>>
  <1>1. ASSUME NEW e \in Editors, NEW i \in Ids, Open(e, i) \/ OpenNew(e, i)
        PROVE  UNCHANGED <<store, allocated, observer, observed, witnessed>>
    BY <1>1 DEF Open, OpenNew
  <1>2. ASSUME NEW e \in Editors, Close(e)
        PROVE  UNCHANGED <<store, allocated, observer, observed, witnessed>>
    BY <1>2 DEF Close
  <1>3. ASSUME NEW e \in Editors, NEW form \in Forms, Save(e, form)
        PROVE  UNCHANGED <<observer, observed, witnessed>>
    BY <1>3 DEF Save
  <1>4. ASSUME NEW i \in Ids, Delete(i)
        PROVE  UNCHANGED <<allocated, editor, observer, observed, witnessed>>
    BY <1>4 DEF Delete
  <1>5. ASSUME NEW o \in Observers, NEW i \in Ids, StartObserving(o, i)
        PROVE  UNCHANGED <<store, allocated, editor, observed, witnessed>>
    BY <1>5 DEF StartObserving
  <1>6. ASSUME NEW o \in Observers, GiveUp(o)
        PROVE  UNCHANGED <<store, allocated, editor, observed, witnessed>>
    BY <1>6 DEF GiveUp
  <1>7. ASSUME NEW o \in Observers, NEW at, NEW state, NEW verify, Answer(o, at, state, verify)
        PROVE  /\ UNCHANGED <<store, allocated, editor>>
               /\ observed \subseteq observed' /\ witnessed \subseteq witnessed'
    BY <1>7 DEF Answer
  <1>8. ASSUME NEW o \in Observers, ApplyObservation(o)
        PROVE  UNCHANGED <<allocated, editor, observed, witnessed>>
    BY <1>8 DEF ApplyObservation
  <1>9. CASE \E e \in Editors, i \in Ids : Open(e, i) \/ OpenNew(e, i)
    BY <1>1, <1>9
  <1>10. CASE \E e \in Editors : Close(e)
    BY <1>2, <1>10
  <1>11. CASE \E e \in Editors, form \in Forms : Save(e, form)
    BY <1>3, <1>11
  <1>12. CASE \E i \in Ids : Delete(i)
    BY <1>4, <1>12
  <1>13. CASE \E o \in Observers, i \in Ids : StartObserving(o, i)
    BY <1>5, <1>13
  <1>14. CASE \E o \in Observers : GiveUp(o)
    BY <1>6, <1>14
  <1>15. CASE \E o \in Observers, at \in Times, state \in Observable, verify \in BOOLEAN :
                Answer(o, at, state, verify)
    BY <1>7, <1>15
  <1>16. CASE \E o \in Observers : ApplyObservation(o)
    BY <1>8, <1>16
  <1> QED
    BY <1>9, <1>10, <1>11, <1>12, <1>13, <1>14, <1>15, <1>16 DEF Next

(* Only a step of an editor changes its dialog.                              *)
LEMMA EditorSteps ==
    ASSUME TypeOK, [Next]_vars, NEW e \in Editors, editor'[e] # editor[e]
    PROVE  \/ \E i \in Ids : Open(e, i) \/ OpenNew(e, i)
           \/ \E form \in Forms : Save(e, form)
           \/ Close(e)
  <1>1. ASSUME NEW d \in Editors, NEW i \in Ids, Open(d, i) \/ OpenNew(d, i) PROVE d = e
    BY <1>1 DEF Open, OpenNew, TypeOK
  <1>2. ASSUME NEW d \in Editors, Close(d) PROVE d = e
    BY <1>2 DEF Close, TypeOK
  <1>3. ASSUME NEW d \in Editors, NEW form \in Forms, Save(d, form) PROVE d = e
    BY <1>3 DEF Save, TypeOK
  <1> QED
    BY <1>1, <1>2, <1>3, Frames DEF vars

(* Every step on the table is one of three: nothing, one checked save, or    *)
(* one device observed or deleted.                                           *)
LEMMA StoreSteps ==
    ASSUME TypeOK, [Next]_vars
    PROVE  \/ store' = store
           \/ \E e \in Editors, form \in Forms : Save(e, form)
           \/ \E i \in Ids : Delete(i)
           \/ \E o \in Observers : /\ ApplyObservation(o)
                                   /\ observer[o].id \in Ids
                                   /\ store[observer[o].id] \in Device
                                   /\ Accepts(store[observer[o].id], observer[o].dev, observer[o].at)
                                   /\ store' = [store EXCEPT ![observer[o].id] =
                                         Observed(store[observer[o].id], observer[o].dev, observer[o].at,
                                                  observer[o].state, observer[o].verify)]
  <1>1. ASSUME NEW o \in Observers, ApplyObservation(o), store' # store
        PROVE  /\ observer[o].id \in Ids
               /\ store[observer[o].id] \in Device
               /\ Accepts(store[observer[o].id], observer[o].dev, observer[o].at)
               /\ store' = [store EXCEPT ![observer[o].id] =
                     Observed(store[observer[o].id], observer[o].dev, observer[o].at,
                              observer[o].state, observer[o].verify)]
    <2>1. observer[o].id \in Ids
      BY DEF TypeOK, Observer
    <2> QED
      BY <1>1, <2>1 DEF ApplyObservation, Accepts, TypeOK
  <1> QED
    BY <1>1, Frames DEF vars

(* Every step keeps addresses unique.                                        *)
LEMMA UniqueAddressesStep == TypeOK /\ UniqueAddresses /\ [Next]_vars => UniqueAddresses'
  <1> SUFFICES ASSUME TypeOK, UniqueAddresses, [Next]_vars,
                      NEW i \in Ids, NEW j \in Ids, i # j,
                      store'[i] # None, store'[j] # None, Matches(store'[i], store'[j])
               PROVE  FALSE
    BY DEF UniqueAddresses
  <1>1. ASSUME NEW e \in Editors, NEW form \in Forms, Save(e, form) PROVE FALSE
    <2> DEFINE k == editor[e].id
               record == SavedRecord(k, Edited(editor[e].original, form))
    <2>1. k \in Ids /\ ~Duplicate(k, record) /\ store' = [store EXCEPT ![k] = record]
      BY <1>1 DEF Save, TypeOK, Editor
    <2> HIDE DEF record, k
    <2>2. CASE i = k
      BY <2>1, <2>2 DEF Duplicate, TypeOK
    <2>3. CASE j = k
      BY <2>1, <2>3, MatchesSymmetric DEF Duplicate, TypeOK
    <2>4. CASE i # k /\ j # k
      BY <2>1, <2>4 DEF UniqueAddresses, TypeOK
    <2> QED
      BY <2>2, <2>3, <2>4
  <1>2. ASSUME NEW k \in Ids, Delete(k) PROVE FALSE
    BY <1>2 DEF Delete, UniqueAddresses, TypeOK
  <1>3. ASSUME NEW o \in Observers, store[observer[o].id] \in Device, observer[o].id \in Ids,
               store' = [store EXCEPT ![observer[o].id] =
                            Observed(store[observer[o].id], observer[o].dev, observer[o].at,
                                     observer[o].state, observer[o].verify)]
        PROVE  FALSE
    <2>1. \A l \in Ids : store'[l] # None =>
              store[l] # None /\ SameAddresses(store'[l], store[l])
      BY <1>3, ObservedConfiguration DEF TypeOK, SameAddresses, DeviceAssumption
    <2>2. Matches(store[i], store[j])
      BY <2>1 DEF SameAddresses, Matches
    <2> QED
      BY <2>1, <2>2 DEF UniqueAddresses
  <1>4. CASE store' = store
    BY <1>4 DEF UniqueAddresses
  <1> QED
    BY <1>1, <1>2, <1>3, <1>4, StoreSteps

(* No two managed devices ever share a MAC, host name or IPv4 address.       *)
THEOREM AddressesUnique == Spec => []UniqueAddresses
<1>1. Init => UniqueAddresses
  BY DEF Init, UniqueAddresses
<1> QED
  BY <1>1, UniqueAddressesStep, TypeCorrect, PTL DEF Spec

-----------------------------------------------------------------------------
(* A save over a stored device keeps its last check, or moves its target.    *)
LEMMA MergedChecked ==
    ASSUME NEW current \in Device, NEW new \in Device,
           SameStatus(current, Merged(current, new))
    PROVE  Merged(current, new).checked = current.checked
  <1>1. /\ Merged(current, new).host = new.host /\ Merged(current, new).ip = new.ip
        /\ Merged(current, new).mac = new.mac /\ Merged(current, new).check = new.check
    BY DEF Merged, Device
  <1>2. SameStatus(current, new)
    BY <1>1 DEF SameStatus, StatusTarget
  <1> QED
    BY <1>2 DEF Merged, Device

(* The last check of an unchanged target never goes back.                    *)
THEOREM LastCheckedNeverGoesBack == Spec => LastCheckedAdvances
<1>1. ASSUME TypeOK, [Next]_vars, NEW i \in Ids, store[i] # None, store'[i] # None,
             SameStatus(store[i], store'[i])
      PROVE  store[i].checked <= store'[i].checked
  <2>1. store[i] \in Device /\ store[i].checked \in Nat
    <3>1. store[i] \in Device
      BY <1>1 DEF TypeOK
    <3>2. store[i].checked \in Times \cup {0}
      BY <3>1 DEF Device
    <3>3. Times \cup {0} \subseteq Nat
      BY DEF DeviceAssumption
    <3> QED
      BY <3>1, <3>2, <3>3
  <2>2. ASSUME NEW e \in Editors, NEW form \in Forms, Save(e, form)
        PROVE  store'[i].checked = store[i].checked
    <3> DEFINE k == editor[e].id
               edited == Edited(editor[e].original, form)
    <3>1. k \in Ids /\ store' = [store EXCEPT ![k] = SavedRecord(k, edited)]
          /\ edited \in Device
      BY <2>2, <1>1, EditedType DEF Save, TypeOK, Editor, RepositoryAssumption
    <3> HIDE DEF k, edited
    <3>2. CASE i = k
      BY <1>1, <2>1, <3>1, <3>2, MergedChecked DEF SavedRecord, TypeOK
    <3> QED
      BY <1>1, <3>1, <3>2 DEF TypeOK
  <2>3. ASSUME NEW k \in Ids, Delete(k) PROVE store'[i] = store[i]
    BY <1>1, <2>3 DEF Delete, TypeOK
  <2>4. ASSUME NEW o \in Observers, observer[o].id \in Ids,
               Accepts(store[observer[o].id], observer[o].dev, observer[o].at),
               store' = [store EXCEPT ![observer[o].id] =
                            Observed(store[observer[o].id], observer[o].dev, observer[o].at,
                                     observer[o].state, observer[o].verify)]
        PROVE  store[i].checked <= store'[i].checked
    <3>1. CASE i = observer[o].id
      <4>1. store'[i].checked = observer[o].at
        BY <1>1, <2>1, <2>4, <3>1 DEF TypeOK, Observed, Device
      <4> QED
        BY <2>4, <3>1, <4>1 DEF Accepts
    <3>2. CASE i # observer[o].id
      BY <1>1, <2>1, <2>4, <3>2 DEF TypeOK
    <3> QED
      BY <3>1, <3>2
  <2> QED
    BY <1>1, <2>1, <2>2, <2>3, <2>4, StoreSteps
<1>2. TypeOK /\ [Next]_vars =>
        [\A i \in Ids : /\ store[i] # None /\ store'[i] # None
                        /\ SameStatus(store[i], store'[i])
                        => store[i].checked <= store'[i].checked]_vars
  BY <1>1
<1> QED
  BY <1>2, TypeCorrect, PTL DEF Spec, LastCheckedAdvances

-----------------------------------------------------------------------------
(* An answer on its way to the store is in the history, and so is the wake   *)
(* behind a request to verify.                                               *)
ObserverEvidence ==
    \A o \in Observers : LET q == observer[o] IN q.phase = "applying" =>
        /\ [id |-> q.id, target |-> StatusTarget(q.dev), at |-> q.at, state |-> q.state]
              \in observed
        /\ q.verify => [id |-> q.id, target |-> WakeTarget(q.dev)] \in witnessed

(* What a dialog holds as Verified was witnessed for that MAC and those wake *)
(* settings.                                                                 *)
EditorEvidence ==
    \A e \in Editors : LET q == editor[e] IN
        q.original # None /\ q.original.cap = "Verified" => WakeEvidence(witnessed, q.id, q.original)

(* A dialog open on a device that is not stored was opened for a new one:    *)
(* this is what a second process breaks.                                     *)
NotChecked(d) == IF d.seen \in Sightings THEN d.state = "Online"
                 ELSE d.state = "Unknown" /\ d.seen = 0
Fresh(d) == d.cap = "Disabled" /\ d.checked = 0 /\ NotChecked(d)
UnstoredIsFresh ==
    \A e \in Editors : LET q == editor[e] IN
        q.original # None /\ store[q.id] = None => Fresh(q.original)

MacEvidenceInv == VerifiedKeepsMacAndWake /\ ObserverEvidence /\ EditorEvidence
TargetEvidenceInv ==
    StatusOfOwnTarget /\ VerifiedWasWitnessed /\ ObserverEvidence /\ UnstoredIsFresh

(* Every record that a dialog for a new device opens with is fresh.          *)
LEMMA NewIsFresh ==
    ASSUME NEW new \in {NewDevice} \cup {Discovered(f) : f \in Discoveries}
    PROVE  Fresh(new)
  <1>1. CASE new = NewDevice
    <2>1. new.cap = "Disabled" /\ new.checked = 0 /\ new.seen = 0 /\ new.state = "Unknown"
      BY <1>1 DEF NewDevice
    <2> QED
      BY <2>1 DEF Fresh, NotChecked, Sightings
  <1>2. ASSUME NEW f \in Discoveries, new = Discovered(f) PROVE Fresh(new)
    <2>1. /\ new.cap = "Disabled" /\ new.checked = 0 /\ new.seen = f.seen
          /\ new.state = IF f.seen # 0 THEN "Online" ELSE "Unknown"
      BY <1>2, DiscoveredType
    <2>2. f.seen # 0 <=> f.seen \in Sightings
      BY DEF Sightings
    <2> QED
      BY <2>1, <2>2 DEF Fresh, NotChecked
  <1> QED
    BY <1>1, <1>2

(* Nothing is ever taken out of the two histories.                           *)
LEMMA HistoryGrows == [Next]_vars => observed \subseteq observed' /\ witnessed \subseteq witnessed'
  BY Frames DEF vars

(* Every step keeps the evidence that the observers carry.                   *)
LEMMA ObserverEvidenceStep ==
    TypeOK /\ ObserverEvidence /\ [Next]_vars => ObserverEvidence'
  <1> SUFFICES ASSUME TypeOK, ObserverEvidence, [Next]_vars,
                      NEW o \in Observers, observer'[o].phase = "applying"
               PROVE  LET q == observer'[o]
                      IN /\ [id |-> q.id, target |-> StatusTarget(q.dev),
                              at |-> q.at, state |-> q.state] \in observed'
                         /\ q.verify => [id |-> q.id, target |-> WakeTarget(q.dev)] \in witnessed'
    BY DEF ObserverEvidence
  <1>1. CASE observer'[o] = observer[o]
    BY <1>1, HistoryGrows DEF ObserverEvidence
  <1>2. ASSUME NEW at \in Times, NEW state \in Observable, NEW verify \in BOOLEAN,
               Answer(o, at, state, verify)
        PROVE  LET q == observer'[o]
               IN /\ [id |-> q.id, target |-> StatusTarget(q.dev),
                       at |-> q.at, state |-> q.state] \in observed'
                  /\ q.verify => [id |-> q.id, target |-> WakeTarget(q.dev)] \in witnessed'
    <2>1. /\ observer'[o].id = observer[o].id /\ observer'[o].dev = observer[o].dev
          /\ observer'[o].at = at /\ observer'[o].state = state /\ observer'[o].verify = verify
      BY <1>2 DEF Answer, TypeOK, Observer
    <2>2. /\ [id |-> observer[o].id, target |-> StatusTarget(observer[o].dev),
              at |-> at, state |-> state] \in observed'
          /\ verify => [id |-> observer[o].id, target |-> WakeTarget(observer[o].dev)] \in witnessed'
      BY <1>2 DEF Answer
    <2> QED
      BY <2>1, <2>2
  <1>3. ASSUME NEW p \in Observers, NEW i \in Ids, StartObserving(p, i)
        PROVE  observer'[o] = observer[o]
    <2>1. [Idle(i) EXCEPT !.phase = "checking", !.dev = store[i]].phase = "checking"
      BY DEF Idle
    <2> QED
      BY <1>3, <2>1 DEF StartObserving, TypeOK
  <1>4. ASSUME NEW p \in Observers, ApplyObservation(p) \/ GiveUp(p)
        PROVE  observer'[o] = observer[o]
    <2>1. Idle(observer[p].id).phase = "idle"
      BY DEF Idle
    <2>2. observer' = [observer EXCEPT ![p] = Idle(observer[p].id)]
      BY <1>4 DEF ApplyObservation, GiveUp
    <2> QED
      BY <2>1, <2>2 DEF TypeOK
  <1>5. ASSUME NEW p \in Observers, p # o, NEW at \in Times, NEW state \in Observable,
               NEW verify \in BOOLEAN, Answer(p, at, state, verify)
        PROVE  observer'[o] = observer[o]
    BY <1>5 DEF Answer, TypeOK
  <1>6. \/ observer' = observer
        \/ \E p \in Observers, i \in Ids : StartObserving(p, i)
        \/ \E p \in Observers : ApplyObservation(p) \/ GiveUp(p)
        \/ \E p \in Observers, at \in Times, state \in Observable, verify \in BOOLEAN :
              Answer(p, at, state, verify)
    BY DEF Next, vars, Open, OpenNew, Save, Close, Delete
  <1> QED
    BY <1>1, <1>2, <1>3, <1>4, <1>5, <1>6

(* Where Verified comes from, in each of the three ways a record is written. *)
LEMMA EditedVerified ==
    ASSUME NEW original \in Device, NEW form \in Form, Edited(original, form).cap = "Verified"
    PROVE  /\ original.cap = "Verified"
           /\ Edited(original, form).mac = original.mac
           /\ Edited(original, form).wake = original.wake
  <1>1. Edited(original, form).cap = EditedCapability(original, form)
        /\ Edited(original, form).mac = form.mac /\ Edited(original, form).wake = form.wake
    BY DEF Edited, Device
  <1> QED
    BY <1>1 DEF EditedCapability

(* Merging keeps the configuration that the editor saved.                    *)
LEMMA MergedConfiguration ==
    ASSUME NEW current \in Device, NEW new \in Device
    PROVE  WakeTarget(Merged(current, new)) = WakeTarget(new)
  <1> DEFINE d == Merged(current, new)
  <1>1. /\ d.mac = new.mac /\ d.host = new.host /\ d.ip = new.ip
        /\ d.check = new.check /\ d.wake = new.wake
    BY DEF Merged, Device
  <1> HIDE DEF d
  <1> QED
    BY <1>1 DEF WakeTarget, StatusTarget, d

(* Records with one wake target agree on all of its parts.                   *)
LEMMA WakeTargetFields ==
    ASSUME NEW a, NEW b, WakeTarget(a) = WakeTarget(b)
    PROVE  StatusTarget(a) = StatusTarget(b) /\ a.mac = b.mac /\ a.wake = b.wake
  BY DEF WakeTarget, StatusTarget

(* A merged record is Verified only if the stored one was, for this target.  *)
LEMMA MergedVerified ==
    ASSUME NEW current \in Device, NEW new \in Device, Merged(current, new).cap = "Verified"
    PROVE  /\ current.cap = "Verified"
           /\ WakeTarget(Merged(current, new)) = WakeTarget(current)
  <1>1. Merged(current, new).cap = MergedCapability(current, new)
    BY DEF Merged, Device
  <1>2. current.cap = "Verified" /\ WakeTarget(current) = WakeTarget(new)
    BY <1>1 DEF MergedCapability, SameWake
  <1> QED
    BY <1>2, MergedConfiguration

(* An observed record is Verified if it was, or by this very wake.           *)
LEMMA ObservedVerified ==
    ASSUME NEW current \in Device, NEW expected, NEW at, NEW state, NEW verify,
           Observed(current, expected, at, state, verify).cap = "Verified"
    PROVE  \/ current.cap = "Verified"
           \/ verify /\ WakeTarget(current) = WakeTarget(expected)
  BY DEF Observed, Device, Qualifies, SameWake

(* Every step keeps the evidence of the MAC and the wake settings.           *)
LEMMA MacEvidenceStep == TypeOK /\ MacEvidenceInv /\ [Next]_vars => MacEvidenceInv'
  <1> SUFFICES ASSUME TypeOK, MacEvidenceInv, [Next]_vars PROVE MacEvidenceInv'
    OBVIOUS
  <1> USE DEF MacEvidenceInv
  <1>0. \A i, d : WakeEvidence(witnessed, i, d) => WakeEvidence(witnessed', i, d)
    BY HistoryGrows DEF WakeEvidence
  <1>1. ASSUME NEW i \in Ids, store'[i] # None, store'[i].cap = "Verified"
        PROVE  WakeEvidence(witnessed', i, store'[i])
    <2>1. ASSUME NEW e \in Editors, NEW form \in Forms, Save(e, form), i = editor[e].id
          PROVE  WakeEvidence(witnessed, i, store'[i])
      <3> DEFINE edited == Edited(editor[e].original, form)
      <3>1. editor[e].original \in Device /\ edited \in Device /\ form \in Form
        BY <2>1, EditedType DEF Save, TypeOK, Editor, RepositoryAssumption
      <3>2. store'[i] = IF store[i] = None THEN edited ELSE Merged(store[i], edited)
        BY <2>1 DEF Save, SavedRecord, TypeOK
      <3>3. CASE store[i] = None
        <4>1. editor[e].original.cap = "Verified" /\ edited.mac = editor[e].original.mac
              /\ edited.wake = editor[e].original.wake
          BY <1>1, <3>1, <3>2, <3>3, EditedVerified
        <4>2. WakeEvidence(witnessed, i, editor[e].original)
          BY <2>1, <4>1, <3>1 DEF EditorEvidence, Save
        <4> HIDE DEF edited
        <4> QED
          BY <3>2, <3>3, <4>1, <4>2 DEF WakeEvidence
      <3>4. CASE store[i] # None
        <4> HIDE DEF edited
        <4>1. store[i].cap = "Verified" /\ WakeTarget(store'[i]) = WakeTarget(store[i])
          BY <1>1, <3>1, <3>2, <3>4, MergedVerified DEF TypeOK
        <4>2. store'[i].mac = store[i].mac /\ store'[i].wake = store[i].wake
          BY <4>1, WakeTargetFields
        <4> QED
          BY <3>4, <4>1, <4>2 DEF WakeEvidence, VerifiedKeepsMacAndWake
      <3> QED
        BY <3>3, <3>4
    <2>2. ASSUME NEW o \in Observers, ApplyObservation(o), i = observer[o].id,
                 store[i] \in Device,
                 store'[i] = Observed(store[i], observer[o].dev, observer[o].at,
                                      observer[o].state, observer[o].verify)
          PROVE  WakeEvidence(witnessed, i, store'[i])
      <3>1. store'[i].mac = store[i].mac /\ WakeTarget(store'[i]) = WakeTarget(store[i])
        BY <2>2, ObservedConfiguration DEF SameAddresses
      <3>2. store'[i].wake = store[i].wake
        BY <3>1, WakeTargetFields
      <3>3. CASE store[i].cap = "Verified"
        BY <2>2, <3>1, <3>2, <3>3 DEF WakeEvidence, VerifiedKeepsMacAndWake, DeviceAssumption
      <3>4. CASE observer[o].verify /\ WakeTarget(store[i]) = WakeTarget(observer[o].dev)
        <4>1. [id |-> i, target |-> WakeTarget(store[i])] \in witnessed
          BY <2>2, <3>4 DEF ObserverEvidence, ApplyObservation
        <4>2. WakeTarget(store[i]).status.mac = store[i].mac /\ WakeTarget(store[i]).wake = store[i].wake
          BY DEF WakeTarget, StatusTarget
        <4> QED
          BY <3>1, <3>2, <4>1, <4>2 DEF WakeEvidence
      <3> QED
        BY <1>1, <2>2, <3>3, <3>4, ObservedVerified
    <2>3. CASE store'[i] = store[i]
      BY <1>0, <1>1, <2>3 DEF VerifiedKeepsMacAndWake
    <2>4. ASSUME NEW e \in Editors, NEW form \in Forms, Save(e, form), i # editor[e].id
          PROVE  store'[i] = store[i]
      BY <2>4 DEF Save, TypeOK
    <2>5. ASSUME NEW k \in Ids, Delete(k) PROVE store'[i] = store[i]
      BY <1>1, <2>5 DEF Delete, TypeOK
    <2> QED
      BY <1>0, <2>1, <2>2, <2>3, <2>4, <2>5, StoreSteps DEF TypeOK
  <1>2. EditorEvidence'
    <2> SUFFICES ASSUME NEW e \in Editors, editor'[e].original # None,
                        editor'[e].original.cap = "Verified"
                 PROVE  WakeEvidence(witnessed', editor'[e].id, editor'[e].original)
      BY DEF EditorEvidence
    <2>1. CASE editor'[e] = editor[e]
      BY <1>0, <2>1 DEF EditorEvidence
    <2>2. ASSUME NEW i \in Ids, Open(e, i)
          PROVE  WakeEvidence(witnessed', editor'[e].id, editor'[e].original)
      BY <1>0, <2>2 DEF Open, TypeOK, VerifiedKeepsMacAndWake
    <2>3. ASSUME NEW i \in Ids, OpenNew(e, i) PROVE FALSE
      <3>1. PICK new \in {NewDevice} \cup {Discovered(f) : f \in Discoveries} :
               editor' = [editor EXCEPT ![e] = [id |-> i, original |-> new]]
        BY <2>3 DEF OpenNew
      <3>2. new.cap = "Disabled"
        BY NewIsFresh DEF Fresh
      <3> QED
        BY <3>1, <3>2 DEF TypeOK
    <2>4. ASSUME NEW form \in Forms, Save(e, form) \/ Close(e) PROVE FALSE
      BY <2>4 DEF Save, Close, Closed, TypeOK
    <2>5. Close(e) => editor'[e].original = None
      BY DEF Close, Closed, TypeOK
    <2>6. editor'[e] # editor[e] =>
            \/ \E i \in Ids : Open(e, i) \/ OpenNew(e, i)
            \/ \E form \in Forms : Save(e, form)
            \/ Close(e)
      BY EditorSteps
    <2> QED
      BY <2>1, <2>2, <2>3, <2>4, <2>5, <2>6
  <1>3. VerifiedKeepsMacAndWake'
    BY <1>1 DEF VerifiedKeepsMacAndWake
  <1> QED
    BY <1>2, <1>3, ObserverEvidenceStep

(* Verified never outlives a change of the MAC or of the wake settings, even *)
(* when several processes edit one data folder.                              *)
THEOREM VerifiedKeepsEvidence == Spec => []VerifiedKeepsMacAndWake
<1>1. Init => MacEvidenceInv
  BY DEF Init, MacEvidenceInv, VerifiedKeepsMacAndWake, ObserverEvidence, EditorEvidence,
         Closed, Idle
<1>2. MacEvidenceInv => VerifiedKeepsMacAndWake
  BY DEF MacEvidenceInv
<1> QED
  BY <1>1, <1>2, MacEvidenceStep, TypeCorrect, PTL DEF Spec

-----------------------------------------------------------------------------
(* The evidence a stored record owes to the history.                         *)
StatusEvidence(i, d) ==
    /\ d.checked = 0 => NotChecked(d)
    /\ d.checked # 0 => [id |-> i, target |-> StatusTarget(d),
                         at |-> d.checked, state |-> d.state] \in observed
    /\ d.seen # 0 => \/ d.seen \in Sightings
                     \/ [id |-> i, target |-> StatusTarget(d),
                         at |-> d.seen, state |-> "Online"] \in observed
TargetEvidence(i, d) ==
    /\ StatusEvidence(i, d)
    /\ d.cap = "Verified" => [id |-> i, target |-> WakeTarget(d)] \in witnessed

(* A new device starts without observations and not Verified.               *)
LEMMA EditedFresh ==
    ASSUME NEW original \in Device, NEW form \in Form, Fresh(original), NEW i
    PROVE  TargetEvidence(i, Edited(original, form))
  <1> DEFINE d == Edited(original, form)
  <1>1. d.checked = 0 /\ d.seen = original.seen /\ d.state = original.state
    BY DEF Edited, Device, Fresh
  <1>2. d.cap # "Verified"
    BY EditedVerified DEF Fresh
  <1> HIDE DEF d
  <1> QED
    BY <1>1, <1>2 DEF TargetEvidence, StatusEvidence, Fresh, NotChecked, d

(* A save over a stored device keeps only what there is evidence for.        *)
LEMMA MergedEvidence ==
    ASSUME NEW current \in Device, NEW new \in Device, NEW i, TargetEvidence(i, current)
    PROVE  TargetEvidence(i, Merged(current, new))
  <1> DEFINE d == Merged(current, new)
  <1>1. ASSUME SameStatus(current, new) PROVE StatusEvidence(i, d)
    <2>1. StatusTarget(d) = StatusTarget(current)
      BY <1>1, MergedConfiguration, WakeTargetFields DEF SameStatus
    <2>2. d.checked = current.checked /\ d.seen = current.seen /\ d.state = current.state
      BY <1>1 DEF Merged, Device
    <2> HIDE DEF d
    <2> QED
      BY <2>1, <2>2 DEF TargetEvidence, StatusEvidence, NotChecked
  <1>2. ASSUME ~SameStatus(current, new) PROVE StatusEvidence(i, d)
    <2>1. d.checked = 0 /\ d.seen = 0 /\ d.state = "Unknown"
      BY <1>2 DEF Merged, Device
    <2> HIDE DEF d
    <2> QED
      BY <2>1 DEF StatusEvidence, NotChecked, Sightings
  <1>3. StatusEvidence(i, d)
    BY <1>1, <1>2
  <1>4. d.cap = "Verified" => [id |-> i, target |-> WakeTarget(d)] \in witnessed
    BY MergedVerified DEF TargetEvidence
  <1> QED
    BY <1>3, <1>4 DEF TargetEvidence

(* An observation that is applied brings its own evidence.                   *)
LEMMA ObservedEvidence ==
    ASSUME NEW o \in Observers, NEW i \in Ids, ObserverEvidence, TypeOK,
           ApplyObservation(o), observer[o].id = i, store[i] \in Device,
           Accepts(store[i], observer[o].dev, observer[o].at), TargetEvidence(i, store[i])
    PROVE  TargetEvidence(i, Observed(store[i], observer[o].dev, observer[o].at,
                                      observer[o].state, observer[o].verify))
  <1> DEFINE q == observer[o]
             c == store[i]
             d == Observed(c, q.dev, q.at, q.state, q.verify)
  <1>1. StatusTarget(d) = StatusTarget(c) /\ WakeTarget(d) = WakeTarget(c)
    BY ObservedConfiguration
  <1>2. StatusTarget(c) = StatusTarget(q.dev)
    BY DEF Accepts, SameStatus
  <1>3. /\ [id |-> i, target |-> StatusTarget(c), at |-> q.at, state |-> q.state] \in observed
        /\ q.verify => [id |-> i, target |-> WakeTarget(q.dev)] \in witnessed
    BY <1>2 DEF ObserverEvidence, ApplyObservation
  <1>4. /\ d.checked = q.at /\ d.state = q.state
        /\ d.seen = IF q.state = "Online" THEN q.at ELSE c.seen
    BY DEF Observed, Device
  <1>5. q.at # 0
    BY DEF TypeOK, ApplyObservation
  <1>6. d.cap = IF Qualifies(c, q.dev, q.state, q.verify) THEN "Verified" ELSE c.cap
    BY DEF Observed, Device
  <1>7. Qualifies(c, q.dev, q.state, q.verify) =>
            [id |-> i, target |-> WakeTarget(c)] \in witnessed
    BY <1>3 DEF Qualifies, SameWake
  <1> HIDE DEF d, c, q
  <1>8. StatusEvidence(i, d)
    BY <1>1, <1>3, <1>4, <1>5 DEF TargetEvidence, StatusEvidence, c
  <1>9. d.cap = "Verified" => [id |-> i, target |-> WakeTarget(d)] \in witnessed
    BY <1>1, <1>6, <1>7 DEF TargetEvidence, c
  <1> QED
    BY <1>8, <1>9 DEF TargetEvidence, d, c, q

(* Every step of a single instance keeps the evidence of the own target.     *)
LEMMA TargetEvidenceStep ==
    ASSUME SingleInstance, TypeOK, TargetEvidenceInv, [Next]_vars
    PROVE  TargetEvidenceInv'
  <1> USE DEF TargetEvidenceInv
  <1>0. \A i \in Ids : store[i] # None => TargetEvidence(i, store[i])
    BY DEF TargetEvidence, StatusEvidence, NotChecked, StatusOfOwnTarget, VerifiedWasWitnessed
  <1>1. ASSUME NEW i \in Ids, store'[i] # None, store'[i] # store[i]
        PROVE  TargetEvidence(i, store'[i])
    <2>1. ASSUME NEW e \in Editors, NEW form \in Forms, Save(e, form), i = editor[e].id
          PROVE  TargetEvidence(i, store'[i])
      <3> DEFINE edited == Edited(editor[e].original, form)
      <3>1. editor[e].original \in Device /\ edited \in Device /\ form \in Form
        BY <2>1, EditedType DEF Save, TypeOK, Editor, RepositoryAssumption
      <3>2. store'[i] = IF store[i] = None THEN edited ELSE Merged(store[i], edited)
        BY <2>1 DEF Save, SavedRecord, TypeOK
      <3>3. CASE store[i] = None
        <4>1. Fresh(editor[e].original)
          BY <2>1, <3>3 DEF UnstoredIsFresh, Save
        <4> QED
          BY <3>1, <3>2, <3>3, <4>1, EditedFresh
      <3>4. CASE store[i] # None
        BY <1>0, <3>1, <3>2, <3>4, MergedEvidence DEF TypeOK
      <3> QED
        BY <3>3, <3>4
    <2>2. ASSUME NEW e \in Editors, NEW form \in Forms, Save(e, form), i # editor[e].id
          PROVE  FALSE
      BY <1>1, <2>2 DEF Save, TypeOK
    <2>3. ASSUME NEW k \in Ids, Delete(k) PROVE FALSE
      BY <1>1, <2>3 DEF Delete, TypeOK
    <2>4. ASSUME NEW o \in Observers, ApplyObservation(o),
                 observer[o].id \in Ids, store[observer[o].id] \in Device,
                 Accepts(store[observer[o].id], observer[o].dev, observer[o].at),
                 store' = [store EXCEPT ![observer[o].id] =
                              Observed(store[observer[o].id], observer[o].dev, observer[o].at,
                                       observer[o].state, observer[o].verify)]
          PROVE  TargetEvidence(i, store'[i])
      <3>1. i = observer[o].id
        BY <1>1, <2>4 DEF TypeOK
      <3>2. store'[i] = Observed(store[i], observer[o].dev, observer[o].at,
                                 observer[o].state, observer[o].verify)
        BY <2>4, <3>1 DEF TypeOK
      <3>3. TargetEvidence(i, store[i])
        BY <1>0, <2>4, <3>1 DEF DeviceAssumption
      <3> QED
        BY <2>4, <3>1, <3>2, <3>3, ObservedEvidence
    <2> QED
      BY <1>1, <2>1, <2>2, <2>3, <2>4, StoreSteps
  <1>2. \A i \in Ids : store'[i] # None => TargetEvidence(i, store'[i])
    BY <1>0, <1>1
  <1>3. StatusOfOwnTarget' /\ VerifiedWasWitnessed'
    BY <1>2, HistoryGrows DEF TargetEvidence, StatusEvidence, NotChecked, StatusOfOwnTarget,
                              VerifiedWasWitnessed
  <1>4. UnstoredIsFresh'
    <2> SUFFICES ASSUME NEW e \in Editors, editor'[e].original # None,
                        store'[editor'[e].id] = None
                 PROVE  Fresh(editor'[e].original)
      BY DEF UnstoredIsFresh
    <2>1. CASE editor'[e] = editor[e] /\ store[editor[e].id] = None
      BY <2>1 DEF UnstoredIsFresh
    <2>2. CASE editor'[e] = editor[e] /\ store[editor[e].id] # None
      <3>1. PICK i \in Ids : i = editor[e].id
        BY DEF TypeOK, Editor
      <3>2. ASSUME NEW f \in Editors, NEW form \in Forms, Save(f, form) PROVE FALSE
        <4> DEFINE k == editor[f].id
                   record == SavedRecord(k, Edited(editor[f].original, form))
        <4>1. record # None
          <5>1. Edited(editor[f].original, form) \in Device
            BY <3>2, EditedType DEF Save, TypeOK, Editor, RepositoryAssumption
          <5>2. k \in Ids
            BY DEF TypeOK, Editor
          <5> QED
            BY <5>1, <5>2, MergedType DEF SavedRecord, TypeOK, DeviceAssumption
        <4>2. k \in Ids /\ store' = [store EXCEPT ![k] = record]
          BY <3>2 DEF Save, TypeOK, Editor
        <4> HIDE DEF k, record
        <4> QED
          BY <2>2, <3>1, <4>1, <4>2 DEF TypeOK
      <3>3. ASSUME NEW k \in Ids, Delete(k) PROVE FALSE
        BY <2>2, <3>1, <3>3 DEF Delete, MayDelete, TypeOK
      <3>4. ASSUME NEW k \in Ids, NEW d, d # None, store' = [store EXCEPT ![k] = d] PROVE FALSE
        BY <2>2, <3>1, <3>4 DEF TypeOK
      <3>5. ASSUME NEW o \in Observers, observer[o].id \in Ids, store[observer[o].id] \in Device,
                   store' = [store EXCEPT ![observer[o].id] =
                                Observed(store[observer[o].id], observer[o].dev, observer[o].at,
                                         observer[o].state, observer[o].verify)],
                   ApplyObservation(o)
            PROVE  FALSE
        <4>1. observer[o].at \in Times /\ observer[o].state \in Observable
          BY <3>5 DEF TypeOK, ApplyObservation, Observer
        <4>2. Observed(store[observer[o].id], observer[o].dev, observer[o].at,
                       observer[o].state, observer[o].verify) # None
          <5>1. Observed(store[observer[o].id], observer[o].dev, observer[o].at,
                         observer[o].state, observer[o].verify) \in Device
            BY <3>5, <4>1, ObservedType
          <5> QED
            BY <5>1 DEF DeviceAssumption
        <4> QED
          BY <3>4, <3>5, <4>2
      <3> QED
        BY <2>2, <3>2, <3>3, <3>5, StoreSteps
    <2>3. ASSUME NEW i \in Ids, Open(e, i) PROVE FALSE
      BY <2>3 DEF Open, TypeOK
    <2>4. ASSUME NEW i \in Ids, OpenNew(e, i) PROVE Fresh(editor'[e].original)
      <3>1. PICK new \in {NewDevice} \cup {Discovered(f) : f \in Discoveries} :
               editor' = [editor EXCEPT ![e] = [id |-> i, original |-> new]]
        BY <2>4 DEF OpenNew
      <3> QED
        BY <3>1, NewIsFresh DEF TypeOK
    <2>5. ASSUME NEW form \in Forms, Save(e, form) PROVE FALSE
      BY <2>5 DEF Save, Closed, TypeOK
    <2>6. Close(e) => editor'[e].original = None
      BY DEF Close, Closed, TypeOK
    <2>7. editor'[e] # editor[e] =>
            \/ \E i \in Ids : Open(e, i) \/ OpenNew(e, i)
            \/ \E form \in Forms : Save(e, form)
            \/ Close(e)
      BY EditorSteps
    <2> QED
      BY <2>1, <2>2, <2>3, <2>4, <2>5, <2>6, <2>7
  <1> QED
    BY <1>3, <1>4, ObserverEvidenceStep

(* With one instance of MythLab on the data folder, what a device is said to *)
(* be was observed of its present target, and Verified was witnessed for its *)
(* present target and wake settings.                                         *)
THEOREM EvidenceOfOwnTarget ==
    ASSUME SingleInstance
    PROVE  Spec => [](StatusOfOwnTarget /\ VerifiedWasWitnessed)
<1>1. Init => TargetEvidenceInv
  BY DEF Init, TargetEvidenceInv, StatusOfOwnTarget, VerifiedWasWitnessed, ObserverEvidence,
         UnstoredIsFresh, Closed, Idle
<1>2. TypeOK /\ TargetEvidenceInv /\ [Next]_vars => TargetEvidenceInv'
  BY TargetEvidenceStep
<1>3. TargetEvidenceInv => StatusOfOwnTarget /\ VerifiedWasWitnessed
  BY DEF TargetEvidenceInv
<1> QED
  BY <1>1, <1>2, <1>3, TypeCorrect, PTL DEF Spec

(* In particular, a state shown for a device is one that was observed of its *)
(* present target, whatever dialogs and checks began with older copies.      *)
THEOREM StatusIsOfOwnTarget ==
    ASSUME SingleInstance
    PROVE  Spec => []StatusOfOwnTarget
<1>1. Spec => [](StatusOfOwnTarget /\ VerifiedWasWitnessed)
  BY EvidenceOfOwnTarget
<1> QED
  BY <1>1, PTL

(* Applying an observation neither revives a deleted device nor touches what *)
(* an editor saved.                                                          *)
THEOREM ObservationsNeverEdit == Spec => ObservationsKeepEdits
<1>1. ASSUME TypeOK, NEW o \in Observers, ApplyObservation(o), NEW i \in Ids
      PROVE  /\ store'[i] = None <=> store[i] = None
             /\ store[i] # None => /\ Configuration(store'[i]) = Configuration(store[i])
                                   /\ store'[i].cap = "Disabled" <=> store[i].cap = "Disabled"
  <2> DEFINE q == observer[o]
             d == Observed(store[q.id], q.dev, q.at, q.state, q.verify)
  <2>1. q.id \in Ids /\ q.at \in Times /\ q.state \in Observable
    BY <1>1 DEF TypeOK, ApplyObservation, Observer
  <2>2. CASE Accepts(store[q.id], q.dev, q.at)
    <3>1. store[q.id] \in Device
      BY <1>1, <2>1, <2>2 DEF Accepts, TypeOK
    <3>2. d \in Device
      BY <2>1, <3>1, ObservedType
    <3>3. d # None
      BY <3>2 DEF DeviceAssumption
    <3>4. /\ Configuration(d) = Configuration(store[q.id])
          /\ d.cap = "Disabled" <=> store[q.id].cap = "Disabled"
      BY <3>1, ObservedConfiguration
    <3>5. store' = [store EXCEPT ![q.id] = d]
      BY <1>1, <2>2 DEF ApplyObservation
    <3> HIDE DEF d
    <3> QED
      BY <1>1, <2>1, <3>1, <3>3, <3>4, <3>5 DEF TypeOK, DeviceAssumption
  <2>3. CASE ~Accepts(store[q.id], q.dev, q.at)
    BY <1>1, <2>3 DEF ApplyObservation
  <2> QED
    BY <2>2, <2>3
<1>2. TypeOK /\ [Next]_vars =>
        [\A o \in Observers : ApplyObservation(o) =>
           \A i \in Ids :
             /\ store'[i] = None <=> store[i] = None
             /\ store[i] # None => /\ Configuration(store'[i]) = Configuration(store[i])
                                   /\ store'[i].cap = "Disabled" <=> store[i].cap = "Disabled"]_vars
  BY <1>1
<1> QED
  BY <1>2, TypeCorrect, PTL DEF Spec, ObservationsKeepEdits

-----------------------------------------------------------------------------
(* The contract speaks of the same records and rules.                        *)
LEMMA ContractRules ==
    /\ Inventory!Device = Device
    /\ \A d : Inventory!Valid(d) <=> Valid(d)
    /\ \A a, b : /\ Inventory!Matches(a, b) <=> Matches(a, b)
                 /\ Inventory!SameStatus(a, b) <=> SameStatus(a, b)
                 /\ Inventory!SameWake(a, b) <=> SameWake(a, b)
<1>1. Inventory!Device = Device
  BY DEF Inventory!Device, Inventory!Capabilities, Inventory!Observable,
         Device, Capabilities, Observable
<1>2. \A d : Inventory!Valid(d) <=> Valid(d)
  BY DEF Inventory!Valid, Valid
<1>3. \A a, b : Inventory!Matches(a, b) <=> Matches(a, b)
  BY DEF Inventory!Matches, Matches
<1>4. \A a, b : /\ Inventory!SameStatus(a, b) <=> SameStatus(a, b)
                /\ Inventory!SameWake(a, b) <=> SameWake(a, b)
  BY DEF Inventory!SameStatus, Inventory!SameWake, Inventory!StatusTarget,
         Inventory!WakeTarget, SameStatus, SameWake, StatusTarget, WakeTarget
<1> QED
  BY <1>1, <1>2, <1>3, <1>4

(* A merge replaces a record as the contract allows.                         *)
LEMMA MergedReplaces ==
    ASSUME NEW current \in Device, NEW new \in Device
    PROVE  LET d == Merged(current, new)
           IN /\ Inventory!Observation(d) = IF SameStatus(current, d)
                                            THEN Inventory!Observation(current)
                                            ELSE Inventory!Unobserved
              /\ d.cap = "Verified" => current.cap = "Verified" /\ SameWake(current, d)
  <1> DEFINE d == Merged(current, new)
  <1>1. /\ d.host = new.host /\ d.ip = new.ip /\ d.mac = new.mac /\ d.check = new.check
        /\ d.wake = new.wake /\ d.cap = MergedCapability(current, new)
        /\ d.state = IF SameStatus(current, new) THEN current.state ELSE "Unknown"
        /\ d.checked = IF SameStatus(current, new) THEN current.checked ELSE 0
        /\ d.seen = IF SameStatus(current, new) THEN current.seen ELSE 0
    BY DEF Merged, Device
  <1> HIDE DEF d
  <1>2. (SameStatus(current, d) <=> SameStatus(current, new))
        /\ (SameWake(current, d) <=> SameWake(current, new))
    BY <1>1 DEF SameStatus, SameWake, StatusTarget, WakeTarget
  <1>3. Inventory!Observation(d) = IF SameStatus(current, d)
                                   THEN Inventory!Observation(current)
                                   ELSE Inventory!Unobserved
    BY <1>1, <1>2 DEF Inventory!Observation, Inventory!Unobserved
  <1>4. d.cap = "Verified" => current.cap = "Verified" /\ SameWake(current, d)
    BY <1>1, <1>2 DEF MergedCapability
  <1> QED
    BY <1>3, <1>4 DEF d

(* The repository keeps the contract of the inventory: for any number of     *)
(* dialogs, processes and observers with copies of any age, each of its      *)
(* transactions adds, replaces, observes or deletes one device as the        *)
(* contract allows, or leaves the table alone.                               *)
THEOREM RepositoryImplements == Spec => Contract
<1>1. Init => Inventory!Init
  BY ContractRules DEF Init, Inventory!Init, Inventory!UniqueAddresses
<1>2. TypeOK /\ [Next]_vars => [Inventory!Next]_store
  <2> SUFFICES ASSUME TypeOK, [Next]_vars, store' # store
               PROVE  Inventory!Next
    OBVIOUS
  <2>1. ASSUME NEW e \in Editors, NEW form \in Forms, Save(e, form)
        PROVE  Inventory!Next
    <3> DEFINE i == editor[e].id
               edited == Edited(editor[e].original, form)
               record == SavedRecord(i, edited)
    <3>0. i \in Ids /\ editor[e].original \in Device /\ form \in Form
      BY <2>1, RepositoryAssumption DEF Save, TypeOK, Editor
    <3>1. i \in Ids /\ edited \in Device
      BY <3>0, EditedType
    <3>2. Valid(edited) /\ ~Duplicate(i, record) /\ store' = [store EXCEPT ![i] = record]
      BY <2>1 DEF Save
    <3> HIDE DEF i, edited
    <3>3. CASE store[i] = None
      <4>1. record = edited
        BY <3>3 DEF SavedRecord
      <4> HIDE DEF record
      <4>2. Inventory!Admissible(i, edited)
        BY <3>2, <4>1, ContractRules DEF Inventory!Admissible, Duplicate
      <4>3. Inventory!Add(i, edited)
        BY <3>2, <3>3, <4>1, <4>2 DEF Inventory!Add
      <4> QED
        BY <3>1, <4>3, ContractRules DEF Inventory!Next
    <3>4. CASE store[i] # None
      <4> DEFINE d == Merged(store[i], edited)
      <4>1. store[i] \in Device /\ record = d
        BY <3>1, <3>4 DEF TypeOK, SavedRecord
      <4>2. d \in Device /\ Valid(d)
        BY <3>1, <3>2, <4>1, MergedType, MergedValid
      <4>3. /\ Inventory!Observation(d) = IF SameStatus(store[i], d)
                                          THEN Inventory!Observation(store[i])
                                          ELSE Inventory!Unobserved
            /\ d.cap = "Verified" => store[i].cap = "Verified" /\ SameWake(store[i], d)
        BY <3>1, <4>1, MergedReplaces
      <4> HIDE DEF d
      <4>4. Inventory!Admissible(i, d)
        BY <3>2, <4>1, <4>2, ContractRules DEF Inventory!Admissible, Duplicate
      <4>5. Inventory!Replace(i, d)
        BY <3>2, <3>4, <4>1, <4>3, <4>4, ContractRules DEF Inventory!Replace
      <4> QED
        BY <3>1, <4>2, <4>5, ContractRules DEF Inventory!Next
    <3> QED
      BY <3>3, <3>4
  <2>2. ASSUME NEW i \in Ids, Delete(i) PROVE Inventory!Next
    BY <2>2 DEF Delete, Inventory!Delete, Inventory!Next
  <2>3. ASSUME NEW o \in Observers, ApplyObservation(o),
               observer[o].id \in Ids, store[observer[o].id] \in Device,
               Accepts(store[observer[o].id], observer[o].dev, observer[o].at),
               store' = [store EXCEPT ![observer[o].id] =
                            Observed(store[observer[o].id], observer[o].dev, observer[o].at,
                                     observer[o].state, observer[o].verify)]
        PROVE  Inventory!Next
    <3> DEFINE q == observer[o]
               current == store[q.id]
               d == Observed(current, q.dev, q.at, q.state, q.verify)
    <3>1. d \in Device
      BY <2>3, ObservedType DEF TypeOK, Observer, ApplyObservation
    <3>2. current # None /\ current.checked <= q.at
      BY <2>3 DEF Accepts
    <3>3. Configuration(d) = Configuration(current)
      BY <2>3, ObservedConfiguration
    <3>4. /\ d.checked = q.at /\ d.state = q.state
          /\ d.seen = IF q.state = "Online" THEN q.at ELSE current.seen
          /\ d.cap = IF Qualifies(current, q.dev, q.state, q.verify)
                     THEN "Verified" ELSE current.cap
      BY <2>3 DEF Observed, Device
    <3>5. store' = [store EXCEPT ![q.id] = d] /\ q.id \in Ids
      BY <2>3
    <3> HIDE DEF d, q, current
    <3>6. d.name = current.name /\ SameWake(current, d)
      BY <3>3 DEF Configuration, SameWake
    <3>7. Inventory!Observe(q.id, d)
      BY <3>2, <3>4, <3>5, <3>6, ContractRules DEF Inventory!Observe, Qualifies, current
    <3> QED
      BY <3>1, <3>5, <3>7, ContractRules DEF Inventory!Next
  <2> QED
    BY <2>1, <2>2, <2>3, StoreSteps
<1> QED
  BY <1>1, <1>2, TypeCorrect, PTL DEF Spec, Contract, Inventory!Spec
=============================================================================
