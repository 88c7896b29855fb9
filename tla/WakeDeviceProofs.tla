---------------------------- MODULE WakeDeviceProofs ----------------------------
(* Theorems about WakeDevice, for any capability and any numbers of packets   *)
(* and retries that Device allows: how one call keeps WakeContract.          *)
EXTENDS WakeDevice, SequenceTheorems, TLAPS

USE WakeAssumption

(* Where the call is says what it has looked at and sent.                    *)
PacketsInv ==
    /\ \A i \in 1..Len(gaps) : gaps[i] = Pause(i - 1)
    /\ Len(gaps) <= Packets
    /\ pc = "checking" => before = "none" /\ Len(gaps) = 0
    /\ pc \in {"pausing", "sending"} => Len(gaps) < Packets
    /\ pc \in {"delaying", "polling"} => Len(gaps) = Packets

AnswersInv ==
    pc \notin {"checking", "ended"} =>
        before \in {"Offline", "Unknown"} /\ latest \in {"Offline", "Unknown"}

(* The token is looked at before every packet, so that the one that leaves   *)
(* late is the last.                                                         *)
LateInv == late = 0 \/ (late = 1 /\ cancelled /\ pc # "sending")

WakeInv == TypeOK /\ PacketsInv /\ AnswersInv /\ LateInv

-----------------------------------------------------------------------------
LEMMA Endings ==
    /\ W!Aborted # W!Running
    /\ \A state, verified : W!Outcome(state, verified) # W!Running
  BY DEF W!Aborted, W!Running, W!Outcome

LEMMA PacketsType == Packets \in Nat \ {0}
<1>1. PacketCount \in Nat \ {0} /\ RetryCount + 1 \in Nat \ {0}
  OBVIOUS
<1>2. \A a, b \in Nat \ {0} : a * b \in Nat \ {0}
  OBVIOUS
<1> QED
  BY <1>1, <1>2 DEF Packets

(* The bursts are whole when the last packet has left, and not before.       *)
LEMMA Woken ==
    ASSUME TypeOK, PacketsInv
    PROVE  BurstsSent <=> Len(gaps) = Packets
<1> SUFFICES ASSUME Len(gaps) = Packets, NEW i \in 1..Packets
             PROVE  gaps[i] = "retry" <=> i # 1 /\ (i - 1) % PacketCount = 0
  BY DEF BurstsSent
<1>1. gaps[i] = Pause(i - 1) /\ i \in Nat
  BY PacketsType DEF PacketsInv
<1>2. i - 1 = 0 <=> i = 1
  BY <1>1
<1> QED
  BY <1>1, <1>2 DEF Pause

LEMMA PacketsFrame ==
    ASSUME PacketsInv, UNCHANGED gaps, pc' = "checking" => pc = "checking" /\ UNCHANGED before,
           pc' \in {"pausing", "sending"} => Len(gaps) < Packets,
           pc' \in {"delaying", "polling"} => Len(gaps) = Packets
    PROVE  PacketsInv'
  BY DEF PacketsInv, Pause

LEMMA NextInv == WakeInv /\ [Next]_vars => WakeInv'
<1> SUFFICES ASSUME WakeInv, [Next]_vars
             PROVE  WakeInv'
  OBVIOUS
<1> USE DEF WakeInv
<1>1. CASE Cancel
  <2>1. TypeOK'
    BY <1>1 DEF Cancel, TypeOK
  <2> QED
    BY <1>1, <2>1, PacketsFrame DEF Cancel, PacketsInv, AnswersInv, LateInv
<1>2. ASSUME NEW state \in States, CheckBefore(state) PROVE WakeInv'
  <2>1. TypeOK'
    BY <1>2, Endings DEF CheckBefore, EndWith, TypeOK
  <2> QED
    BY <1>2, <2>1, PacketsFrame DEF CheckBefore, EndWith, AnswersInv, LateInv, States
<1>3. ASSUME NEW state \in States, PollAnswers(state) PROVE WakeInv'
  <2>1. TypeOK'
    BY <1>3, Endings DEF PollAnswers, EndWith, TypeOK
  <2> QED
    BY <1>3, <2>1, PacketsFrame DEF PollAnswers, EndWith, PacketsInv, AnswersInv, LateInv, States
<1>4. CASE Throws \/ Interrupted
  <2>1. pc # "ended" /\ pc' = "ended" /\ ending' # W!Running
        /\ UNCHANGED <<before, latest, gaps, cancelled, expired, late>>
    BY <1>4, Endings DEF Throws, Interrupted, EndWith
  <2>2. TypeOK'
    BY <2>1 DEF TypeOK
  <2> QED
    BY <2>1, <2>2, PacketsFrame DEF AnswersInv, LateInv
<1>5. CASE NextPacket \/ PauseEnds \/ DelayAfterSend \/ DelayEnds
  <2>1. TypeOK'
    BY <1>5 DEF NextPacket, PauseEnds, DelayAfterSend, DelayEnds, TypeOK
  <2>2. PacketsInv'
    BY <1>5, PacketsFrame
       DEF NextPacket, PauseEnds, DelayAfterSend, DelayEnds, PacketsInv
  <2>3. LateInv'
    BY <1>5 DEF NextPacket, PauseEnds, DelayAfterSend, DelayEnds, LateInv, MayGoOn
  <2>4. AnswersInv'
    BY <1>5 DEF NextPacket, PauseEnds, DelayAfterSend, DelayEnds, AnswersInv
  <2> QED
    BY <2>1, <2>2, <2>3, <2>4
<1>6. CASE PacketSent
  <2>1. /\ pc = "sending" /\ gaps' = Append(gaps, Pause(Len(gaps))) /\ pc' = "ready"
        /\ late' = (IF cancelled THEN late + 1 ELSE late)
        /\ UNCHANGED <<before, latest, cancelled, expired, ending>>
    BY <1>6 DEF PacketSent
  <2>2. Pause(Len(gaps)) \in Pauses /\ gaps \in Seq(Pauses) /\ Len(gaps) < Packets
    BY <2>1 DEF Pause, Pauses, TypeOK, PacketsInv
  <2>3. /\ gaps' \in Seq(Pauses) /\ Len(gaps') = Len(gaps) + 1 /\ Len(gaps) \in Nat
        /\ \A i \in 1..Len(gaps) : gaps'[i] = gaps[i]
        /\ gaps'[Len(gaps) + 1] = Pause(Len(gaps))
    BY <2>1, <2>2
  <2>4. Len(gaps') <= Packets
    BY <2>2, <2>3, PacketsType
  <2>5. late' \in Nat /\ LateInv'
    BY <2>1 DEF LateInv, TypeOK
  <2>6. TypeOK'
    BY <2>1, <2>3, <2>4, <2>5 DEF TypeOK
  <2>7. PacketsInv'
    <3>1. ASSUME NEW i \in 1..Len(gaps') PROVE gaps'[i] = Pause(i - 1)
      <4>1. CASE i \in 1..Len(gaps)
        BY <2>3, <4>1 DEF PacketsInv
      <4>2. CASE i = Len(gaps) + 1
        <5>1. i - 1 = Len(gaps)
          BY <2>3, <4>2
        <5> QED
          BY <2>3, <4>2, <5>1
      <4> QED
        BY <2>3, <4>1, <4>2
    <3> QED
      BY <2>1, <2>4, <3>1 DEF PacketsInv, Pause
  <2> QED
    BY <2>1, <2>5, <2>6, <2>7 DEF AnswersInv
<1>7. CASE Expire
  <2>1. TypeOK'
    BY <1>7 DEF Expire, TypeOK
  <2> QED
    BY <1>7, <2>1, PacketsFrame DEF Expire, PacketsInv, AnswersInv, LateInv
<1>8. CASE UNCHANGED vars
  BY <1>8 DEF vars, TypeOK, PacketsInv, AnswersInv, LateInv, Pause
<1> QED
  BY <1>1, <1>2, <1>3, <1>4, <1>5, <1>6, <1>7, <1>8 DEF Next, Returns, Answer, Runs

LEMMA InitInv == Init => WakeInv
<1> SUFFICES ASSUME Init
             PROVE  WakeInv
  OBVIOUS
<1>1. gaps = <<>> /\ Len(gaps) = 0 /\ 1..Len(gaps) = {} /\ gaps \in Seq(Pauses)
  BY EmptySeq DEF Init
<1>2. Len(gaps) <= Packets
  BY <1>1, PacketsType
<1> QED
  BY <1>1, <1>2 DEF Init, WakeInv, TypeOK, PacketsInv, AnswersInv, LateInv

LEMMA WakeInductive == Spec => []WakeInv
  BY InitInv, NextInv, PTL DEF Spec

-----------------------------------------------------------------------------
(* Every step of the call is one that the contract allows, or shows nothing. *)
LEMMA StepKeepsContract == WakeInv /\ [Next]_vars => [W!Next]_(W!wakeVars)
<1> SUFFICES ASSUME WakeInv, [Next]_vars
             PROVE  W!Next \/ UNCHANGED W!wakeVars
  OBVIOUS
<1>0. BurstsSent \in BOOLEAN /\ BurstsSent' \in BOOLEAN
  BY DEF BurstsSent
<1>1. (BurstsSent <=> Len(gaps) = Packets) /\ (BurstsSent' <=> Len(gaps') = Packets)
  <2>1. WakeInv'
    BY NextInv
  <2>2. (BurstsSent <=> Len(gaps) = Packets)'
    BY <2>1, Woken, PTL DEF WakeInv
  <2> QED
    BY <2>2, Woken DEF WakeInv
<1>2. UNCHANGED gaps => UNCHANGED BurstsSent
  BY DEF BurstsSent
<1>3. pc # "ended" => ending = W!Running
  BY DEF WakeInv, TypeOK
<1> USE DEF W!Next, W!wakeVars
<1>4. CASE Cancel
  BY <1>2, <1>4, Zenon DEF Cancel
<1>5. ASSUME NEW state \in States, CheckBefore(state) PROVE W!Look(state)
  <2>1. /\ pc = "checking" /\ before = "none" /\ before' = state /\ UNCHANGED gaps
        /\ state # "Online" => UNCHANGED ending
        /\ state = "Online" => ending' = W!Outcome("Online", FALSE)
    BY <1>5 DEF CheckBefore, EndWith, WakeInv, PacketsInv
  <2> QED
    BY <1>2, <1>3, <2>1 DEF W!Look
<1>6. ASSUME NEW state \in States, PollAnswers(state)
      PROVE  W!Finish("Online") \/ UNCHANGED W!wakeVars
  <2>1. /\ pc = "polling" /\ UNCHANGED <<before, gaps>> /\ Len(gaps) = Packets
        /\ before \in {"Offline", "Unknown"}
        /\ state # "Online" => UNCHANGED ending
        /\ state = "Online" => ending' = W!Outcome("Online", Verifies(before, "Online"))
    BY <1>6 DEF PollAnswers, EndWith, WakeInv, PacketsInv, AnswersInv
  <2>2. ending = W!Running /\ BurstsSent /\ BurstsSent' = BurstsSent
    BY <1>1, <1>2, <1>3, <2>1
  <2>3. CASE state = "Online"
    BY <2>1, <2>2, <2>3 DEF W!Finish, Verifies
  <2>4. CASE state # "Online"
    BY <2>1, <2>2, <2>4
  <2> QED
    BY <2>3, <2>4
<1>7. ASSUME Throws \/ (Interrupted /\ cancelled) PROVE W!Abort
  <2>1. pc # "ended" /\ ending' = W!Aborted /\ UNCHANGED <<before, gaps>>
    BY <1>7 DEF Throws, Interrupted, EndWith
  <2> QED
    BY <1>2, <1>3, <2>1 DEF W!Abort
<1>8. ASSUME Interrupted, ~cancelled PROVE W!Finish(latest) /\ latest \in States
  <2>1. /\ pc # "ended" /\ ending' = W!Outcome(latest, FALSE) /\ UNCHANGED <<before, gaps>>
        /\ Len(gaps) = Packets /\ latest \in {"Offline", "Unknown"}
    BY <1>8 DEF Interrupted, EndWith, WakeInv, PacketsInv, AnswersInv
  <2>2. (latest = "Online" /\ before = "Offline") = FALSE
    BY <2>1
  <2> QED
    BY <1>1, <1>2, <1>3, <2>1, <2>2 DEF W!Finish, States
<1>9. CASE NextPacket \/ PauseEnds \/ DelayAfterSend \/ DelayEnds \/ Expire
  <2>1. UNCHANGED <<before, gaps, ending>>
    BY <1>9 DEF NextPacket, PauseEnds, DelayAfterSend, DelayEnds, Expire
  <2> QED
    BY <1>2, <2>1, Zenon
<1>10. ASSUME PacketSent PROVE W!Send \/ UNCHANGED W!wakeVars
  <2>1. /\ pc = "sending" /\ UNCHANGED <<before, ending>> /\ Len(gaps) < Packets
        /\ before \in {"Offline", "Unknown"} /\ Len(gaps') = Len(gaps) + 1
        /\ Len(gaps) \in Nat
    BY <1>10 DEF PacketSent, WakeInv, PacketsInv, AnswersInv, TypeOK, Pause, Pauses
  <2>2. ending = W!Running /\ ~BurstsSent
    BY <1>1, <1>3, <2>1, PacketsType
  <2>3. CASE BurstsSent'
    <3>1. BurstsSent' = TRUE
      BY <1>0, <2>3
    <3> QED
      BY <2>1, <2>2, <3>1 DEF W!Send
  <2>4. CASE ~BurstsSent'
    <3>1. BurstsSent' = BurstsSent
      BY <1>0, <2>2, <2>4
    <3> QED
      BY <2>1, <3>1
  <2> QED
    BY <2>3, <2>4
<1>11. CASE UNCHANGED vars
  BY <1>2, <1>11, Zenon DEF vars
<1>12. "Online" \in States /\ States = W!States
  BY DEF States, W!States
<1> QED
  BY <1>4, <1>5, <1>6, <1>7, <1>8, <1>9, <1>10, <1>11, <1>12, Zenon
  DEF Next, Returns, Answer, Runs

(* The variables of a wake keep their types.                                 *)
THEOREM TypeCorrect == Spec => []TypeOK
<1>1. WakeInv => TypeOK
  BY DEF WakeInv
<1> QED
  BY <1>1, WakeInductive, PTL

(* A cancellation lets at most the packet leave that was already on its way  *)
(* (SendAsync).                                                              *)
THEOREM CancelStopsPackets == Spec => []AtMostOneLatePacket
<1>1. WakeInv => AtMostOneLatePacket
  BY DEF WakeInv, LateInv, AtMostOneLatePacket
<1> QED
  BY <1>1, WakeInductive, PTL

(* WakeAsync implements the contract, its liveness aside: packets only after *)
(* a look that was not Online, in whole bursts, and Verified only for        *)
(* Offline -> packets -> Online.                                             *)
THEOREM WakeImplements == Spec => W!Init /\ [][W!Next]_(W!wakeVars)
<1>1. Init => W!Init
  <2> SUFFICES ASSUME Init
               PROVE  W!Init
    OBVIOUS
  <2>1. Len(gaps) # Packets
    BY PacketsType, EmptySeq DEF Init
  <2> QED
    BY <2>1 DEF Init, W!Init, BurstsSent
<1> QED
  BY <1>1, WakeInductive, StepKeepsContract, PTL DEF Spec
=============================================================================
