------------------------------ MODULE WakeDevice ------------------------------
(***************************************************************************)
(* One call of WakeDeviceService.WakeAsync with the WakeOnLanService behind *)
(* it: the check before the wake, the schedule of packets and retry bursts, *)
(* and the polling until Online, the deadline or the caller's cancellation. *)
(* The network answers as it likes and the clock is the two things it can   *)
(* do here: let a delay pass and let the deadline fire.                     *)
(***************************************************************************)
EXTENDS Naturals, Sequences

CONSTANTS
    PacketCount,    (* packets per burst                                      *)
    RetryCount,     (* bursts after the first                                 *)
    Capability      (* the device's wake capability                           *)

ASSUME WakeAssumption ==
    /\ PacketCount \in 1..10
    /\ RetryCount \in 0..5
    /\ Capability \in {"Disabled", "EnabledUnverified", "Verified"}

States == {"Online", "Offline", "Unknown"}
Packets == PacketCount * (RetryCount + 1)

VARIABLES
    pc,         (* the await the call is at                                   *)
    before,     (* the answer of the check before the wake, or "none"         *)
    latest,     (* the latest answer, or "none"                               *)
    gaps,       (* the pause before each packet already sent                  *)
    cancelled,  (* the caller cancelled the token                             *)
    expired,    (* the deadline fired                                         *)
    late,       (* packets that left after the cancellation                   *)
    ending      (* what the task returned or threw                            *)

vars == <<pc, before, latest, gaps, cancelled, expired, late, ending>>

(* The wake packets have left: every burst in full, with the retry pauses     *)
(* between the bursts and nowhere else.                                      *)
BurstsSent ==
    /\ Len(gaps) = Packets
    /\ \A i \in 1..Packets : gaps[i] = "retry" <=> i # 1 /\ (i - 1) % PacketCount = 0

W == INSTANCE WakeContract WITH woken <- BurstsSent

Pauses == {"none", "packet", "retry"}
TypeOK ==
    /\ pc \in {"checking", "ready", "pausing", "sending", "arming", "delaying",
               "polling", "ended"}
    /\ before \in States \cup {"none"}
    /\ latest \in States \cup {"none"}
    /\ gaps \in Seq(Pauses) /\ Len(gaps) <= Packets
    /\ {cancelled, expired} \subseteq BOOLEAN
    /\ late \in Nat
    /\ pc = "ended" <=> ending # W!Running

Init ==
    /\ pc = "checking" /\ before = "none" /\ latest = "none"
    /\ gaps = <<>> /\ late = 0
    /\ cancelled = FALSE /\ expired = FALSE
    /\ ending = W!Running

(* The caller cancels: a cancel button, an edit or a deletion of the device, *)
(* or the shutdown.                                                          *)
Cancel ==
    /\ pc # "ended" /\ ~cancelled
    /\ cancelled' = TRUE
    /\ UNCHANGED <<pc, before, latest, gaps, expired, late, ending>>

EndWith(result) == pc' = "ended" /\ ending' = result

(* An exception: the disabled capability, a route or interface that does not *)
(* fit before the first packet, the network, or the token where it is looked *)
(* at.                                                                       *)
Throws ==
    /\ \/ pc \in {"checking", "sending", "polling"}
       \/ pc = "ready" /\ Len(gaps) = 0
       \/ pc = "ready" /\ Len(gaps) < Packets /\ cancelled
       \/ pc = "pausing" /\ cancelled
    /\ EndWith(W!Aborted)
    /\ UNCHANGED <<before, latest, gaps, cancelled, expired, late>>

CheckBefore(state) ==
    /\ pc = "checking" /\ Capability # "Disabled"
    /\ before' = state /\ latest' = state
    /\ IF state = "Online" THEN EndWith(W!Outcome("Online", FALSE))
       ELSE pc' = "ready" /\ UNCHANGED ending
    /\ UNCHANGED <<gaps, cancelled, expired, late>>

(* The next packet of SendAsync's loop: the token is checked, then every     *)
(* packet but the first waits for its pause.                                 *)
Pause(i) == IF i = 0 THEN "none"
            ELSE IF i % PacketCount = 0 THEN "retry" ELSE "packet"

MayGoOnAlways(token) == TRUE                                  \* faulty variant
MayGoOn(token) == ~token

NextPacket ==
    /\ pc = "ready" /\ Len(gaps) < Packets /\ MayGoOn(cancelled)
    /\ pc' = IF Len(gaps) = 0 THEN "sending" ELSE "pausing"
    /\ UNCHANGED <<before, latest, gaps, cancelled, expired, late, ending>>

PauseEnds ==
    /\ pc = "pausing" /\ MayGoOn(cancelled)
    /\ pc' = "sending"
    /\ UNCHANGED <<before, latest, gaps, cancelled, expired, late, ending>>

(* The datagram was handed to the socket, perhaps while the cancellation     *)
(* arrived.                                                                  *)
PacketSent ==
    /\ pc = "sending"
    /\ gaps' = Append(gaps, Pause(Len(gaps)))
    /\ late' = IF cancelled THEN late + 1 ELSE late
    /\ pc' = "ready"
    /\ UNCHANGED <<before, latest, cancelled, expired, ending>>

(* Every packet has left: the deadline is armed and the polling begins.      *)
DelayAfterSend ==
    /\ pc = "ready" /\ Len(gaps) = Packets
    /\ pc' = "delaying"
    /\ UNCHANGED <<before, latest, gaps, cancelled, expired, late, ending>>

DeadlineArmed == pc \in {"delaying", "polling"}
Expire ==
    /\ DeadlineArmed /\ ~expired
    /\ expired' = TRUE
    /\ UNCHANGED <<pc, before, latest, gaps, cancelled, late, ending>>

DelayEnds ==
    /\ pc = "delaying" /\ MayGoOn(cancelled) /\ MayGoOn(expired)
    /\ pc' = "polling"
    /\ UNCHANGED <<before, latest, gaps, cancelled, expired, late, ending>>

VerifiesAnyStart(first, last) == last = "Online"              \* faulty variant
Verifies(first, last) == last = "Online" /\ first = "Offline"

(* A poll that answers wins over a deadline or a cancellation in flight.     *)
PollAnswers(state) ==
    /\ pc = "polling"
    /\ latest' = state
    /\ IF state = "Online" THEN EndWith(W!Outcome("Online", Verifies(before, "Online")))
       ELSE pc' = "delaying" /\ UNCHANGED ending
    /\ UNCHANGED <<before, gaps, cancelled, expired, late>>

(* The linked token interrupts the delay or the poll: the caller's           *)
(* cancellation is thrown on, the deadline alone ends with the latest answer.*)
Interrupted ==
    /\ pc \in {"delaying", "polling"} /\ (cancelled \/ expired)
    /\ EndWith(IF cancelled THEN W!Aborted ELSE W!Outcome(latest, FALSE))
    /\ UNCHANGED <<before, latest, gaps, cancelled, expired, late>>

(* What the runtime does by itself, each sooner or later: timers fire and    *)
(* every await of the status check and of the socket comes back.             *)
Answer == \E state \in States : CheckBefore(state) \/ PollAnswers(state)
Returns == Answer \/ Throws \/ Interrupted
Runs == NextPacket \/ PauseEnds \/ PacketSent \/ DelayAfterSend \/ DelayEnds

Next == Cancel \/ Returns \/ Runs \/ Expire

Spec == Init /\ [][Next]_vars /\ WF_vars(Returns \/ Runs) /\ WF_vars(Expire)

-----------------------------------------------------------------------------
(* A cancellation stops the packets: only the one already on its way to the  *)
(* socket may still leave.                                                   *)
AtMostOneLatePacket == late <= 1

(* What WakeContract promises: packets only after a look that was not Online,*)
(* in whole bursts with the retry pauses between them; Verified only for      *)
(* Offline -> packets -> Online; and an end in any case, by an answer, the    *)
(* deadline or an error.                                                     *)
Contract == W!Spec
=============================================================================
