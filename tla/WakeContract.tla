----------------------------- MODULE WakeContract -----------------------------
(***************************************************************************)
(* What one wake of one device promises to whoever started it: it looks at  *)
(* the device, sends its packets only if the device was not Online, and     *)
(* ends once, with an observation that verifies the wake only if the device *)
(* went from Offline to Online after the packets, or without an outcome.    *)
(***************************************************************************)
VARIABLES before,   (* what the check before the wake answered, or "none"     *)
          woken,    (* every wake packet has left                             *)
          ending    (* how the wake ended                                     *)

wakeVars == <<before, woken, ending>>

States == {"Online", "Offline", "Unknown"}
Running == [how |-> "running"]
Aborted == [how |-> "aborted"]
Outcome(state, verified) == [how |-> "observed", state |-> state, verified |-> verified]

Init == before = "none" /\ woken = FALSE /\ ending = Running

Look(state) ==
    /\ ending = Running /\ before = "none"
    /\ before' = state
    /\ ending' = IF state = "Online" THEN Outcome("Online", FALSE) ELSE Running
    /\ UNCHANGED woken

Send ==
    /\ ending = Running /\ before \in {"Offline", "Unknown"} /\ ~woken
    /\ woken' = TRUE
    /\ UNCHANGED <<before, ending>>

(* Online after the packets, or the last other observation at the timeout.   *)
Finish(state) ==
    /\ ending = Running /\ woken
    /\ ending' = Outcome(state, state = "Online" /\ before = "Offline")
    /\ UNCHANGED <<before, woken>>

(* Cancelled, or an error of the network or of the configuration.            *)
Abort == ending = Running /\ ending' = Aborted /\ UNCHANGED <<before, woken>>

Next == Send \/ Abort \/ \E state \in States : Look(state) \/ Finish(state)

Spec == Init /\ [][Next]_wakeVars /\ WF_wakeVars(Next)
=============================================================================
