---------------------------- MODULE TerminalContract ----------------------------
(***************************************************************************)
(* What a terminal window promises: connections one after the other.  Each   *)
(* opens a session at most, is told to stop when it leaves at the latest,    *)
(* and so before its session is disposed, and has that disposed and ends     *)
(* before the next begins; a window that is shut has ended the last one and  *)
(* begins no more.                                                           *)
(***************************************************************************)
EXTENDS Naturals

VARIABLES connection, (* the number of the last connection, or 0               *)
          stage,      (* where it is                                           *)
          told,       (* its cancellation was asked for                        *)
          open,       (* the connections whose session is not yet disposed     *)
          shut        (* the window is drained                                 *)

terminal == <<connection, stage, told, open, shut>>

Stages == {"off", "connecting", "connected", "leaving"}

Init == connection = 0 /\ stage = "off" /\ told = FALSE /\ open = {} /\ shut = FALSE

(* One that cannot even wait for the browser has ended when it begins.       *)
Begin ==
    /\ stage = "off" /\ open = {} /\ ~shut
    /\ connection' = connection + 1
    /\ stage' \in {"connecting", "off"} /\ told' = (stage' = "off")
    /\ UNCHANGED <<open, shut>>

(* A connection that was told to stop may still get its session.             *)
Connect ==
    /\ stage = "connecting" /\ open = {}
    /\ stage' = "connected" /\ open' = {connection}
    /\ UNCHANGED <<connection, told, shut>>

Tell == connection # 0 /\ told' = TRUE /\ UNCHANGED <<connection, stage, open, shut>>

(* Who ends by itself, or was told to, is told by the time that it leaves.   *)
Leave ==
    /\ \/ stage = "connecting" /\ stage' = "off"
       \/ stage = "connected" /\ stage' = "leaving"
    /\ told' = TRUE
    /\ UNCHANGED <<connection, open, shut>>

Dispose ==
    /\ stage = "leaving" /\ open = {connection}
    /\ open' = {} /\ stage' \in {"leaving", "off"}
    /\ UNCHANGED <<connection, told, shut>>

End ==
    /\ stage = "leaving" /\ open = {}
    /\ stage' = "off"
    /\ UNCHANGED <<connection, told, open, shut>>

Shut ==
    /\ stage = "off" /\ open = {}
    /\ shut' = TRUE
    /\ UNCHANGED <<connection, stage, told, open>>

Next == Begin \/ Connect \/ Tell \/ Leave \/ Dispose \/ End \/ Shut

Spec == Init /\ [][Next]_terminal
=============================================================================
