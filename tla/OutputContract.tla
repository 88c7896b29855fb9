----------------------------- MODULE OutputContract -----------------------------
(***************************************************************************)
(* What ITerminalSession.ReadAsync promises the terminal: a stream of the   *)
(* bytes the server sent, numbered in that order.  A read brings the next    *)
(* ones; the stream ends after the last of them, or early when it fails or   *)
(* the session is disposed.                                                  *)
(***************************************************************************)
EXTENDS Naturals, Sequences

CONSTANT BufferSize (* bytes one read returns at most                         *)

VARIABLES sent,     (* bytes the server has sent                              *)
          received, (* the bytes the reads have returned                      *)
          reader,   (* whether a read has reported the end or a failure       *)
          disposed  (* DisposeAsync was called                                *)

stream == <<sent, received, reader, disposed>>

Init == sent \in Nat /\ received = <<>> /\ reader = "reading" /\ disposed = FALSE

(* An undisposed session has no more to come once a read has told the end.   *)
Send ==
    /\ reader = "reading" \/ disposed
    /\ sent' \in Nat /\ sent' > sent
    /\ UNCHANGED <<received, reader, disposed>>

Deliver(n) ==
    /\ reader = "reading" /\ n <= sent - Len(received)
    /\ received' = received \o [i \in 1..n |-> Len(received) + i]
    /\ UNCHANGED <<sent, reader, disposed>>

End ==
    /\ reader = "reading" /\ (disposed \/ Len(received) = sent)
    /\ reader' = "ended"
    /\ UNCHANGED <<sent, received, disposed>>

Fail == reader = "reading" /\ reader' = "failed" /\ UNCHANGED <<sent, received, disposed>>

Dispose == ~disposed /\ disposed' = TRUE /\ UNCHANGED <<sent, received, reader>>

Next == Send \/ End \/ Fail \/ Dispose \/ \E n \in 1..BufferSize : Deliver(n)

Spec == Init /\ [][Next]_stream
=============================================================================
