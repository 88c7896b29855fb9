----------------------------- MODULE TerminalOutput -----------------------------
(***************************************************************************)
(* The output side of one SshTerminalSession over BoundedTerminalOutput: the *)
(* receive worker of SSH.NET puts bytes into the ShellStream and drains them *)
(* synchronously into a bounded channel, a second thread drains what had     *)
(* arrived before the session subscribed, the terminal reads the channel,    *)
(* and DisposeAsync stops all of them.  Bytes are numbered in the order the  *)
(* server sent them.                                                         *)
(***************************************************************************)
EXTENDS Naturals, Sequences, SequencesExt

CONSTANTS
    DrainSize,  (* bytes one shell.Read takes                                 *)
    ChunkSize,  (* bytes one channel item holds                               *)
    Capacity,   (* items the channel holds                                    *)
    BufferSize, (* bytes one ReadAsync returns                                *)
    MaxInitial, (* bytes in the ShellStream when the session subscribes       *)
    MaxMessage, (* bytes one message of the server brings                     *)
    MaxBytes    (* bound: bytes the server sends in all                       *)

ASSUME OutputAssumption ==
    /\ {DrainSize, ChunkSize, Capacity, BufferSize, MaxMessage} \subseteq Nat \ {0}
    /\ {MaxInitial, MaxBytes} \subseteq Nat /\ MaxInitial <= MaxBytes

Threads == {"worker", "initial"}

VARIABLES
    produced,   (* bytes the server has sent                                  *)
    shell,      (* the ShellStream's own buffer                               *)
    drain,      (* thread -> where it is in Drain, and the bytes it holds     *)
    lock,       (* the thread in drainGate, or "free"                         *)
    worker,     (* the receive worker's connection                            *)
    queue,      (* the channel's items                                        *)
    completed,  (* how the channel was completed                              *)
    pending,    (* what ReadAsync has left of its last item                   *)
    consumed,   (* history: the bytes the terminal has read                   *)
    reader,     (* the reading terminal                                       *)
    disposal    (* how far DisposeAsync and its task are                      *)

vars == <<produced, shell, drain, lock, worker, queue, completed, pending,
          consumed, reader, disposal>>

Disposal == <<"none", "marked", "stopped", "completed", "released", "done">>
Stage(step) == CHOOSE i \in 1..Len(Disposal) : Disposal[i] = step
Reached(step) == Stage(disposal) >= Stage(step)

TypeOK ==
    /\ produced \in 0..MaxBytes
    /\ {shell, pending, consumed} \subseteq Seq(1..MaxBytes)
    /\ drain \in [Threads -> [pc : {"off", "enter", "loop", "put"}, bytes : Seq(1..MaxBytes)]]
    /\ lock \in Threads \cup {"free"}
    /\ \A d \in Threads : drain[d].pc \in {"loop", "put"} <=> lock = d
    /\ \A d \in Threads : drain[d].pc = "put" <=> drain[d].bytes # <<>>
    /\ worker \in {"open", "closing", "gone"}
    /\ queue \in Seq(Seq(1..MaxBytes) \ {<<>>})
    /\ \A i \in 1..Len(queue) : Len(queue[i]) <= ChunkSize
    /\ completed \in {"open", "closed", "failed"}
    /\ reader \in {"reading", "ended", "failed"}
    /\ disposal \in ToSet(Disposal)

Off == [pc |-> "off", bytes |-> <<>>]
At(d, pc) == drain' = [drain EXCEPT ![d].pc = pc]
Numbers(first, last) == [i \in 1..(last - first + 1) |-> first + i - 1]

NotStarted == Off                                              \* faulty variant
Started == [Off EXCEPT !.pc = "enter"]

(* The constructor has subscribed and started the initial drain.             *)
Init ==
    /\ produced \in 0..MaxInitial
    /\ shell = Numbers(1, produced)
    /\ drain = [worker |-> Off, initial |-> Started]
    /\ lock = "free" /\ worker = "open"
    /\ queue = <<>> /\ completed = "open" /\ pending = <<>> /\ consumed = <<>>
    /\ reader = "reading" /\ disposal = "none"

(* Channel.Writer.TryComplete: the first completion wins.                    *)
Complete(how) == completed' = IF completed = "open" THEN how ELSE completed

-----------------------------------------------------------------------------
(* The server, through SSH.NET's receive worker.  Events are raised on that  *)
(* worker, one at a time, so none comes while it is in Drain.                *)
MayReceiveAlways == worker = "open"                            \* faulty variant
MayReceive == worker = "open" /\ drain["worker"].pc = "off"

Receive(n) ==
    /\ MayReceive /\ produced + n <= MaxBytes /\ ~Reached("released")
    /\ produced' = produced + n
    /\ shell' = shell \o Numbers(produced + 1, produced + n)
    /\ drain' = IF drain["worker"] = Off THEN [drain EXCEPT !["worker"].pc = "enter"]
                ELSE drain
    /\ UNCHANGED <<lock, worker, queue, completed, pending, consumed, reader, disposal>>

(* Closed: one more Drain, then Complete.                                    *)
RemoteCloses ==
    /\ MayReceive /\ ~Reached("released")
    /\ worker' = "closing" /\ At("worker", "enter")
    /\ UNCHANGED <<produced, shell, lock, queue, completed, pending, consumed, reader, disposal>>

ClosedDrainedUnasked == worker = "closing"                     \* faulty variant
ClosedDrained == worker = "closing" /\ drain["worker"].pc = "off"

FinishClose ==
    /\ ClosedDrained
    /\ worker' = "gone" /\ Complete("closed")
    /\ UNCHANGED <<produced, shell, drain, lock, queue, pending, consumed, reader, disposal>>

(* ErrorOccurred.                                                            *)
RemoteFails ==
    /\ MayReceive
    /\ worker' = "gone" /\ Complete("failed")
    /\ UNCHANGED <<produced, shell, drain, lock, queue, pending, consumed, reader, disposal>>

-----------------------------------------------------------------------------
(* Drain, on either thread, inside drainGate.                                *)
LockFreeAlways == TRUE                                         \* faulty variant
LockFree == lock = "free"

Enter(d) ==
    /\ drain[d].pc = "enter" /\ LockFree
    /\ IF Reached("marked") THEN At(d, "off") /\ UNCHANGED lock
       ELSE At(d, "loop") /\ lock' = d
    /\ UNCHANGED <<produced, shell, worker, queue, completed, pending, consumed, reader, disposal>>

Leave(d) == drain' = [drain EXCEPT ![d] = Off] /\ lock' = "free"

(* The next shell.Read; a disposed stream throws, after the disposal has     *)
(* completed the channel.                                                    *)
Take(d) ==
    /\ drain[d].pc = "loop"
    /\ IF shell = <<>> \/ Reached("released")
       THEN Leave(d) /\ UNCHANGED shell
       ELSE LET n == Min({DrainSize, Len(shell)}) IN
            /\ drain' = [drain EXCEPT ![d] = [pc |-> "put", bytes |-> SubSeq(shell, 1, n)]]
            /\ shell' = SubSeq(shell, n + 1, Len(shell))
            /\ UNCHANGED lock
    /\ UNCHANGED <<produced, worker, queue, completed, pending, consumed, reader, disposal>>

(* The bounded write waits for room; the stop token and a completion end it. *)
InterruptedNever == FALSE                                      \* faulty variant
Interrupted == Reached("stopped") \/ completed # "open"

Abandon(d) ==
    /\ drain[d].pc = "put" /\ Interrupted
    /\ Leave(d)
    /\ IF Reached("stopped") THEN Complete("closed") ELSE UNCHANGED completed
    /\ UNCHANGED <<produced, shell, worker, queue, pending, consumed, reader, disposal>>

Put(d) ==
    /\ drain[d].pc = "put" /\ completed = "open" /\ Len(queue) < Capacity
    /\ LET bytes == drain[d].bytes
           n == Min({ChunkSize, Len(bytes)})
           rest == SubSeq(bytes, n + 1, Len(bytes)) IN
       /\ queue' = Append(queue, SubSeq(bytes, 1, n))
       /\ drain' = [drain EXCEPT ![d] = [pc |-> IF rest = <<>> THEN "loop" ELSE "put",
                                         bytes |-> rest]]
    /\ UNCHANGED <<produced, shell, lock, worker, completed, pending, consumed, reader, disposal>>

-----------------------------------------------------------------------------
(* The terminal.                                                             *)
Read ==
    /\ reader = "reading" /\ (pending # <<>> \/ queue # <<>>)
    /\ LET item == IF pending # <<>> THEN pending ELSE Head(queue)
           n == Min({BufferSize, Len(item)}) IN
       /\ queue' = IF pending # <<>> THEN queue ELSE Tail(queue)
       /\ consumed' = consumed \o SubSeq(item, 1, n)
       /\ pending' = SubSeq(item, n + 1, Len(item))
    /\ UNCHANGED <<produced, shell, drain, lock, worker, completed, reader, disposal>>

(* 0 for a completed and empty channel, its error when it failed.            *)
ReadEnds ==
    /\ reader = "reading" /\ pending = <<>> /\ queue = <<>> /\ completed # "open"
    /\ reader' = IF completed = "failed" THEN "failed" ELSE "ended"
    /\ UNCHANGED <<produced, shell, drain, lock, worker, queue, completed, pending, consumed,
                   disposal>>

-----------------------------------------------------------------------------
(* DisposeAsync: mark, cancel, complete, then on a task shell.Dispose and    *)
(* client.Dispose, which joins the receive worker.                           *)
DisposeStep(from) ==
    /\ disposal = from /\ from # "done"
    /\ disposal' = Disposal[Stage(from) + 1]
    /\ IF from = "stopped" THEN Complete("closed") ELSE UNCHANGED completed
    /\ IF from = "released"
       THEN drain["worker"].pc = "off" /\ worker # "closing" /\ worker' = "gone"
       ELSE UNCHANGED worker
    /\ UNCHANGED <<produced, shell, drain, lock, queue, pending, consumed, reader>>

Dispose == DisposeStep("none")
Disposing == \E from \in ToSet(Disposal) \ {"none"} : DisposeStep(from)

Draining(d) == Enter(d) \/ Take(d) \/ Abandon(d) \/ Put(d)

Next ==
    \/ \E n \in 1..MaxMessage : Receive(n)
    \/ RemoteCloses \/ FinishClose \/ RemoteFails
    \/ \E d \in Threads : Draining(d)
    \/ Read \/ ReadEnds
    \/ Dispose \/ Disposing

Spec == Init /\ [][Next]_vars

(* Threads are scheduled, and the terminal goes on reading.                  *)
FairSpec ==
    /\ Spec
    /\ \A d \in Threads : WF_vars(Draining(d))
    /\ WF_vars(FinishClose) /\ WF_vars(Disposing) /\ WF_vars(Read)

-----------------------------------------------------------------------------
(* The terminal reads the bytes in the order the server sent them, each once *)
(* and none left out (the gate around Drain, the single channel).            *)
InOrder == consumed = Numbers(1, Len(consumed))

(* A read that reports the end of the session, and not a disposal, comes     *)
(* after every byte the server sent (Closed drains before it completes).     *)
EndMeansAll == reader = "ended" /\ disposal = "none" => Len(consumed) = produced

(* To the terminal the threads, the channel, the buffers and the remainder of *)
(* the last item are one stream, which ends where the server ended it.       *)
Stream == INSTANCE OutputContract
          WITH sent <- produced, received <- consumed, disposed <- disposal # "none"
Contract == Stream!Spec

(* A slow terminal stalls the server instead of filling the ShellStream: its *)
(* buffer holds the initial bytes and one message at most, as the worker     *)
(* waits in Drain, and the channel keeps its capacity.                       *)
BufferedIsBounded ==
    /\ Len(queue) <= Capacity
    /\ disposal = "none" => Len(shell) <= MaxInitial + MaxMessage

(* What was sent is read in the end, unless the session is disposed or fails *)
(* first: no drain stops while there is data and nobody to start another.    *)
Delivered ==
    \A n \in 1..MaxBytes :
        produced >= n ~> (Len(consumed) >= n \/ disposal # "none" \/ completed = "failed")

(* A disposal ends although threads were blocked on a full channel, and they *)
(* leave Drain too.                                                          *)
Released ==
    disposal = "marked" ~> (disposal = "done" /\ \A d \in Threads : drain[d].pc = "off")
=============================================================================
