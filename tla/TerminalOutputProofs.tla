-------------------------- MODULE TerminalOutputProofs --------------------------
(* Theorems about TerminalOutput, for any sizes of reads, items, buffers and  *)
(* messages, and any number of bytes.                                        *)
EXTENDS TerminalOutput, SequenceTheorems, TLAPS

(* Where the bytes are.  From the reader back to the server they are in what *)
(* was read, in what the reader has left, in the items of the channel, with  *)
(* the thread that is in Drain, and in the ShellStream; each part goes on    *)
(* where the one before it ends.  What an abandoned write loses is missing   *)
(* only after the channel was completed, when nothing more can enter it.     *)
Held == IF lock = "free" THEN <<>> ELSE drain[lock].bytes

Follows(s, n) == \A i \in 1..Len(s) : s[i] = n + i

LastRead == Len(consumed) + Len(pending)
LastQueued == IF queue = <<>> THEN LastRead
              ELSE queue[Len(queue)][1] + Len(queue[Len(queue)]) - 1
LastHeld == LastQueued + Len(Held)

OrderInv ==
    /\ Follows(consumed, 0) /\ Follows(pending, Len(consumed))
    /\ \A i \in 1..Len(queue) : Follows(queue[i], queue[i][1] - 1)
    /\ queue # <<>> => queue[1][1] = LastRead + 1
    /\ \A i \in 1..Len(queue) : i > 1 => queue[i][1] = queue[i - 1][1] + Len(queue[i - 1])
    /\ completed = "open" => /\ Follows(Held, LastQueued) /\ Follows(shell, LastHeld)
                             /\ LastHeld + Len(shell) = produced

(* What the end of the stream says, and how much waits in the ShellStream:   *)
(* the receive worker is in Drain, or it has left the buffer empty.          *)
WorkerInv ==
    /\ Len(queue) <= Capacity
    /\ disposal = "none" =>
         /\ completed = "open" <=> worker # "gone"
         /\ worker = "gone" => drain["worker"].pc = "off"
         /\ worker = "closing" /\ drain["worker"].pc = "off" => shell = <<>> /\ Held = <<>>
         /\ drain["worker"].pc = "off" => Len(shell) <= MaxInitial
         /\ Len(shell) <= MaxInitial + MaxMessage

EndInv ==
    /\ completed = "closed" /\ disposal = "none" => LastQueued = produced
    /\ reader # "reading" => pending = <<>> /\ queue = <<>> /\ completed # "open"
    /\ reader = "ended" => completed = "closed"

-----------------------------------------------------------------------------
(* About sequences of consecutive numbers.                                   *)
LEMMA Sizes ==
    /\ DrainSize \in Nat \ {0} /\ ChunkSize \in Nat \ {0} /\ Capacity \in Nat \ {0}
    /\ BufferSize \in Nat \ {0} /\ MaxMessage \in Nat \ {0}
    /\ MaxInitial \in Nat /\ MaxBytes \in Nat /\ MaxInitial <= MaxBytes
  BY OutputAssumption

USE Sizes

LEMMA MinOfTwo ==
    ASSUME NEW a \in Nat, NEW b \in Nat
    PROVE  Min({a, b}) = IF a <= b THEN a ELSE b
<1> DEFINE m == IF a <= b THEN a ELSE b
<1>1. m \in {a, b} /\ \A y \in {a, b} : m <= y
  OBVIOUS
<1>2. \A x \in {a, b} : (\A y \in {a, b} : x <= y) => x = m
  OBVIOUS
<1> QED
  BY <1>1, <1>2 DEF Min

LEMMA NumbersFollow ==
    ASSUME NEW first \in Nat \ {0}, NEW m \in Nat, m <= MaxBytes, first <= m + 1
    PROVE  /\ Numbers(first, m) \in Seq(1..MaxBytes)
           /\ Len(Numbers(first, m)) = m - first + 1
           /\ Follows(Numbers(first, m), first - 1)
<1>1. Numbers(first, m) = [i \in 1..(m - first + 1) |-> first + i - 1]
  BY DEF Numbers
<1>2. \A i \in 1..(m - first + 1) : first + i - 1 \in 1..MaxBytes /\ first - 1 + i = first + i - 1
  OBVIOUS
<1>3. m - first + 1 \in Nat
  OBVIOUS
<1>4. [i \in 1..(m - first + 1) |-> first + i - 1] \in Seq(1..MaxBytes)
  BY <1>2, <1>3, SeqDef
<1>5. Len(Numbers(first, m)) = m - first + 1
  BY <1>1, <1>3
<1> QED
  BY <1>1, <1>2, <1>4, <1>5 DEF Follows

LEMMA FollowsConcat ==
    ASSUME NEW s \in Seq(1..MaxBytes), NEW t \in Seq(1..MaxBytes), NEW n \in Nat,
           Follows(s, n), Follows(t, n + Len(s))
    PROVE  /\ s \o t \in Seq(1..MaxBytes) /\ Len(s \o t) = Len(s) + Len(t)
           /\ Follows(s \o t, n)
<1>1. Len(s) \in Nat /\ Len(t) \in Nat
  BY LenProperties
<1>2. /\ s \o t \in Seq(1..MaxBytes) /\ Len(s \o t) = Len(s) + Len(t)
      /\ \A i \in 1..(Len(s) + Len(t)) :
           (s \o t)[i] = IF i <= Len(s) THEN s[i] ELSE t[i - Len(s)]
  BY ConcatProperties
<1>3. ASSUME NEW i \in 1..Len(s \o t) PROVE (s \o t)[i] = n + i
  <2>1. CASE i <= Len(s)
    BY <1>1, <1>2, <2>1 DEF Follows
  <2>2. CASE i > Len(s)
    <3>1. i - Len(s) \in 1..Len(t) /\ (s \o t)[i] = t[i - Len(s)]
      BY <1>1, <1>2, <2>2
    <3> QED
      BY <1>1, <3>1 DEF Follows
  <2> QED
    BY <1>1, <2>1, <2>2
<1> QED
  BY <1>2, <1>3 DEF Follows

LEMMA FollowsSplit ==
    ASSUME NEW s \in Seq(1..MaxBytes), NEW k \in Nat, k <= Len(s)
    PROVE  /\ SubSeq(s, 1, k) \in Seq(1..MaxBytes) /\ Len(SubSeq(s, 1, k)) = k
           /\ SubSeq(s, k + 1, Len(s)) \in Seq(1..MaxBytes)
           /\ Len(SubSeq(s, k + 1, Len(s))) = Len(s) - k
           /\ k > 0 => SubSeq(s, 1, k)[1] = s[1]
           /\ \A n \in Nat : Follows(s, n) => /\ Follows(SubSeq(s, 1, k), n)
                                              /\ Follows(SubSeq(s, k + 1, Len(s)), n + k)
<1>1. Len(s) \in Nat /\ \A i \in 1..Len(s) : s[i] \in 1..MaxBytes
  BY LenProperties, ElementOfSeq
<1>2. /\ SubSeq(s, 1, k) \in Seq(1..MaxBytes)
      /\ Len(SubSeq(s, 1, k)) = IF 1 <= k THEN k - 1 + 1 ELSE 0
      /\ \A i \in 1..(k - 1 + 1) : SubSeq(s, 1, k)[i] = s[1 + i - 1]
  BY <1>1, SubSeqProperties
<1>3. /\ SubSeq(s, k + 1, Len(s)) \in Seq(1..MaxBytes)
      /\ Len(SubSeq(s, k + 1, Len(s))) = IF k + 1 <= Len(s) THEN Len(s) - (k + 1) + 1 ELSE 0
      /\ \A i \in 1..(Len(s) - (k + 1) + 1) : SubSeq(s, k + 1, Len(s))[i] = s[(k + 1) + i - 1]
  <2>1. k + 1 \in Int /\ Len(s) \in Int /\ \A i \in (k + 1)..Len(s) : s[i] \in 1..MaxBytes
    BY <1>1
  <2> QED
    BY <2>1, SubSeqProperties
<1>4. Len(SubSeq(s, 1, k)) = k /\ Len(SubSeq(s, k + 1, Len(s))) = Len(s) - k
  BY <1>1, <1>2, <1>3
<1>5. ASSUME NEW n \in Nat, Follows(s, n)
      PROVE  Follows(SubSeq(s, 1, k), n) /\ Follows(SubSeq(s, k + 1, Len(s)), n + k)
  <2>1. Follows(SubSeq(s, 1, k), n)
    BY <1>1, <1>2, <1>4, <1>5 DEF Follows
  <2>2. ASSUME NEW i \in 1..(Len(s) - k) PROVE SubSeq(s, k + 1, Len(s))[i] = n + k + i
    <3>1. i \in 1..(Len(s) - (k + 1) + 1) /\ k + i \in 1..Len(s) /\ (k + 1) + i - 1 = k + i
      BY <1>1
    <3>2. SubSeq(s, k + 1, Len(s))[i] = s[k + i]
      BY <1>3, <3>1
    <3>3. s[k + i] = n + (k + i)
      BY <1>5, <3>1 DEF Follows
    <3> QED
      BY <3>2, <3>3
  <2> QED
    BY <1>4, <2>1, <2>2 DEF Follows
<1> QED
  BY <1>1, <1>2, <1>3, <1>4, <1>5

-----------------------------------------------------------------------------
(* The stages of a disposal.                                                 *)
Stages == {"none", "marked", "stopped", "completed", "released", "done"}

LEMMA StagesInOrder ==
    /\ ToSet(Disposal) = Stages /\ Len(Disposal) = 6
    /\ Stage("none") = 1 /\ Stage("marked") = 2 /\ Stage("stopped") = 3
    /\ Stage("completed") = 4 /\ Stage("released") = 5 /\ Stage("done") = 6
<1>1. Len(Disposal) = 6
  BY DEF Disposal
<1>2. /\ Disposal[1] = "none" /\ Disposal[2] = "marked" /\ Disposal[3] = "stopped"
      /\ Disposal[4] = "completed" /\ Disposal[5] = "released" /\ Disposal[6] = "done"
  BY DEF Disposal
<1>3. ASSUME NEW n \in 1..6, NEW step, Disposal[n] = step PROVE Stage(step) = n
  <2>1. \A i \in 1..Len(Disposal) : Disposal[i] = step <=> i = n
    BY <1>1, <1>2, <1>3
  <2> QED
    BY <1>1, <2>1 DEF Stage
<1>4. ToSet(Disposal) = Stages
  <2>1. DOMAIN Disposal = 1..6
    BY DEF Disposal
  <2> QED
    BY <1>2, <2>1 DEF ToSet, Stages
<1> QED
  BY <1>1, <1>2, <1>3, <1>4

LEMMA Reaching ==
    ASSUME disposal \in Stages
    PROVE  /\ Reached("marked") <=> disposal # "none"
           /\ Reached("stopped") <=> disposal \notin {"none", "marked"}
           /\ Reached("released") <=> disposal \in {"released", "done"}
  BY StagesInOrder DEF Reached, Stages

LEMMA NextStage ==
    ASSUME NEW from, DisposeStep(from), disposal \in Stages
    PROVE  disposal' \in Stages \ {"none"} /\ (from = "stopped" => disposal' = "completed")
<1>1. from \in Stages \ {"done"} /\ disposal' = Disposal[Stage(from) + 1]
  BY DEF DisposeStep, Stages
<1>2. /\ Disposal[2] = "marked" /\ Disposal[3] = "stopped" /\ Disposal[4] = "completed"
      /\ Disposal[5] = "released" /\ Disposal[6] = "done"
  BY DEF Disposal
<1>3. /\ Stage("none") + 1 = 2 /\ Stage("marked") + 1 = 3 /\ Stage("stopped") + 1 = 4
      /\ Stage("completed") + 1 = 5 /\ Stage("released") + 1 = 6
  BY StagesInOrder
<1> QED
  BY <1>1, <1>2, <1>3 DEF Stages

-----------------------------------------------------------------------------
(* Types.                                                                    *)
Place == [pc : {"off", "enter", "loop", "put"}, bytes : Seq(1..MaxBytes)]

LEMMA EmptyIsFree == \A S : <<>> \in Seq(S) /\ Len(<<>>) = 0
  BY EmptySeq

LEMMA InitTypes == Init => TypeOK
<1> SUFFICES ASSUME Init PROVE TypeOK
  OBVIOUS
<1>1. produced \in 0..MaxBytes
  BY DEF Init
<1>2. Numbers(1, produced) \in Seq(1..MaxBytes)
  <2>1. produced \in Nat /\ produced <= MaxBytes
    BY <1>1
  <2>2. Numbers(1, produced) \in Seq(1..MaxBytes)
    BY <2>1, NumbersFollow
  <2> QED
    BY <2>2
<1>3. drain \in [Threads -> Place] /\ \A d \in Threads : /\ drain[d].pc \notin {"loop", "put"}
                                                         /\ drain[d].bytes = <<>>
  <2>1. Off \in Place /\ Off.pc = "off" /\ Off.bytes = <<>>
    BY EmptyIsFree DEF Off, Place
  <2>2. Started \in Place /\ Started.pc = "enter" /\ Started.bytes = <<>>
    BY EmptyIsFree DEF Started, Off, Place
  <2>3. drain = [worker |-> Off, initial |-> Started] /\ Threads = {"worker", "initial"}
    BY DEF Init, Threads
  <2>4. drain \in [Threads -> Place] /\ drain["worker"] = Off /\ drain["initial"] = Started
    BY <2>1, <2>2, <2>3
  <2> QED
    BY <2>1, <2>2, <2>3, <2>4
<1>4. "free" \notin Threads
  BY DEF Threads
<1> QED
  BY <1>1, <1>2, <1>3, <1>4, EmptyIsFree, StagesInOrder DEF Init, TypeOK, Place, Stages

(* A step of a thread: what it may change of drain and lock.                 *)
LEMMA ThreadTypes ==
    ASSUME TypeOK, NEW d \in Threads, NEW place \in Place,
           drain' = [drain EXCEPT ![d] = place],
           place.pc = "put" <=> place.bytes # <<>>,
           \/ place.pc \in {"loop", "put"} /\ lock \in {"free", d} /\ lock' = d
           \/ place.pc \notin {"loop", "put"} /\ lock = d /\ lock' = "free"
           \/ place.pc \notin {"loop", "put"} /\ lock # d /\ lock' = lock
    PROVE  /\ drain' \in [Threads -> Place] /\ lock' \in Threads \cup {"free"}
           /\ \A e \in Threads : drain'[e].pc \in {"loop", "put"} <=> lock' = e
           /\ \A e \in Threads : drain'[e].pc = "put" <=> drain'[e].bytes # <<>>
<1>1. drain \in [Threads -> Place] /\ lock \in Threads \cup {"free"} /\ "free" \notin Threads
  BY DEF TypeOK, Place, Threads
<1>2. \A e \in Threads : /\ drain[e].pc \in {"loop", "put"} <=> lock = e
                         /\ drain[e].pc = "put" <=> drain[e].bytes # <<>>
  BY DEF TypeOK
<1>3. \A e \in Threads : drain'[e] = IF e = d THEN place ELSE drain[e]
  BY <1>1
<1>4. drain' \in [Threads -> Place]
  BY <1>1
<1>5. lock' \in Threads \cup {"free"}
  BY <1>1
<1>6. ASSUME NEW e \in Threads PROVE drain'[e].pc \in {"loop", "put"} <=> lock' = e
  BY <1>1, <1>2, <1>3
<1>7. ASSUME NEW e \in Threads PROVE drain'[e].pc = "put" <=> drain'[e].bytes # <<>>
  BY <1>2, <1>3
<1> QED
  BY <1>4, <1>5, <1>6, <1>7

LEMMA QueueItem ==
    ASSUME TypeOK, NEW i \in 1..Len(queue)
    PROVE  /\ queue[i] \in Seq(1..MaxBytes) /\ queue[i] # <<>>
           /\ queue[i][1] \in 1..MaxBytes /\ queue[i][1] \in Nat /\ Len(queue[i]) \in Nat \ {0}
<1>1. queue[i] \in Seq(1..MaxBytes) /\ queue[i] # <<>>
  <2> DEFINE S == Seq(1..MaxBytes) \ {<<>>}
  <2>1. queue \in Seq(S)
    BY DEF TypeOK
  <2> HIDE DEF S
  <2>2. queue[i] \in S
    BY <2>1, ElementOfSeq
  <2> QED
    BY <2>2 DEF S
<1>2. Len(queue[i]) \in Nat \ {0}
  BY <1>1, EmptySeq
<1>3. queue[i][1] \in 1..MaxBytes
  BY <1>1, <1>2, ElementOfSeq
<1> QED
  BY <1>1, <1>2, <1>3

(* TypeOK, part by part.                                                     *)
LEMMA Parts ==
    ASSUME TypeOK
    PROVE  /\ produced \in 0..MaxBytes /\ shell \in Seq(1..MaxBytes) /\ Len(shell) \in Nat
           /\ pending \in Seq(1..MaxBytes) /\ Len(pending) \in Nat
           /\ consumed \in Seq(1..MaxBytes) /\ Len(consumed) \in Nat
           /\ drain \in [Threads -> Place] /\ lock \in Threads \cup {"free"}
           /\ "free" \notin Threads /\ Threads = {"worker", "initial"}
           /\ Held \in Seq(1..MaxBytes) /\ Len(Held) \in Nat
           /\ \A d \in Threads : /\ drain[d].pc \in {"loop", "put"} <=> lock = d
                                 /\ drain[d].pc = "put" <=> drain[d].bytes # <<>>
                                 /\ drain[d].bytes \in Seq(1..MaxBytes)
                                 /\ lock = d => Held = drain[d].bytes
           /\ queue \in Seq(Seq(1..MaxBytes) \ {<<>>}) /\ Len(queue) \in Nat
           /\ \A i \in 1..Len(queue) : /\ queue[i] \in Seq(1..MaxBytes) /\ queue[i] # <<>>
                                       /\ Len(queue[i]) \in Nat \ {0}
                                       /\ queue[i][1] \in 1..MaxBytes
           /\ disposal \in Stages
<1>1. /\ drain \in [Threads -> Place] /\ lock \in Threads \cup {"free"}
      /\ "free" \notin Threads /\ Threads = {"worker", "initial"}
  BY DEF TypeOK, Place, Threads
<1>2. ASSUME NEW d \in Threads
      PROVE  /\ drain[d].pc \in {"loop", "put"} <=> lock = d
             /\ drain[d].pc = "put" <=> drain[d].bytes # <<>>
             /\ drain[d].bytes \in Seq(1..MaxBytes)
             /\ lock = d => Held = drain[d].bytes
  BY <1>1 DEF TypeOK, Held, Place
<1>3. Held \in Seq(1..MaxBytes)
  BY <1>1, <1>2, EmptyIsFree DEF Held
<1>4. /\ produced \in 0..MaxBytes /\ shell \in Seq(1..MaxBytes)
      /\ pending \in Seq(1..MaxBytes) /\ consumed \in Seq(1..MaxBytes)
      /\ queue \in Seq(Seq(1..MaxBytes) \ {<<>>})
  BY DEF TypeOK
<1>5. disposal \in Stages
  BY StagesInOrder DEF TypeOK
<1>6. ASSUME NEW i \in 1..Len(queue)
      PROVE  /\ queue[i] \in Seq(1..MaxBytes) /\ queue[i] # <<>>
             /\ Len(queue[i]) \in Nat \ {0} /\ queue[i][1] \in 1..MaxBytes
  BY QueueItem
<1>7. Len(shell) \in Nat /\ Len(pending) \in Nat /\ Len(consumed) \in Nat /\ Len(Held) \in Nat
  BY <1>3, <1>4, LenProperties
<1>8. Len(queue) \in Nat
  BY <1>4, LenProperties
<1> QED
  BY <1>1, <1>2, <1>3, <1>4, <1>5, <1>6, <1>7, <1>8

LEMMA Completions ==
    ASSUME TypeOK, NEW how \in {"closed", "failed"}, Complete(how)
    PROVE  completed' \in {"closed", "failed"} /\ (completed # "open" => completed' = completed)
  BY DEF Complete, TypeOK

LEMMA NewBytes ==
    ASSUME TypeOK, NEW n \in 1..MaxMessage, Receive(n)
    PROVE  /\ n \in Nat /\ produced \in Nat /\ produced + n <= MaxBytes
           /\ produced' = produced + n
           /\ Numbers(produced + 1, produced + n) \in Seq(1..MaxBytes)
           /\ Len(Numbers(produced + 1, produced + n)) = n
           /\ Follows(Numbers(produced + 1, produced + n), produced)
<1> DEFINE new == Numbers(produced + 1, produced + n)
<1>1. n \in Nat /\ produced \in Nat /\ produced + n <= MaxBytes /\ produced' = produced + n
  BY DEF Receive, TypeOK
<1>2. /\ produced + 1 \in Nat \ {0} /\ produced + n \in Nat /\ produced + 1 <= produced + n + 1
      /\ produced + n - (produced + 1) + 1 = n /\ produced + 1 - 1 = produced
  BY <1>1
<1>3. /\ new \in Seq(1..MaxBytes) /\ Len(new) = produced + n - (produced + 1) + 1
      /\ Follows(new, produced + 1 - 1)
  BY <1>1, <1>2, NumbersFollow
<1> QED
  BY <1>1, <1>2, <1>3

(* A step that is confined to the shell's bytes and Drain.                   *)
LEMMA ShellTypes ==
    ASSUME TypeOK, produced' \in 0..MaxBytes, shell' \in Seq(1..MaxBytes),
           drain' \in [Threads -> Place], lock' \in Threads \cup {"free"},
           \A e \in Threads : drain'[e].pc \in {"loop", "put"} <=> lock' = e,
           \A e \in Threads : drain'[e].pc = "put" <=> drain'[e].bytes # <<>>,
           UNCHANGED <<worker, queue, completed, pending, consumed, reader, disposal>>
    PROVE  TypeOK'
<1>1. /\ {pending', consumed'} \subseteq Seq(1..MaxBytes)
      /\ worker' \in {"open", "closing", "gone"}
      /\ queue' \in Seq(Seq(1..MaxBytes) \ {<<>>})
      /\ completed' \in {"open", "closed", "failed"}
      /\ reader' \in {"reading", "ended", "failed"}
      /\ disposal' \in ToSet(Disposal)
  BY DEF TypeOK
<1>2. \A i \in 1..Len(queue') : Len(queue'[i]) <= ChunkSize
  BY DEF TypeOK
<1> QED
  BY <1>1, <1>2 DEF TypeOK, Place

(* What the server sends keeps the types.                                    *)
LEMMA ReceiveTypes ==
    ASSUME TypeOK, NEW n \in 1..MaxMessage, Receive(n)
    PROVE  TypeOK'
<1>1. produced + n \in 0..MaxBytes /\ produced' = produced + n
  <2>1. n \in Nat /\ produced \in Nat /\ produced + n <= MaxBytes /\ produced' = produced + n
    BY NewBytes
  <2> QED
    BY <2>1
<1>2. Numbers(produced + 1, produced + n) \in Seq(1..MaxBytes)
  BY NewBytes
<1>3. shell' \in Seq(1..MaxBytes)
  BY <1>2, Parts, ConcatProperties DEF Receive
<1>4. /\ drain' \in [Threads -> Place] /\ lock' \in Threads \cup {"free"}
      /\ \A e \in Threads : drain'[e].pc \in {"loop", "put"} <=> lock' = e
      /\ \A e \in Threads : drain'[e].pc = "put" <=> drain'[e].bytes # <<>>
  <2>1. CASE drain["worker"] = Off
    <3> DEFINE place == [Off EXCEPT !.pc = "enter"]
    <3>1. place \in Place /\ place.pc = "enter" /\ place.bytes = <<>>
      BY EmptyIsFree DEF Off, Place
    <3>2. drain' = [drain EXCEPT !["worker"] = place] /\ lock' = lock
      BY <2>1 DEF Receive
    <3>5. lock # "worker" /\ "worker" \in Threads
      BY <2>1, Parts DEF Off
    <3> HIDE DEF place
    <3> QED
      BY <3>1, <3>2, <3>5, ThreadTypes
  <2>2. CASE drain["worker"] # Off
    BY <2>2, Parts DEF Receive
  <2> QED
    BY <2>1, <2>2
<1>5. produced' \in 0..MaxBytes
      /\ UNCHANGED <<worker, queue, completed, pending, consumed, reader, disposal>>
  BY <1>1 DEF Receive
<1> QED
  BY <1>3, <1>4, <1>5, ShellTypes

(* So does what a thread does in Drain.                                      *)
LEMMA DrainTypes ==
    ASSUME TypeOK, NEW d \in Threads, Draining(d)
    PROVE  TypeOK'
<1>1. CASE Enter(d)
  <2> DEFINE pc == IF Reached("marked") THEN "off" ELSE "loop"
             place == [drain[d] EXCEPT !.pc = pc]
  <2>1. drain[d].bytes = <<>> /\ lock = "free" /\ drain[d] \in Place
    BY <1>1, Parts DEF Enter, LockFree
  <2>2. place \in Place /\ place.pc = pc /\ place.bytes = <<>>
    BY <2>1 DEF Place
  <2>3. drain' = [drain EXCEPT ![d] = place]
    BY <1>1, Parts DEF Enter, At
  <2>4. lock' = IF Reached("marked") THEN lock ELSE d
    BY <1>1 DEF Enter
  <2>5. /\ drain' \in [Threads -> Place] /\ lock' \in Threads \cup {"free"}
        /\ \A e \in Threads : drain'[e].pc \in {"loop", "put"} <=> lock' = e
        /\ \A e \in Threads : drain'[e].pc = "put" <=> drain'[e].bytes # <<>>
    <3> HIDE DEF place
    <3> QED
      BY <2>1, <2>2, <2>3, <2>4, Parts, ThreadTypes
  <2> QED
    BY <1>1, <2>5 DEF Enter, TypeOK, Place
<1>2. ASSUME Leave(d), drain[d].pc \in {"loop", "put"}
      PROVE  /\ drain' \in [Threads -> Place] /\ lock' \in Threads \cup {"free"}
             /\ \A e \in Threads : drain'[e].pc \in {"loop", "put"} <=> lock' = e
             /\ \A e \in Threads : drain'[e].pc = "put" <=> drain'[e].bytes # <<>>
  <2>1. Off \in Place /\ Off.pc = "off" /\ Off.bytes = <<>>
    BY EmptyIsFree DEF Off, Place
  <2> QED
    BY <1>2, <2>1, Parts, ThreadTypes DEF Leave
<1>3. CASE Take(d)
  <2>1. CASE shell = <<>> \/ Reached("released")
    BY <1>2, <1>3, <2>1 DEF Take, TypeOK, Place
  <2>2. CASE ~(shell = <<>> \/ Reached("released"))
    <3> DEFINE n == Min({DrainSize, Len(shell)})
               place == [pc |-> "put", bytes |-> SubSeq(shell, 1, n)]
    <3>1. Len(shell) \in Nat \ {0} /\ n \in Nat \ {0} /\ n <= Len(shell)
      <4>1. Len(shell) \in Nat \ {0}
        BY <2>2, Parts, EmptySeq
      <4>2. n = IF DrainSize <= Len(shell) THEN DrainSize ELSE Len(shell)
        BY <4>1, MinOfTwo
      <4> QED
        BY <4>1, <4>2
    <3>2. /\ SubSeq(shell, 1, n) \in Seq(1..MaxBytes) /\ Len(SubSeq(shell, 1, n)) = n
          /\ SubSeq(shell, n + 1, Len(shell)) \in Seq(1..MaxBytes)
      <4> HIDE DEF n
      <4> QED
        BY <3>1, Parts, FollowsSplit
    <3>3. drain' = [drain EXCEPT ![d] = place] /\ shell' = SubSeq(shell, n + 1, Len(shell))
          /\ lock' = d /\ lock = d
      BY <1>3, <2>2, Parts DEF Take
    <3>4. place \in Place /\ place.pc = "put" /\ place.bytes # <<>>
      <4> HIDE DEF n
      <4> QED
        BY <3>1, <3>2, EmptyIsFree DEF Place
    <3>5. /\ drain' \in [Threads -> Place] /\ lock' \in Threads \cup {"free"}
          /\ \A e \in Threads : drain'[e].pc \in {"loop", "put"} <=> lock' = e
          /\ \A e \in Threads : drain'[e].pc = "put" <=> drain'[e].bytes # <<>>
      <4> HIDE DEF place
      <4> QED
        BY <3>3, <3>4, ThreadTypes
    <3>6. produced' \in 0..MaxBytes
          /\ UNCHANGED <<worker, queue, completed, pending, consumed, reader, disposal>>
      BY <1>3, Parts DEF Take
    <3>7. shell' \in Seq(1..MaxBytes)
      BY <3>2, <3>3
    <3> QED
      BY <3>5, <3>6, <3>7, ShellTypes
  <2> QED
    BY <2>1, <2>2
<1>4. CASE Abandon(d)
  <2>1. completed' \in {"open", "closed", "failed"}
    BY <1>4, Completions DEF Abandon, TypeOK
  <2> QED
    BY <1>2, <1>4, <2>1 DEF Abandon, TypeOK, Place
<1>5. CASE Put(d)
  <2> DEFINE bytes == drain[d].bytes
             n == Min({ChunkSize, Len(bytes)})
             rest == SubSeq(bytes, n + 1, Len(bytes))
             place == [pc |-> IF rest = <<>> THEN "loop" ELSE "put", bytes |-> rest]
  <2>1. bytes \in Seq(1..MaxBytes) /\ bytes # <<>> /\ lock = d
    BY <1>5, Parts DEF Put
  <2>2. Len(bytes) \in Nat \ {0} /\ n \in Nat \ {0} /\ n <= Len(bytes) /\ n <= ChunkSize
    <3> HIDE DEF bytes
    <3> QED
      BY <2>1, EmptySeq, MinOfTwo
  <2>3. /\ SubSeq(bytes, 1, n) \in Seq(1..MaxBytes) /\ Len(SubSeq(bytes, 1, n)) = n
        /\ rest \in Seq(1..MaxBytes)
    <3> HIDE DEF n, bytes
    <3> QED
      BY <2>1, <2>2, FollowsSplit
  <2>4. /\ queue' = Append(queue, SubSeq(bytes, 1, n)) /\ drain' = [drain EXCEPT ![d] = place]
        /\ lock' = lock
    BY <1>5 DEF Put
  <2>5. place \in Place /\ (place.pc = "put" <=> place.bytes # <<>>)
        /\ place.pc \in {"loop", "put"}
    <3> HIDE DEF rest
    <3> QED
      BY <2>3 DEF Place
  <2>6. /\ drain' \in [Threads -> Place] /\ lock' \in Threads \cup {"free"}
        /\ \A e \in Threads : drain'[e].pc \in {"loop", "put"} <=> lock' = e
        /\ \A e \in Threads : drain'[e].pc = "put" <=> drain'[e].bytes # <<>>
    <3> HIDE DEF place
    <3> QED
      BY <2>1, <2>4, <2>5, ThreadTypes
  <2>7. /\ queue' \in Seq(Seq(1..MaxBytes) \ {<<>>})
        /\ \A i \in 1..Len(queue') : Len(queue'[i]) <= ChunkSize
    <3> DEFINE S == Seq(1..MaxBytes) \ {<<>>}
               item == SubSeq(bytes, 1, n)
    <3>1. item \in S /\ Len(item) <= ChunkSize
      <4> HIDE DEF n, bytes
      <4> QED
        BY <2>2, <2>3, EmptyIsFree
    <3>2. queue \in Seq(S) /\ \A i \in 1..Len(queue) : Len(queue[i]) <= ChunkSize
      BY DEF TypeOK
    <3>3. queue' = Append(queue, item)
      BY <2>4
    <3> HIDE DEF S, item
    <3>4. /\ queue' \in Seq(S) /\ Len(queue') = Len(queue) + 1 /\ Len(queue) \in Nat
          /\ \A i \in 1..Len(queue) : queue'[i] = queue[i]
          /\ queue'[Len(queue) + 1] = item
      BY <3>1, <3>2, <3>3, AppendProperties, LenProperties
    <3>5. \A i \in 1..Len(queue') : i \in 1..Len(queue) \/ i = Len(queue) + 1
      BY <3>4
    <3> QED
      BY <3>1, <3>2, <3>4, <3>5 DEF S
  <2> QED
    BY <1>5, <2>6, <2>7 DEF Put, TypeOK, Place
<1> QED
  BY <1>1, <1>3, <1>4, <1>5 DEF Draining

(* What the terminal takes.                                                  *)
LEMMA ReadTakes ==
    ASSUME TypeOK, Read
    PROVE  \E item, n : /\ item \in Seq(1..MaxBytes) /\ n \in Nat \ {0} /\ n <= Len(item)
                        /\ n <= BufferSize
                        /\ \/ pending # <<>> /\ item = pending /\ queue' = queue
                           \/ /\ pending = <<>> /\ queue # <<>>
                              /\ item = queue[1] /\ queue' = Tail(queue)
                        /\ consumed' = consumed \o SubSeq(item, 1, n)
                        /\ pending' = SubSeq(item, n + 1, Len(item))
<1> DEFINE item == IF pending # <<>> THEN pending ELSE Head(queue)
           n == Min({BufferSize, Len(item)})
<1>1. /\ consumed' = consumed \o SubSeq(item, 1, n) /\ pending' = SubSeq(item, n + 1, Len(item))
      /\ queue' = IF pending # <<>> THEN queue ELSE Tail(queue)
      /\ pending # <<>> \/ queue # <<>>
  BY DEF Read
<1>2. \/ pending # <<>> /\ item = pending /\ queue' = queue
      \/ pending = <<>> /\ queue # <<>> /\ item = queue[1] /\ queue' = Tail(queue)
  <2>1. queue # <<>> => Head(queue) = queue[1]
    BY Parts
  <2> QED
    BY <1>1, <2>1
<1>3. item \in Seq(1..MaxBytes) /\ item # <<>>
  <2>1. queue # <<>> => 1 \in 1..Len(queue)
    BY Parts, EmptySeq
  <2> HIDE DEF item
  <2> QED
    BY <1>2, <2>1, Parts
<1> HIDE DEF item
<1>4. Len(item) \in Nat \ {0}
  BY <1>3, EmptySeq
<1>5. n \in Nat \ {0} /\ n <= Len(item) /\ n <= BufferSize
  <2>1. n = IF BufferSize <= Len(item) THEN BufferSize ELSE Len(item)
    BY <1>4, MinOfTwo
  <2> QED
    BY <1>4, <2>1
<1> QED
  BY <1>1, <1>2, <1>3, <1>5

(* The queue without its first item.                                         *)
LEMMA RestOfQueue ==
    ASSUME TypeOK, queue # <<>>
    PROVE  /\ Tail(queue) \in Seq(Seq(1..MaxBytes) \ {<<>>}) /\ Len(Tail(queue)) = Len(queue) - 1
           /\ Len(queue) \in Nat \ {0} /\ (Tail(queue) = <<>> <=> Len(queue) = 1)
           /\ \A i \in 1..Len(Tail(queue)) :
                Tail(queue)[i] = queue[i + 1] /\ i + 1 \in 1..Len(queue)
<1> DEFINE S == Seq(1..MaxBytes) \ {<<>>}
<1>1. queue \in Seq(S)
  BY DEF TypeOK
<1> HIDE DEF S
<1>2. /\ Tail(queue) \in Seq(S) /\ Len(Tail(queue)) = Len(queue) - 1
      /\ \A i \in 1..Len(Tail(queue)) : Tail(queue)[i] = queue[i + 1]
  BY <1>1, HeadTailProperties
<1>3. Len(queue) \in Nat \ {0}
  BY <1>1, EmptySeq
<1>4. Tail(queue) = <<>> <=> Len(Tail(queue)) = 0
  BY <1>2, EmptySeq
<1>5. \A i \in 1..Len(Tail(queue)) : i + 1 \in 1..Len(queue)
  BY <1>2, <1>3
<1>6. Tail(queue) = <<>> <=> Len(queue) = 1
  BY <1>2, <1>3, <1>4
<1>7. Tail(queue) \in Seq(Seq(1..MaxBytes) \ {<<>>})
  BY <1>2 DEF S
<1> QED
  BY <1>2, <1>3, <1>5, <1>6, <1>7

LEMMA ReadTypes ==
    ASSUME TypeOK, Read
    PROVE  TypeOK'
<1>1. PICK item, n : /\ item \in Seq(1..MaxBytes) /\ n \in Nat \ {0} /\ n <= Len(item)
                     /\ \/ pending # <<>> /\ item = pending /\ queue' = queue
                        \/ /\ pending = <<>> /\ queue # <<>>
                           /\ item = queue[1] /\ queue' = Tail(queue)
                     /\ consumed' = consumed \o SubSeq(item, 1, n)
                     /\ pending' = SubSeq(item, n + 1, Len(item))
  BY ReadTakes
<1>2. SubSeq(item, 1, n) \in Seq(1..MaxBytes) /\ pending' \in Seq(1..MaxBytes)
  BY <1>1, FollowsSplit
<1>3. consumed' \in Seq(1..MaxBytes)
  BY <1>1, <1>2, Parts, ConcatProperties
<1>4. /\ queue' \in Seq(Seq(1..MaxBytes) \ {<<>>})
      /\ \A i \in 1..Len(queue') : Len(queue'[i]) <= ChunkSize
  <2>1. CASE queue' = queue
    BY <2>1 DEF TypeOK
  <2>2. CASE queue # <<>> /\ queue' = Tail(queue)
    <3>1. \A i \in 1..Len(queue) : Len(queue[i]) <= ChunkSize
      BY DEF TypeOK
    <3> QED
      BY <2>2, <3>1, RestOfQueue
  <2> QED
    BY ONLY <1>1, <2>1, <2>2, Zenon
<1> QED
  BY <1>2, <1>3, <1>4 DEF Read, TypeOK

LEMMA DisposeTypes ==
    ASSUME TypeOK, NEW from, DisposeStep(from)
    PROVE  TypeOK'
<1>1. disposal' \in ToSet(Disposal)
  BY Parts, NextStage, StagesInOrder
<1>2. completed' \in {"open", "closed", "failed"} /\ worker' \in {"open", "closing", "gone"}
  BY DEF DisposeStep, Complete, TypeOK
<1> QED
  BY <1>1, <1>2 DEF DisposeStep, TypeOK

LEMMA NextTypes == TypeOK /\ [Next]_vars => TypeOK'
<1> SUFFICES ASSUME TypeOK, [Next]_vars PROVE TypeOK'
  OBVIOUS
<1>1. CASE RemoteCloses
  <2> DEFINE place == [drain["worker"] EXCEPT !.pc = "enter"]
  <2>1. drain["worker"].pc = "off" /\ drain["worker"] \in Place /\ lock # "worker"
        /\ drain["worker"].bytes = <<>>
    BY <1>1, Parts DEF RemoteCloses, MayReceive
  <2>2. place \in Place /\ place.pc = "enter" /\ place.bytes = <<>>
    BY <2>1 DEF Place
  <2>3. drain' = [drain EXCEPT !["worker"] = place] /\ lock' = lock
    BY <1>1, Parts DEF RemoteCloses, At
  <2>4. /\ drain' \in [Threads -> Place] /\ lock' \in Threads \cup {"free"}
        /\ \A e \in Threads : drain'[e].pc \in {"loop", "put"} <=> lock' = e
        /\ \A e \in Threads : drain'[e].pc = "put" <=> drain'[e].bytes # <<>>
    <3> HIDE DEF place
    <3> QED
      BY <2>1, <2>2, <2>3, Parts, ThreadTypes
  <2> QED
    BY <1>1, <2>4 DEF RemoteCloses, TypeOK, Place
<1>2. CASE FinishClose \/ RemoteFails
  <2>1. completed' \in {"open", "closed", "failed"}
    BY <1>2, Completions DEF FinishClose, RemoteFails
  <2> QED
    BY <1>2, <2>1 DEF FinishClose, RemoteFails, TypeOK
<1>3. CASE ReadEnds
  BY <1>3 DEF ReadEnds, TypeOK
<1>4. CASE UNCHANGED vars
  BY <1>4 DEF vars, TypeOK
<1> QED
  BY <1>1, <1>2, <1>3, <1>4, ReceiveTypes, DrainTypes, ReadTypes, DisposeTypes
  DEF Next, Dispose, Disposing

(* The variables of a session keep their types: one thread at most is in     *)
(* Drain with bytes, and no item of the channel is empty or too long.        *)
THEOREM TypeCorrect == Spec => []TypeOK
  BY InitTypes, NextTypes, PTL DEF Spec

-----------------------------------------------------------------------------
(* Where the bytes are.                                                      *)
LEMMA LastsAreNumbers ==
    ASSUME TypeOK
    PROVE  LastRead \in Nat /\ LastQueued \in Nat /\ LastHeld \in Nat
<1>1. LastRead \in Nat /\ Len(Held) \in Nat
  BY Parts DEF LastRead
<1>2. queue # <<>> => Len(queue) \in 1..Len(queue)
  BY Parts, EmptySeq
<1>3. LastQueued \in Nat
  <2>1. CASE queue = <<>>
    BY <1>1, <2>1 DEF LastQueued
  <2>2. CASE queue # <<>>
    <3> DEFINE item == queue[Len(queue)]
    <3>1. item[1] \in 1..MaxBytes /\ Len(item) \in Nat \ {0}
      BY <1>2, <2>2, Parts
    <3>2. LastQueued = item[1] + Len(item) - 1
      BY <2>2 DEF LastQueued
    <3> HIDE DEF item
    <3> QED
      BY <3>1, <3>2
  <2> QED
    BY <2>1, <2>2
<1> QED
  BY <1>1, <1>3 DEF LastHeld

LEMMA OrderKept ==
    ASSUME OrderInv, consumed' = consumed, pending' = pending, queue' = queue, shell' = shell,
           produced' = produced, completed' = "open" => completed = "open" /\ Held' = Held
    PROVE  OrderInv'
<1>1. LastRead' = LastRead /\ LastQueued' = LastQueued
  BY DEF LastRead, LastQueued
<1>2. /\ Follows(consumed, 0)' /\ Follows(pending, Len(consumed))'
      /\ \A i \in 1..Len(queue') : Follows(queue'[i], queue'[i][1] - 1)
  BY DEF OrderInv, Follows
<1>3. /\ queue' # <<>> => queue'[1][1] = LastRead' + 1
      /\ \A i \in 1..Len(queue') :
            i > 1 => queue'[i][1] = queue'[i - 1][1] + Len(queue'[i - 1])
  BY <1>1 DEF OrderInv
<1>4. ASSUME completed' = "open"
      PROVE  /\ Follows(Held, LastQueued)' /\ Follows(shell, LastHeld)'
             /\ LastHeld' + Len(shell') = produced'
  <2>1. LastHeld' = LastHeld /\ Held' = Held
    BY <1>1, <1>4 DEF LastHeld
  <2> QED
    BY <1>1, <1>4, <2>1 DEF OrderInv, Follows
<1> QED
  BY <1>2, <1>3, <1>4 DEF OrderInv, Follows

LEMMA InitOrdered == Init => OrderInv
<1> SUFFICES ASSUME Init PROVE OrderInv
  OBVIOUS
<1>1. TypeOK
  BY InitTypes
<1>2. produced \in Nat /\ produced <= MaxBytes /\ shell = Numbers(1, produced)
  BY Parts, <1>1 DEF Init
<1>3. Len(shell) = produced /\ Follows(shell, 0)
  <2>1. Len(shell) = produced - 1 + 1 /\ Follows(shell, 1 - 1)
    BY <1>2, NumbersFollow
  <2> QED
    BY <1>2, <2>1
<1>4. Held = <<>> /\ Len(Held) = 0 /\ consumed = <<>> /\ pending = <<>> /\ queue = <<>>
      /\ Len(consumed) = 0 /\ Len(pending) = 0 /\ Len(queue) = 0
  BY EmptyIsFree DEF Init, Held
<1>5. LastRead = 0 /\ LastQueued = 0 /\ LastHeld = 0
  BY <1>4 DEF LastRead, LastQueued, LastHeld
<1> QED
  BY <1>2, <1>3, <1>4, <1>5 DEF OrderInv, Follows

LEMMA ReceiveOrdered ==
    ASSUME TypeOK, OrderInv, NEW n \in 1..MaxMessage, Receive(n)
    PROVE  OrderInv'
<1> DEFINE new == Numbers(produced + 1, produced + n)
<1>1. /\ n \in Nat /\ produced \in Nat /\ produced + n <= MaxBytes /\ produced' = produced + n
      /\ shell' = shell \o new
      /\ UNCHANGED <<lock, queue, completed, pending, consumed>>
  BY NewBytes DEF Receive
<1>2. new \in Seq(1..MaxBytes) /\ Len(new) = n /\ Follows(new, produced)
  BY NewBytes
<1>3. Held' = Held
  <2>1. lock # "free" => drain'[lock].bytes = drain[lock].bytes
    BY Parts DEF Receive, Off
  <2> QED
    BY <1>1, <2>1 DEF Held
<1>4. LastRead' = LastRead /\ LastQueued' = LastQueued /\ LastHeld' = LastHeld
  BY <1>1, <1>3 DEF LastRead, LastQueued, LastHeld
<1> HIDE DEF new
<1>5. completed = "open" => Follows(shell', LastHeld) /\ LastHeld + Len(shell') = produced'
  <2> SUFFICES ASSUME completed = "open"
               PROVE  Follows(shell', LastHeld) /\ LastHeld + Len(shell') = produced'
    OBVIOUS
  <2>1. Follows(shell, LastHeld) /\ LastHeld + Len(shell) = produced
    BY DEF OrderInv
  <2>2. Follows(new, LastHeld + Len(shell))
    BY <1>2, <2>1
  <2>3. Follows(shell \o new, LastHeld) /\ Len(shell \o new) = Len(shell) + Len(new)
    BY <1>2, <2>1, <2>2, Parts, LastsAreNumbers, FollowsConcat
  <2>4. Follows(shell', LastHeld) /\ Len(shell') = Len(shell) + n
    BY <1>1, <1>2, <2>3
  <2>5. LastHeld + (Len(shell) + n) = produced + n
    <3>1. LastHeld \in Nat /\ Len(shell) \in Nat /\ n \in Nat
      BY <1>1, Parts, LastsAreNumbers
    <3>2. LastHeld + Len(shell) = produced
      BY <2>1
    <3> QED
      BY <3>1, <3>2
  <2> QED
    BY <1>1, <2>4, <2>5
<1> QED
  BY <1>1, <1>3, <1>4, <1>5 DEF OrderInv, Follows

LEMMA TakeOrdered ==
    ASSUME TypeOK, OrderInv, NEW d \in Threads, Take(d)
    PROVE  OrderInv'
<1>0. drain[d].bytes = <<>> /\ lock = d /\ Held = <<>> /\ Len(Held) = 0
  BY Parts, EmptyIsFree DEF Take
<1>1. CASE shell = <<>> \/ Reached("released")
  <2>1. Held' = <<>>
    BY <1>1 DEF Take, Leave, Held
  <2> QED
    BY <1>0, <1>1, <2>1, OrderKept DEF Take
<1>2. CASE ~(shell = <<>> \/ Reached("released"))
  <2> DEFINE n == Min({DrainSize, Len(shell)})
  <2>1. n \in Nat \ {0} /\ n <= Len(shell)
    <3>1. Len(shell) \in Nat \ {0}
      BY <1>2, Parts, EmptySeq
    <3>2. n = IF DrainSize <= Len(shell) THEN DrainSize ELSE Len(shell)
      BY <3>1, MinOfTwo
    <3> QED
      BY <3>1, <3>2
  <2>2. /\ drain' = [drain EXCEPT ![d] = [pc |-> "put", bytes |-> SubSeq(shell, 1, n)]]
        /\ shell' = SubSeq(shell, n + 1, Len(shell))
        /\ UNCHANGED <<produced, lock, queue, completed, pending, consumed>>
    BY <1>2 DEF Take
  <2>3. Held' = SubSeq(shell, 1, n)
    BY <1>0, <2>2, Parts DEF Held
  <2> HIDE DEF n
  <2>4. Len(Held') = n /\ Len(shell') = Len(shell) - n
    BY <2>1, <2>2, <2>3, Parts, FollowsSplit
  <2>5. LastRead' = LastRead /\ LastQueued' = LastQueued /\ LastHeld' = LastHeld + n
        /\ LastHeld = LastQueued /\ LastQueued \in Nat
    BY <1>0, <2>1, <2>2, <2>4, LastsAreNumbers DEF LastRead, LastQueued, LastHeld
  <2>6. completed = "open" => /\ Follows(Held', LastQueued) /\ Follows(shell', LastHeld + n)
                              /\ LastHeld + n + Len(shell') = produced
    <3> SUFFICES ASSUME completed = "open"
                 PROVE  /\ Follows(Held', LastQueued) /\ Follows(shell', LastHeld + n)
                        /\ LastHeld + n + Len(shell') = produced
      OBVIOUS
    <3>1. Follows(shell, LastQueued) /\ LastQueued + Len(shell) = produced
      BY <2>5 DEF OrderInv
    <3>2. Follows(SubSeq(shell, 1, n), LastQueued)
          /\ Follows(SubSeq(shell, n + 1, Len(shell)), LastQueued + n)
      BY <2>1, <2>5, <3>1, Parts, FollowsSplit
    <3>3. Follows(Held', LastQueued) /\ Follows(shell', LastQueued + n)
      BY <2>2, <2>3, <3>2
    <3>4. LastQueued + n + (Len(shell) - n) = produced
      BY <2>1, <2>5, <3>1, Parts
    <3> QED
      BY <2>4, <2>5, <3>3, <3>4
  <2> QED
    BY <2>2, <2>5, <2>6 DEF OrderInv, Follows
<1> QED
  BY <1>1, <1>2

LEMMA PutOrdered ==
    ASSUME TypeOK, OrderInv, NEW d \in Threads, Put(d)
    PROVE  OrderInv'
<1> DEFINE n == Min({ChunkSize, Len(Held)})
           item == SubSeq(Held, 1, n)
<1>1. lock = d /\ drain[d].bytes = Held /\ Held \in Seq(1..MaxBytes) /\ Held # <<>>
  BY Parts DEF Put
<1>2. n \in Nat \ {0} /\ n <= Len(Held) /\ Len(Held) \in Nat
  <2>1. Len(Held) \in Nat \ {0}
    BY <1>1, EmptySeq
  <2>2. n = IF ChunkSize <= Len(Held) THEN ChunkSize ELSE Len(Held)
    BY <2>1, MinOfTwo
  <2> QED
    BY <2>1, <2>2
<1>3. /\ completed = "open" /\ queue' = Append(queue, item)
      /\ drain' = [drain EXCEPT ![d] =
                     [pc |-> IF SubSeq(Held, n + 1, Len(Held)) = <<>> THEN "loop" ELSE "put",
                      bytes |-> SubSeq(Held, n + 1, Len(Held))]]
      /\ UNCHANGED <<produced, shell, lock, completed, pending, consumed>>
  BY <1>1 DEF Put
<1>4. Held' = SubSeq(Held, n + 1, Len(Held))
  BY <1>1, <1>3, Parts DEF Held
<1>5. Follows(Held, LastQueued) /\ Follows(shell, LastHeld) /\ LastHeld + Len(shell) = produced
  BY <1>3 DEF OrderInv
<1> HIDE DEF n
<1>6. /\ item \in Seq(1..MaxBytes) /\ Len(item) = n /\ item[1] = Held[1]
      /\ Len(Held') = Len(Held) - n
      /\ Follows(item, LastQueued) /\ Follows(Held', LastQueued + n)
  <2>1. n \in Nat /\ n > 0 /\ LastQueued \in Nat
    BY <1>2, LastsAreNumbers
  <2> HIDE DEF Held
  <2> QED
    BY <1>1, <1>2, <1>4, <1>5, <2>1, FollowsSplit
<1>7. item[1] = LastQueued + 1
  <2>1. 1 \in 1..Len(item)
    BY <1>2, <1>6
  <2> QED
    BY <1>6, <2>1 DEF Follows
<1> HIDE DEF item
<1>8. /\ Len(queue') = Len(queue) + 1 /\ queue'[Len(queue) + 1] = item
      /\ \A i \in 1..Len(queue) : queue'[i] = queue[i]
      /\ queue' # <<>>
  <2>1. item \in Seq(1..MaxBytes) \ {<<>>}
    BY <1>2, <1>6, EmptyIsFree
  <2> DEFINE S == Seq(1..MaxBytes) \ {<<>>}
  <2>2. queue \in Seq(S) /\ item \in S
    BY <2>1, Parts
  <2> HIDE DEF S
  <2> QED
    BY <1>3, <2>2, AppendProperties
<1>9. \A i \in 1..Len(queue') : i \in 1..Len(queue) \/ i = Len(queue) + 1
  <2>1. Len(queue) \in Nat
    BY Parts
  <2> QED
    BY <1>8, <2>1
<1>10. LastRead' = LastRead /\ LastQueued' = LastQueued + n /\ LastHeld' = LastHeld
  <2>1. LastQueued' = item[1] + Len(item) - 1
    BY <1>8 DEF LastQueued
  <2>2. LastQueued' = LastQueued + n
    BY <1>2, <1>6, <1>7, <2>1, LastsAreNumbers
  <2>3. LastHeld' = LastHeld
    BY <1>2, <1>6, <2>2, LastsAreNumbers DEF LastHeld
  <2> QED
    BY <1>3, <2>2, <2>3 DEF LastRead
<1>11. \A i \in 1..Len(queue') : Follows(queue'[i], queue'[i][1] - 1)
  <2>1. Follows(item, item[1] - 1)
    BY <1>6, <1>7, LastsAreNumbers
  <2>2. \A i \in 1..Len(queue) : Follows(queue[i], queue[i][1] - 1)
    BY DEF OrderInv
  <2> QED
    BY <1>8, <1>9, <2>1, <2>2
<1>12. queue'[1][1] = LastRead + 1
  <2>1. CASE queue = <<>>
    BY <1>7, <1>8, <2>1, EmptyIsFree DEF LastQueued
  <2>2. CASE queue # <<>>
    <3>1. 1 \in 1..Len(queue) /\ queue[1][1] = LastRead + 1
      BY <2>2, Parts, EmptySeq DEF OrderInv
    <3> QED
      BY <1>8, <3>1
  <2> QED
    BY <2>1, <2>2
<1>13. ASSUME NEW i \in 1..Len(queue'), i > 1
       PROVE  queue'[i][1] = queue'[i - 1][1] + Len(queue'[i - 1])
  <2>0. i - 1 \in 1..Len(queue)
    BY <1>8, <1>13, Parts
  <2>1. CASE i \in 1..Len(queue)
    <3>1. queue[i][1] = queue[i - 1][1] + Len(queue[i - 1])
      BY <1>13, <2>1 DEF OrderInv
    <3> QED
      BY <1>8, <2>0, <2>1, <3>1
  <2>2. CASE i = Len(queue) + 1
    <3>1. queue # <<>> /\ i - 1 = Len(queue)
      BY <2>0, <2>2, EmptyIsFree, Parts
    <3>2. LastQueued + 1 = queue[Len(queue)][1] + Len(queue[Len(queue)])
      <4>1. Len(queue) \in 1..Len(queue)
        BY <2>0, <3>1
      <4>2. queue[Len(queue)][1] \in Nat /\ Len(queue[Len(queue)]) \in Nat
        BY <4>1, QueueItem
      <4> QED
        BY <3>1, <4>2 DEF LastQueued
    <3> QED
      BY <1>7, <1>8, <2>0, <2>2, <3>1, <3>2
  <2> QED
    BY <1>9, <2>1, <2>2
<1> QED
  <2>1. Follows(consumed, 0)' /\ Follows(pending, Len(consumed))'
    BY <1>3 DEF OrderInv, Follows
  <2>2. /\ Follows(Held', LastQueued') /\ Follows(shell', LastHeld')
        /\ LastHeld' + Len(shell') = produced'
    BY <1>3, <1>5, <1>6, <1>10
  <2> QED
    BY <1>10, <1>11, <1>12, <1>13, <2>1, <2>2 DEF OrderInv, Follows

(* What the terminal takes goes on where its last read ended.                *)
LEMMA ReadGoesOn ==
    ASSUME TypeOK, OrderInv, NEW item,
           \/ pending # <<>> /\ item = pending
           \/ pending = <<>> /\ queue # <<>> /\ item = queue[1]
    PROVE  Follows(item, Len(consumed))
<1>1. CASE pending # <<>> /\ item = pending
  BY <1>1 DEF OrderInv
<1>2. CASE pending = <<>> /\ queue # <<>> /\ item = queue[1]
  <2>1. 1 \in 1..Len(queue) /\ Len(pending) = 0
    BY <1>2, Parts, EmptySeq
  <2>2. Follows(queue[1], queue[1][1] - 1) /\ queue[1][1] = Len(consumed) + 1
    BY <1>2, <2>1, Parts DEF OrderInv, LastRead
  <2>3. queue[1][1] - 1 = Len(consumed)
    BY <2>2, Parts
  <2> QED
    BY <1>2, <2>2, <2>3
<1> QED
  BY <1>1, <1>2

LEMMA ReadOrdered ==
    ASSUME TypeOK, OrderInv, Read
    PROVE  OrderInv' /\ LastQueued' = LastQueued
<1>1. PICK item, n : /\ item \in Seq(1..MaxBytes) /\ n \in Nat \ {0} /\ n <= Len(item)
                     /\ \/ pending # <<>> /\ item = pending /\ queue' = queue
                        \/ /\ pending = <<>> /\ queue # <<>>
                           /\ item = queue[1] /\ queue' = Tail(queue)
                     /\ consumed' = consumed \o SubSeq(item, 1, n)
                     /\ pending' = SubSeq(item, n + 1, Len(item))
  BY ReadTakes
<1>2. Follows(item, Len(consumed))
  BY <1>1, ReadGoesOn
<1>3. /\ SubSeq(item, 1, n) \in Seq(1..MaxBytes) /\ Len(SubSeq(item, 1, n)) = n
      /\ pending' \in Seq(1..MaxBytes) /\ Len(pending') = Len(item) - n
      /\ Follows(SubSeq(item, 1, n), Len(consumed)) /\ Follows(pending', Len(consumed) + n)
  BY <1>1, <1>2, Parts, FollowsSplit
<1>4. Len(consumed') = Len(consumed) + n /\ Follows(consumed', 0)
  <2>1. Follows(consumed, 0) /\ 0 + Len(consumed) = Len(consumed)
    BY Parts DEF OrderInv
  <2> DEFINE m == 0
  <2>2. m \in Nat /\ Follows(consumed, m) /\ Follows(SubSeq(item, 1, n), m + Len(consumed))
    BY <1>3, <2>1
  <2> HIDE DEF m
  <2>3. /\ Len(consumed \o SubSeq(item, 1, n)) = Len(consumed) + Len(SubSeq(item, 1, n))
        /\ Follows(consumed \o SubSeq(item, 1, n), m)
    BY <1>3, <2>2, Parts, FollowsConcat
  <2> USE DEF m
  <2> QED
    BY <1>1, <1>3, <2>3
<1>5. LastRead' = Len(consumed) + Len(item)
  <2>1. Len(consumed) \in Nat /\ Len(item) \in Nat
    BY <1>1, Parts, LenProperties
  <2>2. LastRead' = Len(consumed') + Len(pending') /\ n \in Nat
    BY <1>1 DEF LastRead
  <2> QED
    BY ONLY <1>3, <1>4, <2>1, <2>2
<1>6. /\ LastQueued' = LastQueued
      /\ queue' # <<>> => queue'[1][1] = LastRead' + 1
      /\ \A i \in 1..Len(queue') : Follows(queue'[i], queue'[i][1] - 1)
      /\ \A i \in 1..Len(queue') : i > 1 => queue'[i][1] = queue'[i - 1][1] + Len(queue'[i - 1])
  <2>1. CASE pending # <<>> /\ item = pending /\ queue' = queue
    <3>1. LastRead' = LastRead
      BY <1>5, <2>1 DEF LastRead
    <3> QED
      BY <2>1, <3>1 DEF OrderInv, LastQueued
  <2>2. CASE pending = <<>> /\ queue # <<>> /\ item = queue[1] /\ queue' = Tail(queue)
    <3>1. /\ Len(queue') = Len(queue) - 1 /\ Len(queue) \in Nat \ {0}
          /\ queue' = <<>> <=> Len(queue) = 1
          /\ \A i \in 1..Len(queue') : queue'[i] = queue[i + 1] /\ i + 1 \in 1..Len(queue)
      BY <2>2, RestOfQueue
    <3>2. 1 \in 1..Len(queue) /\ queue[1][1] \in Nat /\ Len(queue[1]) \in Nat
      BY <3>1, QueueItem
    <3>3. queue[1][1] + Len(queue[1]) = LastRead' + 1
      <4>1. queue[1][1] = Len(consumed) + 1 /\ Len(consumed) \in Nat
        BY <2>2, Parts, EmptyIsFree DEF OrderInv, LastRead
      <4>2. Len(item) = Len(queue[1])
        BY <2>2
      <4>3. LastRead' = Len(consumed) + Len(queue[1])
        BY <1>5, <4>2
      <4>4. Len(queue[1]) \in Nat
        BY <3>2
      <4>5. \A c, l \in Nat : (c + 1) + l = (c + l) + 1
        OBVIOUS
      <4>6. (Len(consumed) + 1) + Len(queue[1]) = (Len(consumed) + Len(queue[1])) + 1
        BY <4>1, <4>4, <4>5
      <4> QED
        BY <4>1, <4>3, <4>6
    <3>4. \A i \in 1..Len(queue') : Follows(queue'[i], queue'[i][1] - 1)
      BY <3>1 DEF OrderInv
    <3>5. ASSUME NEW i \in 1..Len(queue'), i > 1
          PROVE  queue'[i][1] = queue'[i - 1][1] + Len(queue'[i - 1])
      <4>1. i - 1 \in 1..Len(queue') /\ (i - 1) + 1 = i /\ i + 1 \in 1..Len(queue) /\ i + 1 > 1
            /\ (i + 1) - 1 = i
        BY <3>1, <3>5
      <4>2. queue[i + 1][1] = queue[(i + 1) - 1][1] + Len(queue[(i + 1) - 1])
        BY <4>1 DEF OrderInv
      <4>3. queue'[i] = queue[i + 1] /\ queue'[i - 1] = queue[i]
        BY <3>1, <4>1
      <4> QED
        BY <4>1, <4>2, <4>3
    <3>6. queue' # <<>> => queue'[1][1] = LastRead' + 1
      <4> SUFFICES ASSUME queue' # <<>> PROVE queue'[1][1] = LastRead' + 1
        OBVIOUS
      <4>1. 1 \in 1..Len(queue') /\ 2 \in 1..Len(queue) /\ queue'[1] = queue[2]
        BY <3>1
      <4>2. queue[2][1] = queue[1][1] + Len(queue[1])
        <5>1. \A i \in 1..Len(queue) : i > 1 => queue[i][1] = queue[i - 1][1] + Len(queue[i - 1])
          BY DEF OrderInv
        <5> QED
          BY <4>1, <5>1
      <4> QED
        BY <3>3, <4>1, <4>2
    <3>7. LastQueued' = LastQueued
      <4>1. CASE queue' = <<>>
        <5>1. LastQueued' = LastRead' /\ LastQueued = queue[1][1] + Len(queue[1]) - 1
          <6>1. LastQueued' = LastRead'
            BY ONLY <4>1, Zenon DEF LastQueued
          <6>2. Len(queue) = 1 /\ queue # <<>>
            BY <2>2, <3>1, <4>1, Zenon
          <6> QED
            BY ONLY <6>1, <6>2, Zenon DEF LastQueued
        <5>2. Len(item) \in Nat /\ Len(consumed) \in Nat
          <6>1. Len(item) \in Nat
            BY <2>2, <3>2, Zenon
          <6>2. Len(consumed) \in Nat
            BY Parts, LenProperties
          <6> QED
            BY <6>1, <6>2, Zenon
        <5>3. Len(consumed) + Len(item) \in Nat
          BY ONLY <5>2
        <5> QED
          BY ONLY <1>5, <3>2, <3>3, <5>1, <5>3
      <4>2. CASE queue' # <<>>
        <5>1. Len(queue') \in 1..Len(queue') /\ Len(queue') + 1 = Len(queue)
          BY <3>1, <4>2
        <5>2. queue'[Len(queue')] = queue[Len(queue)]
          BY <3>1, <5>1
        <5> QED
          BY <2>2, <4>2, <5>2 DEF LastQueued
      <4> QED
        BY <4>1, <4>2
    <3> QED
      BY <3>4, <3>5, <3>6, <3>7
  <2> QED
    BY <1>1, <2>1, <2>2
<1>7. Held' = Held /\ LastHeld' = LastHeld
      /\ UNCHANGED <<produced, shell, completed>>
  BY <1>6 DEF Read, Held, LastHeld
<1>8. completed' = "open" => /\ Follows(Held', LastQueued') /\ Follows(shell', LastHeld')
                             /\ LastHeld' + Len(shell') = produced'
  BY <1>6, <1>7 DEF OrderInv
<1>9. Follows(pending', Len(consumed'))
  BY <1>3, <1>4
<1> QED
  BY <1>4, <1>6, <1>8, <1>9 DEF OrderInv, Follows

LEMMA AtMoves ==
    ASSUME TypeOK, NEW d \in Threads, NEW pc, At(d, pc)
    PROVE  /\ drain'[d].pc = pc
           /\ \A e \in Threads : drain'[e].bytes = drain[e].bytes
           /\ \A e \in Threads : e # d => drain'[e] = drain[e]
<1>1. drain' = [drain EXCEPT ![d].pc = pc] /\ drain \in [Threads -> Place]
  BY Parts DEF At
<1>2. ASSUME NEW e \in Threads
      PROVE  /\ drain'[e].bytes = drain[e].bytes /\ (e # d => drain'[e] = drain[e])
             /\ e = d => drain'[e].pc = pc
  <2>1. drain[e] \in Place
    BY <1>1
  <2> QED
    BY <1>1, <2>1 DEF Place
<1> QED
  BY <1>2

LEMMA NextOrdered == TypeOK /\ OrderInv /\ [Next]_vars => OrderInv'
<1> SUFFICES ASSUME TypeOK, OrderInv, [Next]_vars PROVE OrderInv'
  OBVIOUS
<1>1. CASE RemoteCloses \/ FinishClose \/ RemoteFails \/ ReadEnds \/ UNCHANGED vars
  <2>1. Held' = Held
    <3>1. CASE RemoteCloses
      <4>1. \A d \in Threads : drain'[d].bytes = drain[d].bytes
        BY <3>1, AtMoves, Parts DEF RemoteCloses
      <4> QED
        BY <3>1, <4>1, Parts DEF RemoteCloses, Held
    <3>2. CASE FinishClose \/ RemoteFails \/ ReadEnds \/ UNCHANGED vars
      BY <3>2 DEF FinishClose, RemoteFails, ReadEnds, vars, Held
    <3> QED
      BY <1>1, <3>1, <3>2
  <2>2. completed' = "open" => completed = "open"
    BY <1>1, Completions DEF RemoteCloses, FinishClose, RemoteFails, ReadEnds, vars
  <2> QED
    BY <1>1, <2>1, <2>2, OrderKept DEF RemoteCloses, FinishClose, RemoteFails, ReadEnds, vars
<1>2. ASSUME NEW d \in Threads, Enter(d) PROVE OrderInv'
  <2>1. Held = <<>> /\ drain[d].bytes = <<>>
    BY <1>2, Parts DEF Enter, LockFree, Held
  <2>2. Held' = <<>>
    <3>1. drain'[d].bytes = <<>> /\ lock' \in {"free", d} /\ "free" \notin Threads
      BY <1>2, <2>1, AtMoves, Parts DEF Enter, LockFree
    <3> QED
      BY <3>1 DEF Held
  <2> QED
    BY <1>2, <2>1, <2>2, OrderKept DEF Enter
<1>3. ASSUME NEW d \in Threads, Abandon(d) PROVE OrderInv'
  <2>1. completed' # "open"
    BY <1>3, Completions DEF Abandon, Interrupted
  <2> QED
    BY <1>3, <2>1, OrderKept DEF Abandon
<1>4. ASSUME NEW from, DisposeStep(from) PROVE OrderInv'
  <2>1. Held' = Held /\ (completed' = "open" => completed = "open")
    BY <1>4, Completions DEF DisposeStep, Held
  <2> QED
    BY <1>4, <2>1, OrderKept DEF DisposeStep
<1> QED
  BY <1>1, <1>2, <1>3, <1>4, ReceiveOrdered, TakeOrdered, PutOrdered, ReadOrdered
  DEF Next, Draining, Dispose, Disposing

(* Whatever the sizes, and however the two draining threads, the reader, a   *)
(* failure and a disposal interleave, the terminal reads the bytes in order, *)
(* each once and none left out.                                              *)
THEOREM ReadsInOrder == Spec => []InOrder
<1>1. TypeOK /\ OrderInv => InOrder
  <2> SUFFICES ASSUME TypeOK, OrderInv PROVE consumed = Numbers(1, Len(consumed))
    BY DEF InOrder
  <2>1. Len(consumed) \in Nat /\ DOMAIN consumed = 1..Len(consumed)
        /\ consumed \in [1..Len(consumed) -> 1..MaxBytes]
    BY Parts, LenProperties
  <2>2. \A i \in 1..Len(consumed) : consumed[i] = i
    BY <2>1 DEF OrderInv, Follows
  <2>3. Numbers(1, Len(consumed)) = [i \in 1..Len(consumed) |-> i]
    BY <2>1 DEF Numbers
  <2> QED
    BY <2>1, <2>2, <2>3
<1> QED
  BY <1>1, TypeCorrect, InitOrdered, NextOrdered, PTL DEF Spec

-----------------------------------------------------------------------------
(* The receive worker, and what its end says.                                *)
LEMMA InitWorks == Init => WorkerInv
<1> SUFFICES ASSUME Init PROVE WorkerInv
  OBVIOUS
<1>1. TypeOK
  BY InitTypes
<1>2. Len(shell) = produced /\ produced <= MaxInitial
  <2>1. produced \in Nat /\ produced <= MaxBytes /\ produced <= MaxInitial
    BY DEF Init
  <2>2. Len(Numbers(1, produced)) = produced - 1 + 1
    BY <2>1, NumbersFollow
  <2> QED
    BY <2>1, <2>2 DEF Init
<1>3. worker = "open" /\ completed = "open" /\ queue = <<>> /\ Len(queue) = 0
  BY EmptyIsFree DEF Init
<1> QED
  BY <1>2, <1>3 DEF WorkerInv

LEMMA OffIsOff ==
    ASSUME TypeOK, NEW d \in Threads, drain[d].pc = "off"
    PROVE  drain[d] = Off
<1>1. drain[d] \in Place /\ drain[d].bytes = <<>>
  BY Parts
<1> QED
  BY <1>1 DEF Place, Off

LEMMA ReceiveWorks ==
    ASSUME TypeOK, WorkerInv, NEW n \in 1..MaxMessage, Receive(n)
    PROVE  WorkerInv'
<1>1. worker = "open" /\ drain["worker"].pc = "off" /\ drain["worker"] = Off
  BY Parts, OffIsOff DEF Receive, MayReceive
<1>2. drain'["worker"].pc = "enter"
  BY <1>1, Parts DEF Receive
<1>3. Len(shell') = Len(shell) + n
  <2> DEFINE new == Numbers(produced + 1, produced + n)
  <2>1. shell' = shell \o new
    BY DEF Receive
  <2>2. new \in Seq(1..MaxBytes) /\ Len(new) = n /\ shell \in Seq(1..MaxBytes)
    BY NewBytes, Parts
  <2> HIDE DEF new
  <2> QED
    BY <2>1, <2>2, ConcatProperties
<1>4. disposal = "none" => Len(shell') <= MaxInitial + MaxMessage
  <2>1. disposal = "none" => Len(shell) <= MaxInitial
    BY <1>1 DEF WorkerInv
  <2>2. Len(shell) \in Nat /\ n \in Nat /\ n <= MaxMessage
    BY Parts
  <2> QED
    BY <1>3, <2>1, <2>2
<1> QED
  BY <1>1, <1>2, <1>4 DEF Receive, WorkerInv

LEMMA DrainWorks ==
    ASSUME TypeOK, WorkerInv, NEW d \in Threads, Draining(d)
    PROVE  WorkerInv'
<1>0. disposal \in Stages /\ UNCHANGED <<worker, disposal>>
  BY Parts DEF Draining, Enter, Take, Abandon, Put
<1>1. CASE Enter(d)
  <2>1. UNCHANGED <<shell, queue, completed>> /\ lock = "free" /\ Held = <<>>
    BY <1>1 DEF Enter, LockFree, Held
  <2>2. disposal = "none" => drain'[d].pc = "loop"
    <3>1. disposal = "none" => ~Reached("marked")
      BY <1>0, Reaching
    <3> QED
      BY <1>1, <3>1, AtMoves DEF Enter
  <2>3. Held' = <<>>
    <3>1. drain'[d].bytes = <<>> /\ lock' \in {"free", d} /\ "free" \notin Threads
      BY <1>1, <2>1, AtMoves, Parts DEF Enter
    <3> QED
      BY <3>1 DEF Held
  <2>4. \A e \in Threads : e # d => drain'[e] = drain[e]
    BY <1>1, AtMoves DEF Enter
  <2>5. drain[d].pc = "enter"
    BY <1>1 DEF Enter
  <2>6. disposal = "none" => (drain'["worker"].pc = "off" => drain["worker"].pc = "off")
    BY <2>2, <2>4, Parts
  <2>7. disposal = "none" => (worker = "gone" => drain'["worker"].pc = "off")
    BY <2>4, <2>5, Parts DEF WorkerInv
  <2> QED
    BY <1>0, <2>1, <2>3, <2>6, <2>7 DEF WorkerInv
<1>2. CASE Take(d)
  <2>1. UNCHANGED <<queue, completed>> /\ drain[d].pc = "loop" /\ lock = d
    BY <1>2, Parts DEF Take
  <2>2. \A e \in Threads : e # d => drain'[e] = drain[e]
    BY <1>2, Parts DEF Take, Leave
  <2>3. disposal = "none" => (worker = "gone" => drain'["worker"].pc = "off")
    BY <2>1, <2>2, Parts DEF WorkerInv
  <2>4. CASE shell = <<>> \/ Reached("released")
    <3>1. Held' = <<>> /\ shell' = shell
      BY <1>2, <2>4 DEF Take, Leave, Held
    <3>2. disposal = "none" => shell = <<>> /\ Len(shell) = 0
      BY <1>0, <2>4, Reaching, EmptyIsFree
    <3> QED
      BY <1>0, <2>1, <2>3, <3>1, <3>2 DEF WorkerInv
  <2>5. CASE ~(shell = <<>> \/ Reached("released"))
    <3>1. Len(shell) \in Nat /\ Len(shell') \in Nat /\ Len(shell') <= Len(shell)
      <4> DEFINE n == Min({DrainSize, Len(shell)})
      <4>1. Len(shell) \in Nat
        BY Parts
      <4>2. n \in Nat /\ n <= Len(shell)
        BY <4>1, MinOfTwo
      <4>3. shell' = SubSeq(shell, n + 1, Len(shell))
        BY <1>2, <2>5 DEF Take
      <4> HIDE DEF n
      <4>4. Len(shell') = Len(shell) - n
        BY <4>2, <4>3, Parts, FollowsSplit
      <4> QED
        BY <4>1, <4>2, <4>4
    <3>2. drain'[d].pc = "put"
      BY <1>2, <2>5, Parts DEF Take
    <3>3. drain'["worker"].pc = "off" => drain["worker"].pc = "off" /\ d # "worker"
      BY <2>2, <3>2, Parts
    <3>4. disposal = "none" => ~(worker = "closing" /\ drain'["worker"].pc = "off")
      BY <2>5, <3>3 DEF WorkerInv
    <3>5. disposal = "none" => /\ drain'["worker"].pc = "off" => Len(shell') <= MaxInitial
                               /\ Len(shell') <= MaxInitial + MaxMessage
      <4>1. disposal = "none" => /\ drain'["worker"].pc = "off" => Len(shell) <= MaxInitial
                                 /\ Len(shell) <= MaxInitial + MaxMessage
        BY <3>3 DEF WorkerInv
      <4> QED
        BY <3>1, <4>1
    <3> QED
      BY <1>0, <2>1, <2>3, <3>4, <3>5 DEF WorkerInv
  <2> QED
    BY <2>4, <2>5
<1>3. CASE Abandon(d)
  <2>1. disposal = "none" => completed # "open" /\ completed' = completed
    BY <1>0, <1>3, Reaching DEF Abandon, Interrupted
  <2>2. disposal = "none" => drain["worker"].pc = "off" /\ d # "worker"
    BY <1>3, <2>1 DEF Abandon, WorkerInv
  <2>3. Held' = <<>> /\ UNCHANGED <<shell, queue>>
    BY <1>3 DEF Abandon, Leave, Held
  <2>4. disposal = "none" => drain'["worker"] = drain["worker"]
    BY <1>3, <2>2, Parts DEF Abandon, Leave
  <2> QED
    BY <1>0, <2>1, <2>2, <2>3, <2>4 DEF WorkerInv
<1>4. CASE Put(d)
  <2>1. UNCHANGED <<shell, completed>> /\ completed = "open" /\ Len(queue) < Capacity
    BY <1>4 DEF Put
  <2>2. drain[d].pc = "put" /\ Held # <<>>
    BY <1>4, Parts DEF Put
  <2>3. /\ drain'[d].pc # "off"
        /\ \A e \in Threads : e # d => drain'[e] = drain[e]
    BY <1>4, Parts DEF Put
  <2>4. drain'["worker"].pc = "off" => drain["worker"].pc = "off"
    BY <2>3, Parts
  <2>5. Len(queue') <= Capacity
    <3> DEFINE item == SubSeq(drain[d].bytes, 1, Min({ChunkSize, Len(drain[d].bytes)}))
    <3>1. queue' = Append(queue, item)
      BY <1>4 DEF Put
    <3> HIDE DEF item
    <3>2. Len(queue') = Len(queue) + 1 /\ Len(queue) \in Nat
      BY <3>1, Parts
    <3> QED
      BY <2>1, <3>2
  <2> QED
    BY <1>0, <2>1, <2>2, <2>4, <2>5 DEF WorkerInv
<1> QED
  BY <1>1, <1>2, <1>3, <1>4 DEF Draining

LEMMA NextWorks == TypeOK /\ WorkerInv /\ [Next]_vars => WorkerInv'
<1> SUFFICES ASSUME TypeOK, WorkerInv, [Next]_vars PROVE WorkerInv'
  OBVIOUS
<1>1. CASE RemoteCloses
  <2>1. /\ worker = "open" /\ drain["worker"].pc = "off" /\ worker' = "closing"
        /\ drain'["worker"].pc = "enter"
        /\ UNCHANGED <<shell, queue, completed, disposal>>
    BY <1>1, AtMoves, Parts DEF RemoteCloses, MayReceive
  <2> QED
    BY <2>1 DEF WorkerInv
<1>2. CASE FinishClose \/ RemoteFails
  <2>1. /\ worker # "gone" /\ worker' = "gone" /\ drain["worker"].pc = "off"
        /\ UNCHANGED <<shell, drain, lock, queue, disposal>>
    BY <1>2 DEF FinishClose, ClosedDrained, RemoteFails, MayReceive
  <2>2. completed' # "open"
    BY <1>2, Completions DEF FinishClose, RemoteFails
  <2> QED
    BY <2>1, <2>2 DEF WorkerInv
<1>3. CASE Read
  <2>1. Len(queue') <= Capacity
    <3>1. queue' = queue \/ (queue # <<>> /\ queue' = Tail(queue))
      BY <1>3, ReadTakes
    <3>2. Len(queue) <= Capacity /\ Len(queue) \in Nat
      BY Parts DEF WorkerInv
    <3> QED
      BY <3>1, <3>2, RestOfQueue
  <2>2. UNCHANGED <<shell, drain, lock, worker, completed, disposal>>
    BY <1>3 DEF Read
  <2> QED
    BY <2>1, <2>2 DEF WorkerInv, Held
<1>4. CASE ReadEnds \/ UNCHANGED vars
  BY <1>4 DEF ReadEnds, vars, WorkerInv, Held
<1>5. ASSUME NEW from, DisposeStep(from) PROVE WorkerInv'
  <2>1. disposal' # "none" /\ queue' = queue
    BY <1>5, Parts, NextStage DEF DisposeStep
  <2> QED
    BY <2>1 DEF WorkerInv
<1> QED
  BY <1>1, <1>2, <1>3, <1>4, <1>5, ReceiveWorks, DrainWorks DEF Next, Dispose, Disposing

(* A slow terminal stalls the server: the channel never exceeds its          *)
(* capacity, and the ShellStream holds what had come before the session      *)
(* subscribed and one message at most, for any sizes.                        *)
THEOREM BuffersBounded == Spec => []BufferedIsBounded
<1>1. WorkerInv => BufferedIsBounded
  BY DEF WorkerInv, BufferedIsBounded
<1> QED
  BY <1>1, TypeCorrect, InitWorks, NextWorks, PTL DEF Spec

LEMMA NextEnds == TypeOK /\ OrderInv /\ WorkerInv /\ EndInv /\ [Next]_vars => EndInv'
<1> SUFFICES ASSUME TypeOK, OrderInv, WorkerInv, EndInv, [Next]_vars PROVE EndInv'
  OBVIOUS
<1>1. ASSUME NEW n \in 1..MaxMessage, Receive(n) PROVE EndInv'
  <2>1. disposal = "none" => completed = "open"
    BY <1>1 DEF Receive, MayReceive, WorkerInv
  <2> QED
    BY <1>1, <2>1 DEF Receive, EndInv
<1>2. CASE FinishClose
  <2>1. completed' = "closed" /\ disposal = "none" => LastQueued = produced
    <3> SUFFICES ASSUME disposal = "none" PROVE LastQueued = produced
      OBVIOUS
    <3>1. completed = "open" /\ Held = <<>> /\ shell = <<>>
      BY <1>2 DEF FinishClose, ClosedDrained, WorkerInv
    <3>2. Len(Held) = 0 /\ Len(shell) = 0
      BY <3>1, EmptyIsFree
    <3> QED
      BY <3>1, <3>2, LastsAreNumbers DEF OrderInv, LastHeld
  <2>2. LastQueued' = LastQueued
    BY <1>2 DEF FinishClose, LastQueued, LastRead
  <2>3. completed' # "open" /\ (completed = "closed" => completed' = "closed")
    BY <1>2, Completions DEF FinishClose
  <2>4. UNCHANGED <<produced, disposal, reader, pending, queue>>
    BY <1>2 DEF FinishClose
  <2> QED
    BY <2>1, <2>2, <2>3, <2>4 DEF EndInv
<1>3. CASE RemoteFails
  <2>1. completed' # "open" /\ (completed = "closed" <=> completed' = "closed")
    BY <1>3 DEF RemoteFails, Complete
  <2>2. UNCHANGED <<produced, disposal, reader, pending, queue, consumed>>
    BY <1>3 DEF RemoteFails
  <2> QED
    BY <2>1, <2>2 DEF EndInv, LastQueued, LastRead
<1>4. CASE RemoteCloses \/ UNCHANGED vars
  BY <1>4 DEF RemoteCloses, vars, EndInv, LastQueued, LastRead
<1>5. ASSUME NEW d \in Threads, Draining(d) PROVE EndInv'
  <2>1. UNCHANGED <<produced, disposal, reader, pending, consumed>>
    BY <1>5 DEF Draining, Enter, Take, Abandon, Put
  <2>2. CASE Enter(d) \/ Take(d)
    BY <2>1, <2>2 DEF Enter, Take, EndInv, LastQueued, LastRead
  <2>3. CASE Abandon(d)
    <3>1. /\ completed' = completed \/ disposal # "none"
          /\ completed # "open" => completed' = completed
      BY <2>3, Parts, Reaching, Completions DEF Abandon
    <3>2. queue' = queue
      BY <2>3 DEF Abandon
    <3> QED
      BY <2>1, <3>1, <3>2 DEF EndInv, LastQueued, LastRead
  <2>4. CASE Put(d)
    <3>1. completed = "open" /\ completed' = "open"
      BY <2>4 DEF Put
    <3> QED
      BY <2>1, <3>1 DEF EndInv
  <2> QED
    BY <1>5, <2>2, <2>3, <2>4 DEF Draining
<1>6. CASE Read
  <2>1. reader = "reading" /\ UNCHANGED <<produced, disposal, reader, completed>>
    BY <1>6 DEF Read
  <2> QED
    BY <1>6, <2>1, ReadOrdered DEF EndInv
<1>7. CASE ReadEnds
  <2>1. /\ pending = <<>> /\ queue = <<>> /\ completed # "open"
        /\ reader' = IF completed = "failed" THEN "failed" ELSE "ended"
        /\ UNCHANGED <<produced, disposal, pending, queue, consumed, completed>>
    BY <1>7 DEF ReadEnds
  <2>2. completed \in {"closed", "failed"}
    BY <2>1 DEF TypeOK
  <2> QED
    BY <2>1, <2>2 DEF EndInv, LastQueued, LastRead
<1>8. ASSUME NEW from, DisposeStep(from) PROVE EndInv'
  <2>1. disposal' # "none" /\ UNCHANGED <<reader, pending, queue>>
    BY <1>8, Parts, NextStage DEF DisposeStep
  <2>2. completed # "open" => completed' = completed
    BY <1>8, Completions DEF DisposeStep
  <2> QED
    BY <2>1, <2>2 DEF EndInv
<1> QED
  BY <1>1, <1>2, <1>3, <1>4, <1>5, <1>6, <1>7, <1>8 DEF Next, Dispose, Disposing

(* A read that reports the end of the session comes after every byte the     *)
(* server sent, although two threads drain, whichever was in the gate when   *)
(* Closed was raised.                                                        *)
THEOREM EndIsComplete == Spec => []EndMeansAll
<1>1. Init => EndInv
  BY DEF Init, EndInv
<1>2. TypeOK /\ OrderInv /\ EndInv => EndMeansAll
  <2> SUFFICES ASSUME TypeOK, OrderInv, EndInv, reader = "ended", disposal = "none"
               PROVE  Len(consumed) = produced
    BY DEF EndMeansAll
  <2>1. LastQueued = produced /\ queue = <<>> /\ pending = <<>> /\ Len(pending) = 0
    BY EmptyIsFree DEF EndInv
  <2> QED
    BY <2>1, Parts DEF LastQueued, LastRead
<1> QED
  BY <1>1, <1>2, TypeCorrect, InitOrdered, NextOrdered, InitWorks, NextWorks, NextEnds, PTL DEF Spec

-----------------------------------------------------------------------------
(* The abstract stream.  Nothing the terminal can still read was not sent;   *)
(* once the channel is completed, and OrderInv says no more of the bytes     *)
(* that wait elsewhere, this is what is left of it.                          *)
SentInv ==
    /\ LastRead <= produced
    /\ \A i \in 1..Len(queue) : queue[i][1] + Len(queue[i]) - 1 <= produced

StreamInv == TypeOK /\ OrderInv /\ WorkerInv /\ EndInv /\ SentInv

LEMMA InitSent == Init => SentInv
<1> SUFFICES ASSUME Init PROVE SentInv
  OBVIOUS
<1>1. Len(consumed) = 0 /\ Len(pending) = 0 /\ Len(queue) = 0 /\ produced \in Nat
  BY EmptyIsFree, InitTypes, Parts DEF Init
<1> QED
  BY <1>1 DEF SentInv, LastRead

(* What a write adds to the channel had been sent.                           *)
LEMMA PutSent ==
    ASSUME TypeOK, OrderInv, SentInv, NEW d \in Threads, Put(d)
    PROVE  SentInv'
<1> DEFINE item == SubSeq(drain[d].bytes, 1, Min({ChunkSize, Len(drain[d].bytes)}))
           S == Seq(1..MaxBytes) \ {<<>>}
<1>1. /\ completed = "open" /\ queue' = Append(queue, item)
      /\ UNCHANGED <<produced, completed, pending, consumed>>
  BY DEF Put
<1>2. TypeOK' /\ OrderInv'
  BY DrainTypes, PutOrdered DEF Draining
<1>3. Len(shell') \in Nat /\ Len(Held') \in Nat
  <2>1. shell' = shell /\ lock' = d /\ drain'[d].bytes \in Seq(1..MaxBytes)
    BY <1>2, Parts DEF Put, TypeOK, Place
  <2>2. Held' \in Seq(1..MaxBytes)
    BY <2>1, Parts DEF Held
  <2> QED
    BY <2>1, <2>2, Parts, LenProperties
<1> HIDE DEF item
<1>4. item \in S
  <2>1. /\ queue \in Seq(S) /\ queue' \in Seq(S)
    BY <1>2 DEF TypeOK
  <2> HIDE DEF S
  <2>2. Len(queue') \in 1..Len(queue') /\ queue'[Len(queue')] = item
    BY <1>1, <2>1, LenProperties
  <2> QED
    BY <2>1, <2>2, ElementOfSeq
<1>5. /\ Len(queue) \in Nat /\ Len(queue') = Len(queue) + 1 /\ queue' # <<>>
      /\ \A i \in 1..Len(queue) : queue'[i] = queue[i]
      /\ queue'[Len(queue')] = item
  <2>1. queue \in Seq(S)
    BY DEF TypeOK
  <2> HIDE DEF S
  <2> QED
    BY <1>1, <1>4, <2>1, LenProperties
<1>6. item[1] + Len(item) - 1 <= produced
  <2>1. LastHeld' + Len(shell') = produced
    BY <1>1, <1>2 DEF OrderInv
  <2>2. LastHeld' = item[1] + Len(item) - 1 + Len(Held')
    BY <1>5 DEF LastHeld, LastQueued
  <2>3. item[1] \in Nat /\ Len(item) \in Nat
    BY <1>4, EmptySeq, ElementOfSeq, LenProperties
  <2>4. produced \in Nat
    BY Parts
  <2> QED
    BY <1>3, <2>1, <2>2, <2>3, <2>4
<1>7. ASSUME NEW i \in 1..Len(queue') PROVE queue'[i][1] + Len(queue'[i]) - 1 <= produced
  <2>1. CASE i \in 1..Len(queue)
    BY <1>5, <2>1 DEF SentInv
  <2>2. CASE i = Len(queue')
    BY <1>5, <1>6, <2>2
  <2> QED
    BY <1>5, <2>1, <2>2
<1> QED
  BY <1>1, <1>7 DEF SentInv, LastRead

(* What a read brings goes on where the last one ended, and was sent.        *)
LEMMA ReadSent ==
    ASSUME StreamInv, Read
    PROVE  /\ SentInv'
           /\ \E n \in 1..BufferSize :
                /\ n <= produced - Len(consumed)
                /\ consumed' = consumed \o [i \in 1..n |-> Len(consumed) + i]
<1> USE DEF StreamInv
<1>1. PICK item, n : /\ item \in Seq(1..MaxBytes) /\ n \in Nat \ {0} /\ n <= Len(item)
                     /\ n <= BufferSize
                     /\ \/ pending # <<>> /\ item = pending /\ queue' = queue
                        \/ /\ pending = <<>> /\ queue # <<>>
                           /\ item = queue[1] /\ queue' = Tail(queue)
                     /\ consumed' = consumed \o SubSeq(item, 1, n)
                     /\ pending' = SubSeq(item, n + 1, Len(item))
  BY ReadTakes
<1>2. /\ Len(consumed) \in Nat /\ Len(pending) \in Nat /\ produced \in Nat /\ produced' = produced
      /\ Len(item) \in Nat /\ consumed \in Seq(1..MaxBytes)
  BY <1>1, Parts, LenProperties DEF Read
<1>3. Follows(item, Len(consumed))
  BY <1>1, ReadGoesOn
<1>4. /\ SubSeq(item, 1, n) \in Seq(1..MaxBytes) /\ Len(SubSeq(item, 1, n)) = n
      /\ Len(pending') = Len(item) - n
      /\ Follows(SubSeq(item, 1, n), Len(consumed))
  BY <1>1, <1>2, <1>3, FollowsSplit
<1>5. Len(consumed) + Len(item) <= produced
  <2>1. CASE pending # <<>> /\ item = pending
    BY <2>1 DEF SentInv, LastRead
  <2>2. CASE pending = <<>> /\ queue # <<>> /\ item = queue[1]
    <3>1. 1 \in 1..Len(queue) /\ Len(pending) = 0
      BY <2>2, Parts, EmptySeq
    <3>2. queue[1][1] = Len(consumed) + 1
      BY <1>2, <2>2, <3>1 DEF OrderInv, LastRead
    <3>3. queue[1][1] + Len(item) - 1 <= produced
      BY <2>2, <3>1 DEF SentInv
    <3> QED
      BY <1>2, <3>2, <3>3
  <2> QED
    BY <1>1, <2>1, <2>2
<1>6. LastRead' <= produced
  <2>1. Len(consumed') = Len(consumed) + n
    BY <1>1, <1>2, <1>4, ConcatProperties
  <2>2. LastRead' = Len(consumed) + n + (Len(item) - n) /\ n \in Nat
    BY <1>1, <1>4, <2>1 DEF LastRead
  <2> QED
    BY <1>2, <1>5, <2>2
<1>7. \A i \in 1..Len(queue') : queue'[i][1] + Len(queue'[i]) - 1 <= produced
  <2>1. CASE queue' = queue
    BY <2>1 DEF SentInv
  <2>2. CASE queue # <<>> /\ queue' = Tail(queue)
    <3>1. \A i \in 1..Len(queue') : queue'[i] = queue[i + 1] /\ i + 1 \in 1..Len(queue)
      BY <2>2, RestOfQueue
    <3> QED
      BY <3>1 DEF SentInv
  <2> QED
    BY <1>1, <2>1, <2>2
<1>8. SubSeq(item, 1, n) = [i \in 1..n |-> Len(consumed) + i]
  <2>1. /\ DOMAIN SubSeq(item, 1, n) = 1..n
        /\ SubSeq(item, 1, n) \in [1..n -> 1..MaxBytes]
    BY <1>4, LenProperties
  <2>2. \A i \in 1..n : SubSeq(item, 1, n)[i] = Len(consumed) + i
    BY <1>4 DEF Follows
  <2> QED
    BY <2>1, <2>2
<1>9. n \in 1..BufferSize /\ n <= produced - Len(consumed)
  BY <1>1, <1>2, <1>5
<1> QED
  BY <1>1, <1>2, <1>6, <1>7, <1>8, <1>9 DEF SentInv

LEMMA NextSent == StreamInv /\ [Next]_vars => SentInv'
<1> SUFFICES ASSUME StreamInv, [Next]_vars PROVE SentInv'
  OBVIOUS
<1>1. ASSUME UNCHANGED <<consumed, pending, queue>>, produced' \in Nat, produced <= produced'
      PROVE  SentInv'
  <2>1. LastRead' = LastRead /\ LastRead \in Nat /\ produced \in Nat
    BY <1>1, Parts, LastsAreNumbers DEF LastRead, StreamInv
  <2>2. ASSUME NEW i \in 1..Len(queue) PROVE queue[i][1] + Len(queue[i]) - 1 \in Int
    BY QueueItem DEF StreamInv
  <2> QED
    BY <1>1, <2>1, <2>2 DEF SentInv, StreamInv
<1>2. ASSUME NEW n \in 1..MaxMessage, Receive(n) PROVE SentInv'
  <2>1. n \in Nat /\ produced \in Nat /\ produced' = produced + n
    BY <1>2, NewBytes DEF StreamInv
  <2>2. UNCHANGED <<consumed, pending, queue>>
    BY <1>2 DEF Receive
  <2> QED
    BY <1>1, <2>1, <2>2
<1>3. produced \in Nat /\ produced <= produced
  BY Parts DEF StreamInv
<1>4. CASE RemoteCloses \/ FinishClose \/ RemoteFails \/ ReadEnds \/ UNCHANGED vars
  BY <1>1, <1>3, <1>4 DEF RemoteCloses, FinishClose, RemoteFails, ReadEnds, vars
<1>5. ASSUME NEW d \in Threads, Enter(d) \/ Take(d) \/ Abandon(d) PROVE SentInv'
  BY <1>1, <1>3, <1>5 DEF Enter, Take, Abandon
<1>6. ASSUME NEW from, DisposeStep(from) PROVE SentInv'
  BY <1>1, <1>3, <1>6 DEF DisposeStep
<1>7. ASSUME NEW d \in Threads, Put(d) PROVE SentInv'
  BY <1>7, PutSent DEF StreamInv
<1> QED
  BY <1>2, <1>4, <1>5, <1>6, <1>7, ReadSent DEF Next, Draining, Dispose, Disposing

(* Each step is one of the stream, or does not show.                         *)
LEMMA StreamSteps ==
    ASSUME StreamInv, [Next]_vars
    PROVE  [Stream!Next]_(Stream!stream)
<1> USE DEF StreamInv
<1> SUFFICES \/ Stream!Next
             \/ UNCHANGED <<produced, consumed, reader, disposal # "none">>
  BY DEF Stream!stream
<1>1. ASSUME NEW n \in 1..MaxMessage, Receive(n) PROVE Stream!Send
  <2>1. produced' \in Nat /\ produced' > produced
    BY <1>1, NewBytes
  <2>2. disposal = "none" => reader = "reading"
    BY <1>1 DEF Receive, MayReceive, WorkerInv, EndInv
  <2>3. UNCHANGED <<consumed, reader, disposal>>
    BY <1>1 DEF Receive
  <2> QED
    BY <2>1, <2>2, <2>3 DEF Stream!Send
<1>2. CASE RemoteCloses \/ FinishClose \/ RemoteFails \/ UNCHANGED vars
  BY <1>2 DEF RemoteCloses, FinishClose, RemoteFails, vars
<1>3. ASSUME NEW d \in Threads, Draining(d)
      PROVE  UNCHANGED <<produced, consumed, reader, disposal # "none">>
  BY <1>3 DEF Draining, Enter, Take, Abandon, Put
<1>4. ASSUME Read PROVE \E n \in 1..BufferSize : Stream!Deliver(n)
  <2>1. PICK n \in 1..BufferSize :
           /\ n <= produced - Len(consumed)
           /\ consumed' = consumed \o [i \in 1..n |-> Len(consumed) + i]
    BY <1>4, ReadSent
  <2>2. reader = "reading" /\ UNCHANGED <<produced, reader, disposal>>
    BY <1>4 DEF Read
  <2> QED
    BY <2>1, <2>2 DEF Stream!Deliver
<1>5. ASSUME ReadEnds PROVE Stream!End \/ Stream!Fail
  <2>1. /\ reader = "reading" /\ pending = <<>> /\ queue = <<>>
        /\ reader' = IF completed = "failed" THEN "failed" ELSE "ended"
        /\ completed \in {"closed", "failed"}
        /\ UNCHANGED <<produced, consumed, disposal>>
    BY <1>5 DEF ReadEnds, TypeOK
  <2>2. completed = "closed" /\ disposal = "none" => Len(consumed) = produced
    <3>1. completed = "closed" /\ disposal = "none" => LastQueued = produced
      BY DEF EndInv
    <3>2. LastQueued = Len(consumed)
      BY <2>1, EmptyIsFree, Parts DEF LastQueued, LastRead
    <3> QED
      BY <3>1, <3>2
  <2> QED
    BY <2>1, <2>2 DEF Stream!End, Stream!Fail
<1>6. ASSUME Dispose PROVE Stream!Dispose
  <2>1. disposal = "none" /\ disposal' # "none" /\ UNCHANGED <<produced, consumed, reader>>
    BY <1>6, Parts, NextStage DEF Dispose, DisposeStep
  <2> QED
    BY <2>1 DEF Stream!Dispose
<1>7. ASSUME NEW from \in ToSet(Disposal) \ {"none"}, DisposeStep(from)
      PROVE  UNCHANGED <<produced, consumed, reader, disposal # "none">>
  <2>1. disposal # "none" /\ disposal' # "none"
    BY <1>7, Parts, NextStage DEF DisposeStep
  <2> QED
    BY <1>7, <2>1 DEF DisposeStep
<1> QED
  BY <1>1, <1>2, <1>3, <1>4, <1>5, <1>6, <1>7 DEF Next, Disposing, Stream!Next

(* Two draining threads, a bounded channel and a reader that takes items     *)
(* apart are one stream to the terminal, for any sizes: its reads bring what *)
(* the server sent, in order and not before it was sent, and it ends early   *)
(* for a failure or a disposal only.                                         *)
THEOREM OutputImplements == Spec => Contract
<1>1. Init => Stream!Init
  BY InitTypes, Parts DEF Init, Stream!Init
<1>2. Init => StreamInv
  <2>1. Init => EndInv
    BY DEF Init, EndInv
  <2> QED
    BY <2>1, InitTypes, InitOrdered, InitWorks, InitSent DEF StreamInv
<1>3. StreamInv /\ [Next]_vars => StreamInv'
  BY NextTypes, NextOrdered, NextWorks, NextEnds, NextSent DEF StreamInv
<1>4. StreamInv /\ [Next]_vars => [Stream!Next]_(Stream!stream)
  BY StreamSteps
<1> QED
  BY <1>1, <1>2, <1>3, <1>4, PTL DEF Spec, Contract, Stream!Spec
=============================================================================
