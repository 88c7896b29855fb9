----------------------------- MODULE TerminalProofs -----------------------------
(* Theorems about TerminalWindow, for any number of runs, stops, messages     *)
(* and sizes, and about TerminalBridge, which implements it.                 *)
EXTENDS TerminalBridge, SequenceTheorems, TLAPS

USE WindowAssumption, SizeAssumption

(* What makes the properties inductive.  One run at most is live, and it is  *)
(* the last; what it has not begun yet it does not have.                     *)
Before == {"unused", "preparing", "connecting", "starting"}
Held == {"starting", "reading", "posting", "disposing"}

RunsInv ==
    \A r \in Runs : /\ Live(r) => r = running
                    /\ runs[r].phase = "unused" => ~runs[r].cancelled /\ cancellation # r
                    /\ runs[r].phase \in Before => runs[r].writer = "none"
                    /\ runs[r].phase = "ended" => runs[r].writer \in {"none", "ended"}

SessionInv ==
    /\ OneSession
    /\ \A r \in Runs : runs[r].phase \in Held <=> session = r

ChunkInv ==
    /\ OneChunkInFlight
    /\ acknowledged => rendering = <<>>
    /\ \A i \in 1..Len(rendering) : runs[rendering[i]].phase \notin Before \cup {"reading"}

InputInv ==
    /\ InputToOwnSession
    /\ \A i \in 1..Len(input) : input[i].to = running

(* A stop that waits has cancelled what it found; the ones that start a run   *)
(* or end the window still wait for the last run.                            *)
StopInv ==
    /\ \A i \in 1..Len(stops) :
          /\ stops[i].stopping # 0 => runs[stops[i].stopping].cancelled
          /\ stops[i].kind = "reconnect" => restarting /\ stops[i].task = running
          /\ stops[i].kind = "close" => closeTask = "stopping" /\ stops[i].task = running
    /\ \A i, j \in 1..Len(stops) :
          stops[i].kind = stops[j].kind /\ stops[i].kind # "disconnect" => i = j

CloseInv ==
    /\ closing <=> closeTask # "none"
    /\ closeTask \in {"initializing", "closed", "faulted"} => \A r \in Runs : ~Live(r)
    /\ drained => closeTask \in {"closed", "faulted"}

WindowInv ==
    /\ TypeOK
    /\ RunsInv /\ SessionInv /\ ChunkInv /\ InputInv /\ StopReachesRun /\ StopInv /\ CloseInv

-----------------------------------------------------------------------------
(* Types.                                                                    *)
LEMMA RunFields ==
    ASSUME NEW f \in [Runs -> Run], NEW r \in Runs
    PROVE  /\ f[r].phase \in Phases /\ f[r].cancelled \in BOOLEAN
           /\ f[r].item \in Messages \cup {Nothing}
           /\ f[r].writer \in {"none", "idle", "sending", "ended"}
  BY DEF Run

(* Cancelling changes the flag of one run and nothing else.                  *)
LEMMA CancelledRuns ==
    ASSUME NEW f \in [Runs -> Run], NEW c \in 0..MaxRuns
    PROVE  /\ Cancelled(f, c) \in [Runs -> Run]
           /\ \A r \in Runs : /\ Cancelled(f, c)[r].phase = f[r].phase
                              /\ Cancelled(f, c)[r].writer = f[r].writer
                              /\ Cancelled(f, c)[r].item = f[r].item
                              /\ f[r].cancelled => Cancelled(f, c)[r].cancelled
                              /\ Cancelled(f, c)[r].cancelled => f[r].cancelled \/ r = c
           /\ c # 0 => c \in Runs /\ Cancelled(f, c)[c].cancelled
<1>1. CASE c = 0
  BY <1>1 DEF Cancelled
<1>2. CASE c # 0
  <2>1. c \in Runs
    BY <1>2 DEF Runs
  <2>2. Cancelled(f, c) = [f EXCEPT ![c].cancelled = TRUE]
    BY <1>2 DEF Cancelled
  <2>3. f[c] \in Run
    BY <2>1
  <2>4. /\ [f[c] EXCEPT !.cancelled = TRUE] \in Run
        /\ [f[c] EXCEPT !.cancelled = TRUE].phase = f[c].phase
        /\ [f[c] EXCEPT !.cancelled = TRUE].writer = f[c].writer
        /\ [f[c] EXCEPT !.cancelled = TRUE].item = f[c].item
        /\ [f[c] EXCEPT !.cancelled = TRUE].cancelled = TRUE
    BY <2>3 DEF Run
  <2>5. \A r \in Runs :
           Cancelled(f, c)[r] = IF r = c THEN [f[c] EXCEPT !.cancelled = TRUE] ELSE f[r]
    BY <2>1, <2>2
  <2>6. Cancelled(f, c) \in [Runs -> Run]
    BY <2>1, <2>2, <2>4
  <2> QED
    BY <2>1, <2>4, <2>5, <2>6
<1> QED
  BY <1>1, <1>2

LEMMA MovedRuns ==
    ASSUME TypeOK, NEW r \in Runs, NEW phase \in Phases
    PROVE  /\ Moved(r, phase) \in [Runs -> Run]
           /\ Moved(r, phase)[r].phase = phase
           /\ Moved(r, phase)[r].writer = runs[r].writer
           /\ Moved(r, phase)[r].item = runs[r].item
           /\ Moved(r, phase)[r].cancelled = runs[r].cancelled
           /\ \A x \in Runs : x # r => Moved(r, phase)[x] = runs[x]
<1>1. runs \in [Runs -> Run] /\ runs[r] \in Run
  BY DEF TypeOK
<1>2. Moved(r, phase)[r] = [runs[r] EXCEPT !.phase = phase]
  BY <1>1 DEF Moved
<1>3. [runs[r] EXCEPT !.phase = phase] \in Run
  BY <1>1 DEF Run
<1>4. Moved(r, phase) \in [Runs -> Run]
  BY <1>1, <1>3 DEF Moved
<1>5. /\ [runs[r] EXCEPT !.phase = phase].phase = phase
      /\ [runs[r] EXCEPT !.phase = phase].writer = runs[r].writer
      /\ [runs[r] EXCEPT !.phase = phase].item = runs[r].item
      /\ [runs[r] EXCEPT !.phase = phase].cancelled = runs[r].cancelled
  BY <1>1 DEF Run
<1>6. \A x \in Runs : x # r => Moved(r, phase)[x] = runs[x]
  BY <1>1 DEF Moved
<1> QED
  BY <1>2, <1>4, <1>5, <1>6

(* What a step does to the runs it does not move: it may cancel one.         *)
Same(r) ==
    /\ runs'[r].phase = runs[r].phase /\ runs'[r].writer = runs[r].writer
    /\ runs'[r].item = runs[r].item
    /\ runs[r].cancelled => runs'[r].cancelled
    /\ runs'[r].cancelled => runs[r].cancelled \/ r = cancellation
NoneMoves == runs' \in [Runs -> Run] /\ \A r \in Runs : Same(r)
OneMoves(r) ==
    /\ runs' \in [Runs -> Run]
    /\ runs[r].cancelled => runs'[r].cancelled
    /\ \A x \in Runs : x # r => Same(x)

LEMMA CancelMovesNone ==
    ASSUME TypeOK, runs' = Cancelled(runs, cancellation)
    PROVE  NoneMoves
<1>1. runs \in [Runs -> Run] /\ cancellation \in 0..MaxRuns
  BY DEF TypeOK
<1> QED
  BY <1>1, CancelledRuns DEF NoneMoves, Same

LEMMA UnchangedMovesNone ==
    ASSUME TypeOK, UNCHANGED runs
    PROVE  NoneMoves
  BY DEF NoneMoves, Same, TypeOK

(* A message is queued for the session there is, or the run is cancelled.    *)
LEMMA QueueStep ==
    ASSUME TypeOK, NEW what \in Sizes \cup {Typed}, Queue(what)
    PROVE  /\ NoneMoves
           /\ input' \in Seq(Messages) /\ Len(input') <= InputCapacity
           /\ \/ UNCHANGED input
              \/ /\ session # 0
                 /\ input' = Append(input, [to |-> session, what |-> what])
<1>1. runs \in [Runs -> Run] /\ input \in Seq(Messages) /\ Len(input) <= InputCapacity
  BY DEF TypeOK
<1>2. CASE UNCHANGED <<input, runs>>
  BY <1>1, <1>2, UnchangedMovesNone
<1>3. CASE runs' = Cancelled(runs, cancellation) /\ UNCHANGED input
  BY <1>1, <1>3, CancelMovesNone
<1>4. CASE /\ session # 0 /\ ~Full /\ UNCHANGED runs
           /\ input' = Append(input, [to |-> session, what |-> what])
  <2>1. [to |-> session, what |-> what] \in Messages
    BY <1>4 DEF TypeOK, Messages, Runs
  <2>2. Len(input) \in Nat /\ Len(input) # InputCapacity /\ InputCapacity \in Nat
    BY <1>1, <1>4 DEF Full
  <2>3. input' \in Seq(Messages) /\ Len(input') = Len(input) + 1
    BY <1>1, <1>4, <2>1
  <2>4. Len(input') <= InputCapacity
    BY <1>1, <2>2, <2>3
  <2> QED
    BY <1>4, <2>3, <2>4, UnchangedMovesNone
<1> QED
  BY <1>2, <1>3, <1>4, Zenon DEF Queue

(* A run is started: the next one, with an empty channel.                    *)
LEMMA StartStep ==
    ASSUME TypeOK, RunsInv, StartRun
    PROVE  \E r \in Runs :
              /\ OneMoves(r) /\ runs[r].phase = "unused"
              /\ runs'[r].writer = runs[r].writer /\ runs'[r].item = runs[r].item
              /\ runs'[r].phase \in {"preparing", "connecting", "ended"}
              /\ cancellation' = r /\ running' = r /\ input' = <<>>
              /\ initialization' \in {"running", "ready", "failed"}
              /\ initialization' # "ready" =>
                    initialization # "ready" /\ runs'[r].phase # "connecting"
              /\ requiresReopen' \in BOOLEAN
<1>1. PICK r \in Unused :
         /\ cancellation' = r /\ running' = r /\ input' = NewChannel
         /\ initialization' \in IF initialization = "none" THEN {"running", "failed"}
                                ELSE {initialization}
         /\ requiresReopen' = (requiresReopen \/ initialization' = "failed")
         /\ runs' = [runs EXCEPT ![r].phase = FirstWait[initialization'],
                                 ![r].cancelled = initialization' = "failed"]
  BY DEF StartRun
<1>2. r \in Runs /\ runs[r].phase = "unused" /\ runs[r] \in Run /\ runs \in [Runs -> Run]
  BY DEF Unused, TypeOK
<1>3. initialization' \in {"running", "ready", "failed"}
  BY <1>1 DEF TypeOK
<1>4. /\ FirstWait[initialization'] \in {"preparing", "connecting", "ended"}
      /\ initialization' # "ready" =>
            initialization # "ready" /\ FirstWait[initialization'] # "connecting"
  BY <1>1, <1>3 DEF FirstWait
<1> DEFINE first == FirstWait[initialization']
           cancelled == initialization' = "failed"
           new == [runs[r] EXCEPT !.phase = first, !.cancelled = cancelled]
<1>5. runs'[r] = new /\ \A x \in Runs : x # r => runs'[x] = runs[x]
  BY <1>1, <1>2
<1>6. new \in Run /\ new.phase = first /\ new.writer = runs[r].writer /\ new.item = runs[r].item
  <2>1. cancelled \in BOOLEAN
    OBVIOUS
  <2> HIDE DEF first, cancelled
  <2> QED
    BY <1>2, <1>4, <2>1 DEF Run, Phases, first
<1>7. runs' \in [Runs -> Run]
  BY <1>1, <1>2, <1>5, <1>6
<1>8. requiresReopen' \in BOOLEAN
  BY <1>1
<1>9. OneMoves(r)
  BY <1>2, <1>5, <1>7 DEF OneMoves, Same, RunsInv
<1> QED
  BY <1>1, <1>2, <1>3, <1>4, <1>5, <1>6, <1>8, <1>9 DEF NewChannel

(* A writer takes, sends or ends; nothing else of the run moves.             *)
Wrote(r, writer, item) == [runs EXCEPT ![r].writer = writer, ![r].item = item]

LEMMA WroteRuns ==
    ASSUME TypeOK, NEW r \in Runs, NEW writer \in {"idle", "sending", "ended"},
           NEW item \in Messages \cup {Nothing}
    PROVE  /\ Wrote(r, writer, item) \in [Runs -> Run]
           /\ Wrote(r, writer, item)[r].phase = runs[r].phase
           /\ Wrote(r, writer, item)[r].cancelled = runs[r].cancelled
           /\ Wrote(r, writer, item)[r].writer = writer
           /\ Wrote(r, writer, item)[r].item = item
           /\ \A x \in Runs : x # r => Wrote(r, writer, item)[x] = runs[x]
<1> DEFINE f == Wrote(r, writer, item)
           new == [runs[r] EXCEPT !.writer = writer, !.item = item]
<1>1. runs \in [Runs -> Run] /\ runs[r] \in Run
  BY DEF TypeOK
<1>2. f[r] = new /\ \A x \in Runs : x # r => f[x] = runs[x]
  BY <1>1 DEF Wrote
<1>3. /\ new \in Run /\ new.phase = runs[r].phase /\ new.cancelled = runs[r].cancelled
      /\ new.writer = writer /\ new.item = item
  BY <1>1 DEF Run
<1>4. f \in [Runs -> Run]
  BY <1>1, <1>2, <1>3 DEF Wrote
<1> QED
  BY <1>2, <1>3, <1>4

LEMMA WriterMoves ==
    ASSUME TypeOK, NEW r \in Runs, WriterStep(r)
    PROVE  /\ OneMoves(r)
           /\ runs[r].writer \in {"idle", "sending"}
           /\ runs'[r].phase = runs[r].phase
           /\ runs[r].cancelled => runs'[r].cancelled
           /\ runs'[r].writer \in {"idle", "sending", "ended"}
           /\ \/ input' = input /\ runs'[r].item = Nothing
              \/ input # <<>> /\ input' = Tail(input) /\ runs'[r].item = Head(input)
           /\ UNCHANGED <<rendering, acknowledged, size, questions, fields, browser, ending>>
           /\ remote' \in Sizes
<1>1. input \in Seq(Messages) /\ runs[r].item \in Messages \cup {Nothing} /\ remote \in Sizes
  BY RunFields DEF TypeOK
<1>2. Nothing \in Messages \cup {Nothing}
  OBVIOUS
<1>3. CASE WriterTakes(r)
  <2>1. input # <<>> /\ Head(input) \in Messages
    BY <1>1, <1>3, HeadTailProperties DEF WriterTakes
  <2>2. runs' = Wrote(r, "sending", Head(input))
    BY <1>3 DEF WriterTakes, Wrote
  <2>3. /\ runs' \in [Runs -> Run]
        /\ runs'[r].phase = runs[r].phase /\ runs'[r].cancelled = runs[r].cancelled
        /\ runs'[r].writer = "sending" /\ runs'[r].item = Head(input)
        /\ \A x \in Runs : x # r => runs'[x] = runs[x]
    BY <1>2, <2>1, <2>2, WroteRuns
  <2> QED
    BY <1>1, <1>3, <2>1, <2>3 DEF WriterTakes, OneMoves, Same
<1>4. CASE WriterSent(r)
  <2>1. runs' = Wrote(r, "idle", Nothing)
    BY <1>4 DEF WriterSent, Wrote
  <2>2. /\ runs' \in [Runs -> Run]
        /\ runs'[r].phase = runs[r].phase /\ runs'[r].cancelled = runs[r].cancelled
        /\ runs'[r].writer = "idle" /\ runs'[r].item = Nothing
        /\ \A x \in Runs : x # r => runs'[x] = runs[x]
    BY <1>2, <2>1, WroteRuns
  <2>3. remote' \in Sizes
    BY <1>1, <1>4 DEF WriterSent, Messages, Nothing
  <2> QED
    BY <1>4, <2>2, <2>3 DEF WriterSent, OneMoves, Same
<1>5. CASE WriterEnds(r)
  <2> DEFINE f == Wrote(r, "ended", Nothing)
  <2>1. runs' = Cancelled(f, cancellation) /\ cancellation \in 0..MaxRuns
    BY <1>5 DEF WriterEnds, Wrote, TypeOK
  <2>2. /\ f \in [Runs -> Run]
        /\ f[r].phase = runs[r].phase /\ f[r].cancelled = runs[r].cancelled
        /\ f[r].writer = "ended" /\ f[r].item = Nothing
        /\ \A x \in Runs : x # r => f[x] = runs[x]
    BY <1>2, WroteRuns
  <2> HIDE DEF f
  <2>3. /\ runs' \in [Runs -> Run]
        /\ \A x \in Runs : /\ runs'[x].phase = f[x].phase /\ runs'[x].writer = f[x].writer
                           /\ runs'[x].item = f[x].item
                           /\ f[x].cancelled => runs'[x].cancelled
                           /\ runs'[x].cancelled => f[x].cancelled \/ x = cancellation
    BY <2>1, <2>2, CancelledRuns
  <2>4. /\ OneMoves(r) /\ runs'[r].phase = runs[r].phase
        /\ runs[r].cancelled => runs'[r].cancelled
        /\ runs'[r].writer = "ended" /\ runs'[r].item = Nothing
    BY <2>2, <2>3 DEF OneMoves, Same
  <2>5. /\ runs[r].writer \in {"idle", "sending"} /\ UNCHANGED <<fields, io, browser, ending>>
    BY <1>5 DEF WriterEnds, WriterSees
  <2> QED
    BY <1>1, <1>5, <2>4, <2>5 DEF WriterEnds, fields, io, browser
<1> QED
  BY <1>3, <1>4, <1>5 DEF WriterStep

(* The finally block is entered by one run, and cancels the field's token.   *)
LEMMA FinishMoves ==
    ASSUME TypeOK, NEW r \in Runs, Finish(r)
    PROVE  /\ OneMoves(r)
           /\ runs'[r].writer = runs[r].writer /\ runs'[r].item = runs[r].item
           /\ runs[r].cancelled => runs'[r].cancelled
           /\ runs'[r].phase = IF session # 0 THEN "disposing" ELSE AfterSession(r)
           /\ UNCHANGED <<fields, io, browser, ending>>
<1> DEFINE next == IF session # 0 THEN "disposing" ELSE AfterSession(r)
<1>1. next \in Phases
  BY DEF AfterSession, Phases
<1>2. runs' = Cancelled(Moved(r, next), cancellation) /\ cancellation \in 0..MaxRuns
  BY DEF Finish, TypeOK
<1> HIDE DEF next
<1>3. /\ Moved(r, next) \in [Runs -> Run] /\ Moved(r, next)[r].phase = next
      /\ Moved(r, next)[r].writer = runs[r].writer /\ Moved(r, next)[r].item = runs[r].item
      /\ Moved(r, next)[r].cancelled = runs[r].cancelled
      /\ \A x \in Runs : x # r => Moved(r, next)[x] = runs[x]
  BY <1>1, MovedRuns
<1>4. /\ runs' \in [Runs -> Run]
      /\ \A x \in Runs : /\ runs'[x].phase = Moved(r, next)[x].phase
                         /\ runs'[x].writer = Moved(r, next)[x].writer
                         /\ runs'[x].item = Moved(r, next)[x].item
                         /\ Moved(r, next)[x].cancelled => runs'[x].cancelled
                         /\ runs'[x].cancelled => Moved(r, next)[x].cancelled \/ x = cancellation
  BY <1>2, <1>3, CancelledRuns
<1> QED
  BY <1>3, <1>4 DEF Finish, OneMoves, Same, next

(* A stop waits for the last run, which it cancels.                          *)
LEMMA WaitStep ==
    ASSUME TypeOK, NEW kind \in {"reconnect", "disconnect", "close"}, StopWaits, Wait(kind)
    PROVE  NoneMoves /\ stops' \in Seq(Stop) /\ running \in Runs
<1>1. running \in Runs /\ cancellation \in 0..MaxRuns /\ stops \in Seq(Stop)
  BY DEF TypeOK, StopWaits, Loaded, Runs
<1>2. [kind |-> kind, stopping |-> cancellation, task |-> running] \in Stop
  BY <1>1 DEF Stop
<1>3. stops' \in Seq(Stop)
  BY <1>1, <1>2 DEF Wait
<1> QED
  BY <1>1, <1>3, CancelMovesNone DEF Wait

LEMMA ResumeStep ==
    ASSUME TypeOK, NEW kind, Resumes(kind)
    PROVE  /\ stops # <<>> /\ Head(stops) \in Stop /\ Head(stops).kind = kind
           /\ runs[Head(stops).task].phase = "ended"
           /\ stops' = Tail(stops) /\ stops' \in Seq(Stop)
           /\ Released(Head(stops)) \in 0..MaxRuns
<1>1. stops \in Seq(Stop) /\ stops # <<>> /\ cancellation \in 0..MaxRuns
  BY DEF TypeOK, Resumes
<1>2. Head(stops) \in Stop /\ Tail(stops) \in Seq(Stop)
  BY <1>1, HeadTailProperties
<1> QED
  BY <1>1, <1>2 DEF Resumes, Released

LEMMA EndTypes ==
    ASSUME TypeOK, NEW insideEvent \in BOOLEAN, AfterStop(insideEvent) \/ Ended(insideEvent)
    PROVE  /\ closeTask' \in {"initializing", "closed", "faulted"}
           /\ drained' \in BOOLEAN /\ window' \in {"open", "shut"}
           /\ drained' => drained \/ closeTask' \in {"closed", "faulted"}
  BY DEF TypeOK, AfterStop, Ended

(* The messages and pastes, which queue something or not.                    *)
Handled ==
    \/ Type \/ PasteButton \/ ReceivePaste \/ AnswerPaste
    \/ \E newSize \in Sizes : ReceiveResize(newSize)

LEMMA HandledStep ==
    ASSUME TypeOK, Handled
    PROVE  /\ NoneMoves
           /\ input' \in Seq(Messages) /\ Len(input') <= InputCapacity
           /\ \/ UNCHANGED input
              \/ /\ session # 0
                 /\ \E what \in Sizes \cup {Typed} :
                  input' = Append(input, [to |-> session, what |-> what])
           /\ size' \in Sizes /\ questions' \in Seq({"message", "toolbar"})
           /\ UNCHANGED <<rendering, acknowledged, remote, fields, browser, ending>>
<1>1. questions \in Seq({"message", "toolbar"}) /\ size \in Sizes
  BY DEF TypeOK
<1>2. ASSUME UNCHANGED <<input, runs>>
      PROVE  NoneMoves /\ input' \in Seq(Messages) /\ Len(input') <= InputCapacity
  BY <1>2, UnchangedMovesNone DEF TypeOK
<1>3. CASE Type
  BY <1>1, <1>3, QueueStep DEF Type
<1>4. ASSUME NEW source \in {"message", "toolbar"}, Paste(source)
      PROVE  /\ questions' \in Seq({"message", "toolbar"})
             /\ Queue(Typed) \/ UNCHANGED <<input, runs>>
             /\ UNCHANGED <<rendering, acknowledged, size, remote, fields, browser, ending>>
  <2>1. Append(questions, source) \in Seq({"message", "toolbar"})
    BY <1>1
  <2> QED
    BY <1>1, <1>4, <2>1 DEF Paste
<1>5. CASE PasteButton \/ ReceivePaste
  BY <1>1, <1>2, <1>4, <1>5, QueueStep DEF PasteButton, ReceivePaste
<1>6. CASE AnswerPaste
  <2>1. questions' \in Seq({"message", "toolbar"})
    <3>1. questions # <<>> /\ questions' = SubSeq(questions, 1, Len(questions) - 1)
      BY <1>6 DEF AnswerPaste
    <3>2. \A i \in 1..Len(questions) - 1 : questions[i] \in {"message", "toolbar"}
      BY <1>1, ElementOfSeq
    <3> QED
      BY <1>1, <3>1, <3>2, SubSeqProperties
  <2>2. /\ Queue(Typed) \/ UNCHANGED <<input, runs>>
        /\ UNCHANGED <<rendering, acknowledged, size, remote, fields, browser, ending>>
    BY <1>6 DEF AnswerPaste
  <2> QED
    BY <1>1, <1>2, <2>1, <2>2, QueueStep
<1>7. ASSUME NEW newSize \in Sizes, ReceiveResize(newSize)
      PROVE  /\ size' \in Sizes /\ Queue(newSize)
             /\ UNCHANGED <<rendering, acknowledged, remote, questions, fields, browser, ending>>
  BY <1>7 DEF ReceiveResize, Resize
<1>8. CASE \E newSize \in Sizes : ReceiveResize(newSize)
  BY <1>1, <1>7, <1>8, QueueStep
<1> QED
  BY <1>3, <1>5, <1>6, <1>8 DEF Handled

-----------------------------------------------------------------------------
LEMMA StopFrame ==
    ASSUME TypeOK, StopInv, UNCHANGED <<stops, restarting, running>>,
           closeTask = "stopping" => closeTask' = "stopping",
           \A r \in Runs : runs[r].cancelled => runs'[r].cancelled
    PROVE  StopInv'
<1>1. \A i \in 1..Len(stops) : stops[i].stopping # 0 => stops[i].stopping \in Runs
  <2>1. \A i \in 1..Len(stops) : stops[i] \in Stop
    BY ElementOfSeq DEF TypeOK
  <2> QED
    BY <2>1 DEF Stop, Runs
<1>2. \A i \in 1..Len(stops) : stops[i].stopping # 0 => runs'[stops[i].stopping].cancelled
  BY <1>1 DEF StopInv
<1> QED
  BY <1>2, Zenon DEF StopInv

(* Steps that move no run keep what the fields they leave alone are about.   *)
LEMMA NoneMovesInv ==
    ASSUME WindowInv, NoneMoves, UNCHANGED <<running, session, open>>,
           cancellation' \in {cancellation, 0}
    PROVE  /\ RunsInv' /\ SessionInv'
           /\ \A r \in Runs : Live(r)' <=> Live(r)
           /\ UNCHANGED <<rendering, acknowledged>> => ChunkInv'
           /\ UNCHANGED input => InputInv'
           /\ UNCHANGED cancellation => StopReachesRun'
           /\ /\ UNCHANGED <<stops, restarting>>
              /\ closeTask = "stopping" => closeTask' = "stopping"
              => StopInv'
           /\ UNCHANGED <<closing, closeTask, drained>> => CloseInv'
<1>1. \A r \in Runs : Same(r)
  BY DEF NoneMoves
<1>2. RunsInv'
  <2> SUFFICES ASSUME NEW r \in Runs
               PROVE  /\ Live(r)' => r = running
                      /\ runs'[r].phase = "unused" => ~runs'[r].cancelled /\ cancellation' # r
                      /\ runs'[r].phase \in Before => runs'[r].writer = "none"
                      /\ runs'[r].phase = "ended" => runs'[r].writer \in {"none", "ended"}
    BY DEF RunsInv, Live
  <2>1. /\ Live(r) => r = running
        /\ runs[r].phase = "unused" => ~runs[r].cancelled /\ cancellation # r
        /\ runs[r].phase \in Before => runs[r].writer = "none"
        /\ runs[r].phase = "ended" => runs[r].writer \in {"none", "ended"}
    BY DEF WindowInv, RunsInv
  <2>2. Same(r) /\ r # 0
    BY <1>1 DEF Runs
  <2> QED
    BY <2>1, <2>2 DEF Same, Live
<1>3. SessionInv'
  BY <1>1 DEF WindowInv, SessionInv, OneSession, Same
<1>4. \A r \in Runs : Live(r)' <=> Live(r)
  BY <1>1 DEF Same, Live
<1>5. ASSUME UNCHANGED <<rendering, acknowledged>> PROVE ChunkInv'
  <2>1. rendering \in Seq(Runs) /\ \A i \in 1..Len(rendering) : rendering[i] \in Runs
    BY ElementOfSeq DEF WindowInv, TypeOK
  <2> QED
    BY <1>1, <1>5, <2>1 DEF WindowInv, ChunkInv, OneChunkInFlight, Same
<1>6. ASSUME UNCHANGED input PROVE InputInv'
  BY <1>1, <1>6 DEF WindowInv, InputInv, InputToOwnSession, Same
<1>7. ASSUME UNCHANGED cancellation PROVE StopReachesRun'
  BY <1>1, <1>4, <1>7 DEF WindowInv, StopReachesRun, Same
<1>8. ASSUME UNCHANGED <<stops, restarting>>, closeTask = "stopping" => closeTask' = "stopping"
      PROVE  StopInv'
  BY <1>1, <1>8, StopFrame DEF WindowInv, Same
<1>9. ASSUME UNCHANGED <<closing, closeTask, drained>> PROVE CloseInv'
  BY <1>4, <1>9 DEF WindowInv, CloseInv
<1> QED
  BY <1>2, <1>3, <1>4, <1>5, <1>6, <1>7, <1>8, <1>9

(* A step of the live run.                                                   *)
LEMMA OneMovesInv ==
    ASSUME WindowInv, NEW r \in Runs, Live(r), OneMoves(r), runs'[r].phase # "unused",
           UNCHANGED <<running, cancellation, restarting, ending>>
    PROVE  /\ StopReachesRun' /\ StopInv' /\ CloseInv'
           /\ /\ runs'[r].phase \in Before => runs'[r].writer = "none"
              /\ runs'[r].phase = "ended" => runs'[r].writer \in {"none", "ended"}
              => RunsInv'
           /\ UNCHANGED input /\ runs'[r].item = runs[r].item => InputInv'
           /\ /\ UNCHANGED <<session, open>>
              /\ runs'[r].phase \in Held <=> runs[r].phase \in Held
              => SessionInv'
           /\ /\ UNCHANGED <<rendering, acknowledged>>
              /\ runs'[r].phase \in Before \cup {"reading"} =>
                   runs[r].phase \in Before \cup {"reading"}
              => ChunkInv'
<1>1. /\ \A x \in Runs : x # r => Same(x)
      /\ r = running /\ runs'[r] \in Run
      /\ runs[r].cancelled => runs'[r].cancelled
  BY DEF OneMoves, WindowInv, RunsInv
<1>2. StopReachesRun'
  BY <1>1 DEF WindowInv, StopReachesRun, Same, Live
<1>3. StopInv'
  BY <1>1, StopFrame DEF WindowInv, Same, ending
<1>4. CloseInv'
  BY DEF WindowInv, CloseInv, ending
<1>5. ASSUME runs'[r].phase \in Before => runs'[r].writer = "none",
             runs'[r].phase = "ended" => runs'[r].writer \in {"none", "ended"}
      PROVE  RunsInv'
  BY <1>1, <1>5 DEF WindowInv, RunsInv, Same, Live
<1>6. ASSUME UNCHANGED input, runs'[r].item = runs[r].item PROVE InputInv'
  BY <1>1, <1>6 DEF WindowInv, InputInv, InputToOwnSession, Same
<1>7. ASSUME UNCHANGED <<session, open>>, runs'[r].phase \in Held <=> runs[r].phase \in Held
      PROVE  SessionInv'
  BY <1>1, <1>7 DEF WindowInv, SessionInv, OneSession, Same
<1>8. ASSUME UNCHANGED <<rendering, acknowledged>>,
             runs'[r].phase \in Before \cup {"reading"} => runs[r].phase \in Before \cup {"reading"}
      PROVE  ChunkInv'
  <2>1. rendering \in Seq(Runs) /\ \A i \in 1..Len(rendering) : rendering[i] \in Runs
    BY ElementOfSeq DEF WindowInv, TypeOK
  <2> QED
    BY <1>1, <1>8, <2>1 DEF WindowInv, ChunkInv, OneChunkInFlight, Same
<1> QED
  BY <1>2, <1>3, <1>4, <1>5, <1>6, <1>7, <1>8

(* The session there is belongs to the run that is live.                     *)
LEMMA SessionRuns ==
    ASSUME WindowInv, session # 0
    PROVE  /\ session \in Runs /\ session = running /\ Live(session)
           /\ runs[session].phase \in Held
<1>1. session \in Runs
  BY DEF WindowInv, TypeOK, Runs
<1>2. runs[session].phase \in Held
  BY <1>1 DEF WindowInv, SessionInv
<1>3. Live(session)
  BY <1>2 DEF Held, Live
<1> QED
  BY <1>1, <1>2, <1>3 DEF WindowInv, RunsInv

(* The run's own steps.                                                      *)
LEMMA FinishKeeps ==
    ASSUME WindowInv, NEW r \in Runs, Finish(r), runs[r].phase \in Interruptible
    PROVE  WindowInv'
<1>1. /\ OneMoves(r)
      /\ runs'[r].writer = runs[r].writer /\ runs'[r].item = runs[r].item
      /\ runs'[r].phase = IF session # 0 THEN "disposing" ELSE AfterSession(r)
      /\ UNCHANGED <<fields, io, browser, ending>>
  BY FinishMoves DEF WindowInv
<1>2. TypeOK'
  BY <1>1 DEF WindowInv, TypeOK, OneMoves, fields, io, browser, ending
<1>3. /\ Live(r) /\ r = running
      /\ runs[r].phase \in Before => runs[r].writer = "none"
      /\ runs[r].phase \in Held <=> session = r
  BY DEF Live, Interruptible, WindowInv, RunsInv, SessionInv
<1>4. session # 0 => session = r
  BY <1>3, SessionRuns
<1>5. /\ runs'[r].phase \in {"disposing", "draining", "ended"}
      /\ runs'[r].phase = "ended" => runs'[r].writer = "none"
      /\ runs'[r].phase \in Held <=> runs[r].phase \in Held
  BY <1>1, <1>3, <1>4 DEF AfterSession, Held, Runs
<1>6. /\ UNCHANGED <<running, cancellation, restarting, ending, input, session, open>>
      /\ UNCHANGED <<rendering, acknowledged>>
  BY <1>1 DEF fields, io
<1> QED
  BY <1>1, <1>2, <1>3, <1>5, <1>6, OneMovesInv DEF WindowInv, Before

LEMMA RunKeeps ==
    ASSUME WindowInv, NEW r \in Runs, RunStep(r)
    PROVE  WindowInv'
<1> USE DEF Live
<1>0. TypeOK
  BY DEF WindowInv
<1>1. CASE Prepared(r)
  <2>1. /\ runs[r].phase = "preparing" /\ runs' = Moved(r, "connecting")
        /\ UNCHANGED <<fields, io, browser, ending>>
    BY <1>1 DEF Prepared
  <2>2. /\ OneMoves(r) /\ runs'[r].phase = "connecting" /\ runs'[r].writer = runs[r].writer
        /\ runs'[r].item = runs[r].item
    BY <1>0, <2>1, MovedRuns DEF OneMoves, Same, Phases
  <2>3. TypeOK'
    BY <1>0, <2>1, <2>2 DEF TypeOK, OneMoves, fields, io, browser, ending
  <2>4. runs[r].writer = "none"
    BY <2>1 DEF WindowInv, RunsInv, Before
  <2> QED
    BY <2>1, <2>2, <2>3, <2>4, OneMovesInv DEF WindowInv, fields, io, Before, Held
<1>2. CASE Started(r)
  <2> DEFINE f == [runs EXCEPT ![r].phase = "reading", ![r].writer = "idle"]
             new == [runs[r] EXCEPT !.phase = "reading", !.writer = "idle"]
  <2>1. /\ runs[r].phase = "starting" /\ runs' = f /\ runs[r] \in Run /\ runs \in [Runs -> Run]
        /\ UNCHANGED <<fields, io, browser, ending>>
    BY <1>0, <1>2 DEF Started, TypeOK
  <2>2. /\ new \in Run /\ new.phase = "reading" /\ new.writer = "idle" /\ new.item = runs[r].item
        /\ new.cancelled = runs[r].cancelled
    BY <2>1 DEF Run, Phases
  <2>3. f[r] = new /\ \A x \in Runs : x # r => f[x] = runs[x]
    BY <2>1
  <2>4. f \in [Runs -> Run]
    BY <2>1, <2>2, <2>3
  <2> HIDE DEF f, new
  <2>5. OneMoves(r)
    BY <2>1, <2>2, <2>3, <2>4 DEF OneMoves, Same
  <2>6. TypeOK'
    BY <1>0, <2>1, <2>4 DEF TypeOK, fields, io, browser, ending
  <2> QED
    BY <2>1, <2>2, <2>3, <2>5, <2>6, OneMovesInv DEF WindowInv, fields, io, Before, Held
<1>3. CASE Acknowledged(r)
  <2>1. /\ runs[r].phase = "posting" /\ runs' = Moved(r, "reading") /\ acknowledged
        /\ UNCHANGED <<fields, io, browser, ending>>
    BY <1>3 DEF Acknowledged
  <2>2. /\ OneMoves(r) /\ runs'[r].phase = "reading" /\ runs'[r].writer = runs[r].writer
        /\ runs'[r].item = runs[r].item
    BY <1>0, <2>1, MovedRuns DEF OneMoves, Same, Phases
  <2>3. TypeOK'
    BY <1>0, <2>1, <2>2 DEF TypeOK, OneMoves, fields, io, browser, ending
  <2>4. ChunkInv'
    <3>1. rendering' = <<>>
      BY <2>1 DEF WindowInv, ChunkInv, io
    <3>2. 1..Len(rendering') = {}
      BY <3>1, EmptySeq
    <3> QED
      BY <3>1, <3>2 DEF ChunkInv, OneChunkInFlight
  <2> QED
    BY <2>1, <2>2, <2>3, <2>4, OneMovesInv DEF WindowInv, fields, io, Before, Held
<1>4. CASE Output(r)
  <2>1. /\ runs[r].phase = "reading" /\ runs' = Moved(r, "posting")
        /\ acknowledged' = FALSE /\ rendering' = Append(rendering, r)
        /\ UNCHANGED <<input, size, remote, questions, fields, browser, ending>>
    BY <1>4 DEF Output
  <2>2. /\ OneMoves(r) /\ runs'[r].phase = "posting" /\ runs'[r].writer = runs[r].writer
        /\ runs'[r].item = runs[r].item
    BY <1>0, <2>1, MovedRuns DEF OneMoves, Same, Phases
  <2>3. rendering \in Seq(Runs) /\ \A i \in 1..Len(rendering) : rendering[i] \in Runs
    BY <1>0, ElementOfSeq DEF TypeOK
  <2>4. /\ rendering' \in Seq(Runs) /\ Len(rendering') = Len(rendering) + 1
        /\ \A i \in 1..Len(rendering) : rendering'[i] = rendering[i] /\ rendering[i] # r
        /\ rendering'[Len(rendering')] = r
    BY <2>1, <2>3 DEF WindowInv, ChunkInv
  <2>5. TypeOK'
    BY <1>0, <2>1, <2>2, <2>4 DEF TypeOK, OneMoves, fields, browser, ending
  <2>6. ChunkInv'
    <3>1. \A i \in 1..Len(rendering') : i \in 1..Len(rendering) \/ i = Len(rendering')
      BY <2>3, <2>4
    <3>2. \A i, j \in 1..Len(rendering') : rendering'[i] = rendering'[j] => i = j
      BY <2>4, <3>1 DEF WindowInv, ChunkInv, OneChunkInFlight
    <3>3. \A i \in 1..Len(rendering') : runs'[rendering'[i]].phase \notin Before \cup {"reading"}
      BY <2>2, <2>3, <2>4, <3>1 DEF WindowInv, ChunkInv, OneMoves, Same, Before
    <3> QED
      BY <2>1, <3>2, <3>3 DEF ChunkInv, OneChunkInFlight
  <2> QED
    BY <2>1, <2>2, <2>5, <2>6, OneMovesInv DEF WindowInv, fields, Before, Held
<1>5. CASE Connected(r)
  <2>1. /\ runs[r].phase = "connecting" /\ runs' = Moved(r, "starting")
        /\ session' = r /\ open' = open \cup {r} /\ remote' = size
        /\ UNCHANGED <<input, rendering, acknowledged, size, questions, running, cancellation,
                       restarting, browser, ending>>
    BY <1>5 DEF Connected
  <2>2. /\ OneMoves(r) /\ runs'[r].phase = "starting" /\ runs'[r].writer = runs[r].writer
        /\ runs'[r].item = runs[r].item
    BY <1>0, <2>1, MovedRuns DEF OneMoves, Same, Phases
  <2>3. TypeOK'
    <3>1. runs' \in [Runs -> Run]
      BY <2>2 DEF OneMoves
    <3>2. {running', cancellation', session'} \subseteq 0..MaxRuns /\ open' \subseteq Runs
      <4>1. r \in 0..MaxRuns
        BY DEF Runs
      <4>2. open' \subseteq Runs
        BY <1>0, <2>1 DEF TypeOK
      <4> QED
        BY <1>0, <2>1, <4>1, <4>2 DEF TypeOK
    <3>3. {size', remote'} \subseteq Sizes
      BY <1>0, <2>1 DEF TypeOK
    <3>4. {acknowledged', requiresReopen', restarting', closing', drained'} \subseteq BOOLEAN
      BY <1>0, <2>1 DEF TypeOK, browser, ending
    <3> QED
      BY <1>0, <2>1, <3>1, <3>2, <3>3, <3>4 DEF TypeOK, browser, ending
  <2>4. runs[r].writer = "none" /\ r = running
    BY <2>1 DEF WindowInv, RunsInv, Before
  <2>5. SessionInv'
    <3>1. \A x \in Runs : runs[x].phase \notin Held /\ session # x
      BY <2>1, <2>4 DEF WindowInv, SessionInv, RunsInv, Held
    <3>2. open' \subseteq {r}
      BY <2>1, <3>1 DEF WindowInv, SessionInv, OneSession, TypeOK
    <3> QED
      BY <2>1, <2>2, <3>1, <3>2 DEF SessionInv, OneSession, OneMoves, Same, Held
  <2> QED
    BY <2>1, <2>2, <2>3, <2>4, <2>5, OneMovesInv DEF WindowInv, Before
<1>6. CASE SessionDisposed(r)
  <2>1. /\ runs[r].phase = "disposing" /\ runs' = Moved(r, AfterSession(r))
        /\ session' = 0 /\ open' = open \ {session} /\ remote' = FirstSize
        /\ UNCHANGED <<input, rendering, acknowledged, size, questions, running, cancellation,
                       restarting, browser, ending>>
    BY <1>6 DEF SessionDisposed
  <2>2. AfterSession(r) \in {"ended", "draining"} /\ AfterSession(r) \in Phases
    BY DEF AfterSession, Phases
  <2>3. /\ OneMoves(r) /\ runs'[r].phase = AfterSession(r) /\ runs'[r].writer = runs[r].writer
        /\ runs'[r].item = runs[r].item
    BY <1>0, <2>1, <2>2, MovedRuns DEF OneMoves, Same
  <2>4. TypeOK'
    BY <1>0, <2>1, <2>3 DEF TypeOK, OneMoves, browser, ending
  <2>5. runs'[r].phase = "ended" => runs'[r].writer = "none"
    BY <2>3 DEF AfterSession
  <2>6. SessionInv'
    <3>1. \A x \in Runs : x # r => runs[x].phase \notin Held
      BY <2>1 DEF WindowInv, SessionInv, Held
    <3>2. open' = {}
      BY <2>1 DEF WindowInv, SessionInv, OneSession
    <3> QED
      BY <2>1, <2>2, <2>3, <3>1, <3>2 DEF SessionInv, OneSession, OneMoves, Same, Held, Runs
  <2> QED
    BY <2>1, <2>2, <2>3, <2>4, <2>5, <2>6, OneMovesInv DEF WindowInv, Before
<1>7. CASE Drained(r)
  <2>1. /\ runs[r].phase = "draining" /\ runs[r].writer = "ended" /\ runs' = Moved(r, "ended")
        /\ UNCHANGED <<fields, io, browser, ending>>
    BY <1>7 DEF Drained
  <2>2. /\ OneMoves(r) /\ runs'[r].phase = "ended" /\ runs'[r].writer = runs[r].writer
        /\ runs'[r].item = runs[r].item
    BY <1>0, <2>1, MovedRuns DEF OneMoves, Same, Phases
  <2>3. TypeOK'
    BY <1>0, <2>1, <2>2 DEF TypeOK, OneMoves, fields, io, browser, ending
  <2> QED
    BY <2>1, <2>2, <2>3, OneMovesInv DEF WindowInv, fields, io, Before, Held
<1>8. CASE Interrupted(r) \/ Fails(r)
  BY <1>8, FinishKeeps DEF Interrupted, Fails, Interruptible
<1> QED
  BY <1>1, <1>2, <1>3, <1>4, <1>5, <1>6, <1>7, <1>8 DEF RunStep, Proceeds

LEMMA WriterKeeps ==
    ASSUME WindowInv, NEW r \in Runs, WriterStep(r)
    PROVE  WindowInv'
<1>1. /\ OneMoves(r)
      /\ runs[r].writer \in {"idle", "sending"}
      /\ runs'[r].phase = runs[r].phase
      /\ runs'[r].writer \in {"idle", "sending", "ended"}
      /\ \/ input' = input /\ runs'[r].item = Nothing
         \/ input # <<>> /\ input' = Tail(input) /\ runs'[r].item = Head(input)
      /\ UNCHANGED <<rendering, acknowledged, size, questions, fields, browser, ending>>
      /\ remote' \in Sizes
  BY WriterMoves DEF WindowInv
<1>2. runs[r].phase \notin Before /\ runs[r].phase # "ended" /\ Live(r) /\ r = running
  BY <1>1 DEF WindowInv, RunsInv, Before, Live
<1>3. input \in Seq(Messages) /\ Len(input) <= InputCapacity
  BY DEF WindowInv, TypeOK
<1>4. /\ input' \in Seq(Messages) /\ Len(input') <= InputCapacity
      /\ \A i \in 1..Len(input') : input'[i].to = running
      /\ runs'[r].item.to \in {0, r}
  <2>1. \A i \in 1..Len(input) : input[i].to = running
    BY DEF WindowInv, InputInv
  <2>2. CASE input' = input /\ runs'[r].item = Nothing
    BY <1>3, <2>1, <2>2 DEF Nothing
  <2>3. CASE input # <<>> /\ input' = Tail(input) /\ runs'[r].item = Head(input)
    <3>1. /\ Tail(input) \in Seq(Messages) /\ Len(Tail(input)) = Len(input) - 1
          /\ \A i \in 1..Len(Tail(input)) : Tail(input)[i] = input[i + 1]
          /\ Head(input) = input[1]
      BY <1>3, <2>3, HeadTailProperties
    <3>2. Len(input) \in Nat /\ Len(input) # 0 /\ InputCapacity \in Nat
      BY <1>3, <2>3, EmptySeq
    <3>3. \A i \in 1..Len(Tail(input)) : i + 1 \in 1..Len(input)
      BY <3>1, <3>2
    <3>4. 1 \in 1..Len(input) /\ Len(Tail(input)) <= InputCapacity
      BY <1>3, <3>1, <3>2
    <3> QED
      BY <1>2, <2>1, <2>3, <3>1, <3>3, <3>4
  <2> QED
    BY <1>1, <2>2, <2>3
<1>5. InputInv'
  BY <1>1, <1>4 DEF WindowInv, InputInv, InputToOwnSession, OneMoves, Same, fields
<1>6. TypeOK'
  BY <1>1, <1>4 DEF WindowInv, TypeOK, OneMoves, fields, browser, ending
<1>7. /\ UNCHANGED <<running, cancellation, restarting, ending, session, open>>
      /\ UNCHANGED <<rendering, acknowledged>>
  BY <1>1 DEF fields
<1> QED
  BY <1>1, <1>2, <1>5, <1>6, <1>7, OneMovesInv DEF WindowInv, Live

(* What the user and the browser do.                                         *)
LEMMA HandledKeeps ==
    ASSUME WindowInv, Handled
    PROVE  WindowInv'
<1>1. /\ NoneMoves
      /\ input' \in Seq(Messages) /\ Len(input') <= InputCapacity
      /\ \/ UNCHANGED input
         \/ /\ session # 0
            /\ \E what \in Sizes \cup {Typed} :
                  input' = Append(input, [to |-> session, what |-> what])
      /\ size' \in Sizes /\ questions' \in Seq({"message", "toolbar"})
      /\ UNCHANGED <<rendering, acknowledged, remote, fields, browser, ending>>
  BY HandledStep DEF WindowInv
<1>2. /\ UNCHANGED <<rendering, acknowledged, running, cancellation, session, open, restarting>>
      /\ UNCHANGED <<stops, closing, closeTask, drained>>
  BY <1>1 DEF fields, ending
<1>3. TypeOK'
  BY <1>1 DEF WindowInv, TypeOK, NoneMoves, fields, browser, ending
<1>4. InputInv'
  <2>1. CASE UNCHANGED input
    BY <1>1, <1>2, <2>1, NoneMovesInv
  <2>2. ASSUME NEW what \in Sizes \cup {Typed}, session # 0,
               input' = Append(input, [to |-> session, what |-> what])
        PROVE  InputInv'
    <3>1. input \in Seq(Messages) /\ session = running
      BY <2>2, SessionRuns DEF WindowInv, TypeOK
    <3>2. \A i \in 1..Len(input) : input[i].to = running
      BY DEF WindowInv, InputInv
    <3>3. \A i \in 1..Len(input') : input'[i].to = running
      <4>1. /\ Len(input') = Len(input) + 1
            /\ \A i \in 1..Len(input) : input'[i] = input[i]
            /\ input'[Len(input) + 1] = [to |-> session, what |-> what]
        BY <2>2, <3>1
      <4>2. \A i \in 1..Len(input') : i \in 1..Len(input) \/ i = Len(input) + 1
        BY <3>1, <4>1
      <4> QED
        BY <3>1, <3>2, <4>1, <4>2
    <3> QED
      BY <1>1, <1>2, <3>3 DEF WindowInv, InputInv, InputToOwnSession, NoneMoves, Same
  <2> QED
    BY <1>1, <2>1, <2>2
<1> QED
  BY <1>1, <1>2, <1>3, <1>4, NoneMovesInv DEF WindowInv

LEMMA BrowserKeeps ==
    ASSUME WindowInv,
           \/ InitializationEnds \/ RendererFails \/ Acknowledge \/ CloseInitialized \/ CloseAgain
           \/ \E newSize \in Sizes : ReceiveReady(newSize)
    PROVE  WindowInv'
<1>0. TypeOK
  BY DEF WindowInv
<1>1. CASE InitializationEnds
  <2>1. NoneMoves
    BY <1>0, <1>1, UnchangedMovesNone DEF InitializationEnds
  <2>2. TypeOK'
    BY <1>0, <1>1 DEF TypeOK, InitializationEnds, fields, io, ending
  <2> QED
    BY <1>1, <2>1, <2>2, NoneMovesInv DEF WindowInv, InitializationEnds, fields, io, ending
<1>2. CASE RendererFails
  <2>1. NoneMoves
    BY <1>0, <1>2, CancelMovesNone DEF RendererFails
  <2>2. TypeOK'
    BY <1>0, <1>2, <2>1 DEF TypeOK, RendererFails, NoneMoves, fields, io, ending
  <2> QED
    BY <1>2, <2>1, <2>2, NoneMovesInv DEF WindowInv, RendererFails, fields, io, ending
<1>3. CASE \E newSize \in Sizes : ReceiveReady(newSize)
  <2>1. /\ size' \in Sizes
        /\ UNCHANGED <<runs, input, rendering, acknowledged, remote, questions, fields, browser,
                       ending>>
    BY <1>3 DEF ReceiveReady
  <2>2. NoneMoves
    BY <1>0, <2>1, UnchangedMovesNone
  <2>3. TypeOK'
    BY <1>0, <2>1 DEF TypeOK, fields, browser, ending
  <2> QED
    BY <2>1, <2>2, <2>3, NoneMovesInv DEF WindowInv, fields, ending
<1>4. CASE Acknowledge
  <2>1. /\ rendering # <<>> /\ rendering' = Tail(rendering)
        /\ acknowledged' = (acknowledged \/ Current)
        /\ UNCHANGED <<input, size, remote, questions, runs, fields, browser, ending>>
    BY <1>4 DEF Acknowledge
  <2>2. rendering \in Seq(Runs) /\ acknowledged \in BOOLEAN
    BY <1>0 DEF TypeOK
  <2>3. /\ rendering' \in Seq(Runs) /\ Len(rendering') = Len(rendering) - 1
        /\ \A i \in 1..Len(rendering') : rendering'[i] = rendering[i + 1]
    BY <2>1, <2>2, HeadTailProperties
  <2>4. \A i \in 1..Len(rendering') : i + 1 \in 1..Len(rendering)
    BY <2>2, <2>3
  <2>5. acknowledged' \in BOOLEAN
    BY <2>1, <2>2
  <2>6. acknowledged' => rendering' = <<>>
    <3>1. ~acknowledged
      BY <2>1 DEF WindowInv, ChunkInv
    <3>2. acknowledged' => Len(rendering') = 0
      BY <2>1, <2>2, <2>3, <3>1 DEF Current
    <3> QED
      BY <2>3, <3>2, EmptySeq
  <2>7. \A i \in 1..Len(rendering') :
           rendering'[i] \in Runs /\ runs'[rendering'[i]] = runs[rendering'[i]]
    BY <2>1, <2>3, ElementOfSeq
  <2>8. OneChunkInFlight'
    <3>1. \A i, j \in 1..Len(rendering) : rendering[i] = rendering[j] => i = j
      BY DEF WindowInv, ChunkInv, OneChunkInFlight
    <3> SUFFICES ASSUME NEW i \in 1..Len(rendering'), NEW j \in 1..Len(rendering'),
                        rendering'[i] = rendering'[j]
                 PROVE  i = j
      BY DEF OneChunkInFlight
    <3>2. i + 1 = j + 1
      BY <2>3, <2>4, <3>1
    <3> QED
      BY <3>2
  <2>9. \A i \in 1..Len(rendering') : runs'[rendering'[i]].phase \notin Before \cup {"reading"}
    BY <2>1, <2>3, <2>4 DEF WindowInv, ChunkInv
  <2>10. ChunkInv'
    BY <2>6, <2>8, <2>9 DEF ChunkInv
  <2>11. NoneMoves
    BY <1>0, <2>1, UnchangedMovesNone
  <2>12. TypeOK'
    BY <1>0, <2>1, <2>3, <2>5 DEF TypeOK, fields, browser, ending
  <2> QED
    BY <2>1, <2>10, <2>11, <2>12, NoneMovesInv DEF WindowInv, fields, ending
<1>5. CASE CloseInitialized
  <2>1. /\ closeTask = "initializing" /\ Ended(FALSE)
        /\ UNCHANGED <<runs, fields, io, browser, stops, closing>>
    BY <1>5 DEF CloseInitialized
  <2>2. closeTask' = "closed" /\ drained' = TRUE /\ window' = "shut"
    BY <2>1 DEF Ended
  <2>3. NoneMoves
    BY <1>0, <2>1, UnchangedMovesNone
  <2>4. TypeOK'
    BY <1>0, <2>1, <2>2 DEF TypeOK, fields, io, browser
  <2>5. CloseInv'
    BY <2>1, <2>2 DEF WindowInv, CloseInv, Live
  <2> QED
    BY <2>1, <2>3, <2>4, <2>5, NoneMovesInv DEF WindowInv, fields, io
<1>6. CASE CloseAgain
  <2>1. /\ window' = "shut"
        /\ UNCHANGED <<runs, fields, io, browser, stops, closing, closeTask, drained>>
    BY <1>6 DEF CloseAgain
  <2>2. NoneMoves
    BY <1>0, <2>1, UnchangedMovesNone
  <2>3. TypeOK'
    BY <1>0, <2>1 DEF TypeOK, fields, io, browser
  <2> QED
    BY <2>1, <2>2, <2>3, NoneMovesInv DEF WindowInv, fields, io
<1> QED
  BY <1>1, <1>2, <1>3, <1>4, <1>5, <1>6

-----------------------------------------------------------------------------
(* The stops.                                                                *)
NoneLive == \A r \in Runs : ~Live(r)

LEMMA NotWaiting ==
    ASSUME WindowInv, running = 0 \/ runs[running].phase = "ended"
    PROVE  NoneLive /\ session = 0
<1>1. NoneLive
  BY DEF WindowInv, RunsInv, NoneLive, Live, Runs
<1> QED
  BY <1>1, SessionRuns DEF NoneLive

LEMMA StopTypes ==
    ASSUME TypeOK
    PROVE  /\ stops \in Seq(Stop)
           /\ \A i \in 1..Len(stops) : /\ stops[i] \in Stop
                                       /\ stops[i].stopping # 0 => stops[i].stopping \in Runs
<1>1. stops \in Seq(Stop) /\ \A i \in 1..Len(stops) : stops[i] \in Stop
  BY ElementOfSeq DEF TypeOK
<1> QED
  BY <1>1 DEF Stop, Runs

(* A stop begins to wait.                                                    *)
LEMMA StopWaitsInv ==
    ASSUME WindowInv, NEW kind \in {"reconnect", "disconnect", "close"}, StopWaits, Wait(kind),
           UNCHANGED <<running, cancellation>>,
           restarting => restarting', closeTask = "stopping" => closeTask' = "stopping",
           kind = "reconnect" => ~restarting /\ restarting',
           kind = "close" => closeTask = "none" /\ closeTask' = "stopping"
    PROVE  NoneMoves /\ stops' \in Seq(Stop) /\ StopInv'
<1>1. TypeOK /\ StopInv
  BY DEF WindowInv
<1>2. NoneMoves /\ stops' \in Seq(Stop) /\ running \in Runs
  BY <1>1, WaitStep
<1> DEFINE new == [kind |-> kind, stopping |-> cancellation, task |-> running]
<1>3. /\ stops' = Append(stops, new) /\ stops \in Seq(Stop)
      /\ new.kind = kind /\ new.stopping = cancellation /\ new.task = running
  BY <1>1 DEF Wait, TypeOK
<1>4. cancellation # 0 => runs'[cancellation].cancelled
  BY <1>1, CancelledRuns DEF Wait, TypeOK
<1> HIDE DEF new
<1>5. /\ Len(stops') = Len(stops) + 1 /\ Len(stops) \in Nat
      /\ \A i \in 1..Len(stops) : stops'[i] = stops[i]
      /\ stops'[Len(stops) + 1] = new
  BY <1>2, <1>3
<1>6. \A i \in 1..Len(stops') : i \in 1..Len(stops) \/ i = Len(stops) + 1
  BY <1>5
<1>7. \A i \in 1..Len(stops) : stops[i].stopping # 0 => runs'[stops[i].stopping].cancelled
  BY <1>1, <1>2, StopTypes DEF StopInv, NoneMoves, Same
<1>8. \A i \in 1..Len(stops) : stops[i].kind = kind => kind = "disconnect"
  BY <1>1 DEF StopInv
<1>9. ASSUME NEW i \in 1..Len(stops')
      PROVE  /\ stops'[i].stopping # 0 => runs'[stops'[i].stopping].cancelled
             /\ stops'[i].kind = "reconnect" => restarting' /\ stops'[i].task = running'
             /\ stops'[i].kind = "close" => closeTask' = "stopping" /\ stops'[i].task = running'
  <2>1. CASE i \in 1..Len(stops)
    BY <1>1, <1>5, <1>7, <2>1 DEF StopInv
  <2>2. CASE i = Len(stops) + 1
    BY <1>3, <1>4, <1>5, <2>2
  <2> QED
    BY <1>6, <2>1, <2>2
<1>10. ASSUME NEW i \in 1..Len(stops'), NEW j \in 1..Len(stops'),
              stops'[i].kind = stops'[j].kind, stops'[i].kind # "disconnect"
       PROVE  i = j
  <2>1. CASE i \in 1..Len(stops) /\ j \in 1..Len(stops)
    BY <1>1, <1>5, <1>10, <2>1 DEF StopInv
  <2>2. CASE i \in 1..Len(stops) /\ j = Len(stops) + 1
    BY <1>3, <1>5, <1>8, <1>10, <2>2
  <2>3. CASE i = Len(stops) + 1 /\ j \in 1..Len(stops)
    BY <1>3, <1>5, <1>8, <1>10, <2>3
  <2> QED
    BY <1>6, <2>1, <2>2, <2>3
<1> QED
  BY <1>2, <1>9, <1>10, Zenon DEF StopInv

(* What the stops left are like when the first has resumed.                  *)
LEMMA StopsLeft ==
    ASSUME WindowInv, NEW kind, Resumes(kind)
    PROVE  /\ stops' \in Seq(Stop)
           /\ \A i \in 1..Len(stops') :
                 /\ stops'[i] = stops[i + 1] /\ i + 1 \in 1..Len(stops)
                 /\ stops'[i].kind = kind => kind = "disconnect"
           /\ kind # "disconnect" => Head(stops).task = running /\ NoneLive /\ session = 0
           /\ kind = "reconnect" => restarting
           /\ kind = "close" => closeTask = "stopping"
           /\ Released(Head(stops)) \in {cancellation, 0}
           /\ Released(Head(stops)) # cancellation =>
                 cancellation \in Runs /\ runs[cancellation].cancelled
<1>1. TypeOK /\ StopInv
  BY DEF WindowInv
<1>2. /\ stops # <<>> /\ Head(stops) \in Stop /\ Head(stops).kind = kind
      /\ runs[Head(stops).task].phase = "ended"
      /\ stops' = Tail(stops) /\ stops' \in Seq(Stop)
  BY <1>1, ResumeStep
<1>3. stops \in Seq(Stop) /\ Len(stops) \in Nat /\ Len(stops) # 0
  BY <1>1, <1>2, EmptySeq DEF TypeOK
<1>4. /\ Head(stops) = stops[1] /\ 1 \in 1..Len(stops)
      /\ Len(stops') = Len(stops) - 1
      /\ \A i \in 1..Len(stops') : stops'[i] = stops[i + 1]
  BY <1>2, <1>3, HeadTailProperties
<1>5. \A i \in 1..Len(stops') : i + 1 \in 1..Len(stops) /\ i + 1 # 1
  BY <1>3, <1>4
<1>6. \A i \in 1..Len(stops') : stops'[i].kind = kind => kind = "disconnect"
  BY <1>1, <1>2, <1>4, <1>5 DEF StopInv
<1>7. /\ kind \in {"reconnect", "close"} => Head(stops).task = running
      /\ kind = "reconnect" => restarting
      /\ kind = "close" => closeTask = "stopping"
      /\ Head(stops).stopping # 0 => runs[Head(stops).stopping].cancelled
  BY <1>1, <1>2, <1>4 DEF StopInv
<1>8. kind # "disconnect" => Head(stops).task = running /\ NoneLive /\ session = 0
  <2>1. kind \in {"reconnect", "disconnect", "close"}
    BY <1>2 DEF Stop
  <2> QED
    BY <1>2, <1>7, <2>1, NotWaiting
<1>9. /\ Released(Head(stops)) \in {cancellation, 0}
      /\ Released(Head(stops)) # cancellation =>
            cancellation \in Runs /\ runs[cancellation].cancelled
  BY <1>1, <1>7 DEF Released, TypeOK, Runs
<1> QED
  BY <1>2, <1>4, <1>5, <1>6, <1>7, <1>8, <1>9

(* Two stops of the same kind wait only to disconnect.                       *)
LEMMA OneOfAKind ==
    ASSUME StopInv, NEW i \in 1..Len(stops), NEW j \in 1..Len(stops),
           stops[i].kind = stops[j].kind, stops[i].kind # "disconnect"
    PROVE  i = j
  BY DEF StopInv

(* The stops left keep the invariant, unless the first changes what they     *)
(* rely on.                                                                  *)
LEMMA StopsLeftInv ==
    ASSUME WindowInv, NEW kind, Resumes(kind), UNCHANGED runs, UNCHANGED running,
           kind # "reconnect" => UNCHANGED restarting,
           kind # "close" => UNCHANGED closeTask
    PROVE  StopInv'
<1>1. /\ \A i \in 1..Len(stops') :
            /\ stops'[i] = stops[i + 1] /\ i + 1 \in 1..Len(stops)
            /\ stops'[i].kind = kind => kind = "disconnect"
  BY StopsLeft
<1>2. StopInv
  BY DEF WindowInv
<1>3. ASSUME NEW i \in 1..Len(stops')
      PROVE  /\ stops'[i].stopping # 0 => runs'[stops'[i].stopping].cancelled
             /\ stops'[i].kind = "reconnect" => restarting' /\ stops'[i].task = running'
             /\ stops'[i].kind = "close" => closeTask' = "stopping" /\ stops'[i].task = running'
  BY <1>1, <1>2, <1>3 DEF StopInv
<1>4. ASSUME NEW i \in 1..Len(stops'), NEW j \in 1..Len(stops'),
             stops'[i].kind = stops'[j].kind, stops'[i].kind # "disconnect"
      PROVE  i = j
  <2>1. /\ i + 1 \in 1..Len(stops) /\ j + 1 \in 1..Len(stops)
        /\ stops'[i] = stops[i + 1] /\ stops'[j] = stops[j + 1]
    BY <1>1, <1>4
  <2>2. stops[i + 1].kind = stops[j + 1].kind /\ stops[i + 1].kind # "disconnect"
    BY <1>4, <2>1
  <2>3. i + 1 = j + 1
    BY <1>2, <2>1, <2>2, OneOfAKind
  <2> QED
    BY <2>3
<1> QED
  BY <1>3, <1>4, Zenon DEF StopInv

(* A run is started while none is live and the window does not close.        *)
LEMMA StartKeeps ==
    ASSUME WindowInv, NoneLive, session = 0, ~closing, StartRun,
           UNCHANGED <<session, open, rendering, acknowledged, size, remote, questions, closing,
                       closeTask, drained, window>>,
           restarting' \in BOOLEAN, stops' \in Seq(Stop),
           \A i \in 1..Len(stops') : \E j \in 1..Len(stops) : stops'[i] = stops[j],
           \A i \in 1..Len(stops') : stops'[i].kind # "reconnect"
    PROVE  WindowInv'
<1>1. PICK r \in Runs :
         /\ OneMoves(r) /\ runs[r].phase = "unused"
         /\ runs'[r].writer = runs[r].writer /\ runs'[r].item = runs[r].item
         /\ runs'[r].phase \in {"preparing", "connecting", "ended"}
         /\ cancellation' = r /\ running' = r /\ input' = <<>>
         /\ initialization' \in {"running", "ready", "failed"}
         /\ requiresReopen' \in BOOLEAN
  BY StartStep DEF WindowInv
<1>2. /\ runs' \in [Runs -> Run] /\ \A x \in Runs : x # r => Same(x)
      /\ runs[r].cancelled => runs'[r].cancelled
  BY <1>1 DEF OneMoves
<1>3. Len(<<>>) = 0 /\ 1..Len(input') = {}
  BY <1>1, EmptySeq
<1>4. TypeOK'
  <2>1. input' \in Seq(Messages) /\ Len(input') <= InputCapacity /\ r \in 0..MaxRuns
    BY <1>1, <1>3, EmptySeq DEF Runs
  <2>2. runs' \in [Runs -> Run] /\ initialization' \in {"none", "running", "ready", "failed"}
    BY <1>1, <1>2
  <2> QED
    BY <1>1, <2>1, <2>2 DEF WindowInv, TypeOK
<1>5. RunsInv'
  <2> SUFFICES ASSUME NEW x \in Runs
               PROVE  /\ Live(x)' => x = running'
                      /\ runs'[x].phase = "unused" => ~runs'[x].cancelled /\ cancellation' # x
                      /\ runs'[x].phase \in Before => runs'[x].writer = "none"
                      /\ runs'[x].phase = "ended" => runs'[x].writer \in {"none", "ended"}
    BY DEF RunsInv, Live
  <2>1. /\ ~Live(x)
        /\ runs[x].phase = "unused" => ~runs[x].cancelled /\ cancellation # x
        /\ runs[x].phase \in Before => runs[x].writer = "none"
        /\ runs[x].phase = "ended" => runs[x].writer \in {"none", "ended"}
    BY DEF WindowInv, RunsInv, NoneLive
  <2>2. CASE x = r
    BY <1>1, <2>1, <2>2 DEF Before
  <2>3. CASE x # r
    BY <1>1, <1>2, <2>1, <2>3 DEF Same, Live
  <2> QED
    BY <2>2, <2>3
<1>6. SessionInv'
  BY <1>1, <1>2 DEF WindowInv, SessionInv, OneSession, Same, Held
<1>7. ChunkInv'
  <2>1. rendering \in Seq(Runs) /\ \A i \in 1..Len(rendering) : rendering[i] \in Runs
    BY ElementOfSeq DEF WindowInv, TypeOK
  <2>2. \A i \in 1..Len(rendering) : /\ rendering[i] # r
                                     /\ runs[rendering[i]].phase \notin Before \cup {"reading"}
    BY <1>1 DEF WindowInv, ChunkInv, Before
  <2> QED
    BY <1>2, <2>1, <2>2 DEF WindowInv, ChunkInv, OneChunkInFlight, Same
<1>8. InputInv'
  BY <1>1, <1>2, <1>3 DEF WindowInv, InputInv, InputToOwnSession, Same
<1>9. StopReachesRun'
  BY <1>1, <1>2 DEF StopReachesRun, NoneLive, Same, Live
<1>10. StopInv'
  <2>1. closeTask = "none"
    BY DEF WindowInv, CloseInv
  <2>2. ASSUME NEW i \in 1..Len(stops')
        PROVE  /\ stops'[i].stopping # 0 => runs'[stops'[i].stopping].cancelled
               /\ stops'[i].kind = "disconnect"
    <3>1. PICK j \in 1..Len(stops) : stops'[i] = stops[j]
      BY <2>2
    <3>2. stops[j].kind \in {"reconnect", "disconnect", "close"}
      BY StopTypes DEF WindowInv, Stop
    <3>3. stops[j].kind # "close"
      BY <2>1 DEF WindowInv, StopInv
    <3>4. /\ stops[j].stopping # 0 => stops[j].stopping \in Runs
          /\ stops[j].stopping # 0 => runs[stops[j].stopping].cancelled
      BY StopTypes DEF WindowInv, StopInv
    <3> QED
      BY <1>2, <3>1, <3>2, <3>3, <3>4 DEF Same
  <2> QED
    BY <2>2, Zenon DEF StopInv
<1>11. CloseInv'
  BY DEF WindowInv, CloseInv
<1> QED
  BY <1>4, <1>5, <1>6, <1>7, <1>8, <1>9, <1>10, <1>11 DEF WindowInv

LEMMA ReconnectKeeps ==
    ASSUME WindowInv, Reconnect
    PROVE  WindowInv'
<1>1. /\ ~closing /\ ~restarting
      /\ UNCHANGED <<session, open, rendering, acknowledged, size, remote, questions, closing,
                     closeTask, drained, window>>
  BY DEF Reconnect, MayReconnect
<1>2. CASE /\ StopWaits /\ Wait("reconnect") /\ restarting' = TRUE
           /\ UNCHANGED <<input, running, cancellation, browser>>
  <2>1. NoneMoves /\ stops' \in Seq(Stop) /\ StopInv'
    BY <1>1, <1>2, StopWaitsInv
  <2>2. TypeOK'
    BY <1>1, <1>2, <2>1 DEF WindowInv, TypeOK, NoneMoves, browser
  <2> QED
    BY <1>1, <1>2, <2>1, <2>2, NoneMovesInv DEF WindowInv
<1>3. CASE ~StopWaits /\ StartRun /\ UNCHANGED <<stops, restarting>>
  <2>1. NoneLive /\ session = 0
    BY <1>3, NotWaiting DEF StopWaits, Loaded
  <2>2. \A i \in 1..Len(stops) : stops[i].kind # "reconnect"
    BY <1>1 DEF WindowInv, StopInv
  <2>3. stops \in Seq(Stop) /\ restarting \in BOOLEAN
    BY DEF WindowInv, TypeOK
  <2> QED
    BY <1>1, <1>3, <2>1, <2>2, <2>3, StartKeeps
<1> QED
  BY <1>2, <1>3 DEF Reconnect

LEMMA DisconnectKeeps ==
    ASSUME WindowInv, Disconnect
    PROVE  WindowInv'
<1>1. /\ Loaded
      /\ UNCHANGED <<running, session, open, restarting, io, browser, closing, closeTask, drained,
                     window>>
  BY DEF Disconnect
<1>2. CASE StopWaits /\ Wait("disconnect") /\ UNCHANGED cancellation
  <2>1. NoneMoves /\ stops' \in Seq(Stop) /\ StopInv'
    BY <1>1, <1>2, StopWaitsInv
  <2>2. TypeOK'
    BY <1>1, <1>2, <2>1 DEF WindowInv, TypeOK, NoneMoves, io, browser
  <2> QED
    BY <1>1, <1>2, <2>1, <2>2, NoneMovesInv DEF WindowInv, io
<1>3. CASE ~StopWaits /\ cancellation' = 0 /\ UNCHANGED <<stops, runs>>
  <2>1. NoneMoves
    BY <1>3, UnchangedMovesNone DEF WindowInv
  <2>2. TypeOK'
    BY <1>1, <1>3, <2>1 DEF WindowInv, TypeOK, NoneMoves, io, browser
  <2>3. StopReachesRun'
    BY <1>1, <1>3, NotWaiting DEF StopWaits, NoneLive, StopReachesRun, Live
  <2> QED
    BY <1>1, <1>3, <2>1, <2>2, <2>3, NoneMovesInv DEF WindowInv, io
<1> QED
  BY <1>2, <1>3 DEF Disconnect

LEMMA ResumeKeeps ==
    ASSUME WindowInv, Resume
    PROVE  WindowInv'
<1>1. CASE ResumeReconnect
  <2>1. /\ Resumes("reconnect") /\ restarting' = FALSE
        /\ UNCHANGED <<session, open, rendering, acknowledged, size, remote, questions, closing,
                       closeTask, drained, window>>
    BY <1>1 DEF ResumeReconnect
  <2>2. /\ stops' \in Seq(Stop)
        /\ \A i \in 1..Len(stops') :
              /\ stops'[i] = stops[i + 1] /\ i + 1 \in 1..Len(stops)
              /\ stops'[i].kind # "reconnect"
        /\ NoneLive /\ session = 0
        /\ Released(Head(stops)) \in {cancellation, 0}
    BY <2>1, StopsLeft
  <2>3. CASE ~closing /\ StartRun
    BY <2>1, <2>2, <2>3, StartKeeps
  <2>4. CASE /\ cancellation' = Released(Head(stops))
             /\ UNCHANGED <<runs, running, input, browser>>
    <3>1. NoneMoves
      BY <2>4, UnchangedMovesNone DEF WindowInv
    <3>2. TypeOK'
      BY <2>1, <2>2, <2>4, <3>1 DEF WindowInv, TypeOK, NoneMoves, browser
    <3>3. StopInv'
      BY <2>1, <2>4, StopsLeftInv
    <3>4. StopReachesRun'
      BY <2>2, <2>4 DEF NoneLive, StopReachesRun, Live
    <3> QED
      BY <2>1, <2>2, <2>4, <3>1, <3>2, <3>3, <3>4, NoneMovesInv DEF WindowInv
  <2> QED
    BY <1>1, <2>3, <2>4 DEF ResumeReconnect, MayStart
<1>2. CASE ResumeDisconnect
  <2>1. /\ Resumes("disconnect") /\ cancellation' = Released(Head(stops))
        /\ UNCHANGED <<runs, running, session, open, restarting, io, browser, closing, closeTask,
                       drained, window>>
    BY <1>2 DEF ResumeDisconnect
  <2>2. /\ stops' \in Seq(Stop) /\ cancellation' \in {cancellation, 0}
        /\ cancellation' # cancellation => cancellation \in Runs /\ runs[cancellation].cancelled
    BY <2>1, StopsLeft
  <2>3. NoneMoves
    BY <2>1, UnchangedMovesNone DEF WindowInv
  <2>4. TypeOK'
    BY <2>1, <2>2, <2>3 DEF WindowInv, TypeOK, NoneMoves, io, browser
  <2>5. StopInv'
    BY <2>1, StopsLeftInv
  <2>6. StopReachesRun'
    BY <2>1, <2>2 DEF WindowInv, StopReachesRun, Live
  <2> QED
    BY <2>1, <2>2, <2>3, <2>4, <2>5, <2>6, NoneMovesInv DEF WindowInv, io
<1>3. CASE ResumeClose
  <2>1. /\ Resumes("close") /\ cancellation' = Released(Head(stops)) /\ AfterStop(FALSE)
        /\ UNCHANGED <<runs, running, session, open, restarting, io, browser, closing>>
    BY <1>3 DEF ResumeClose
  <2>2. /\ stops' \in Seq(Stop) /\ cancellation' \in {cancellation, 0}
        /\ NoneLive /\ closeTask = "stopping"
    BY <2>1, StopsLeft
  <2>3. /\ closeTask' \in {"initializing", "closed", "faulted"}
        /\ drained' \in BOOLEAN /\ window' \in {"open", "shut"}
        /\ drained' => drained \/ closeTask' \in {"closed", "faulted"}
    BY <2>1, EndTypes DEF WindowInv
  <2>4. NoneMoves
    BY <2>1, UnchangedMovesNone DEF WindowInv
  <2>5. TypeOK'
    BY <2>1, <2>2, <2>3, <2>4 DEF WindowInv, TypeOK, NoneMoves, io, browser
  <2>6. StopInv'
    BY <2>1, StopsLeftInv
  <2>7. StopReachesRun'
    BY <2>1, <2>2 DEF NoneLive, StopReachesRun, Live
  <2>8. CloseInv'
    BY <2>1, <2>2, <2>3 DEF WindowInv, CloseInv, NoneLive, Live
  <2> QED
    BY <2>1, <2>2, <2>4, <2>5, <2>6, <2>7, <2>8, NoneMovesInv DEF WindowInv, io
<1> QED
  BY <1>1, <1>2, <1>3 DEF Resume

LEMMA CloseKeeps ==
    ASSUME WindowInv, NEW insideEvent \in BOOLEAN, CloseSession(insideEvent)
    PROVE  WindowInv'
<1>1. /\ Loaded /\ closeTask = "none" /\ closing' = TRUE
      /\ UNCHANGED <<running, session, open, restarting, io, browser>>
  BY DEF CloseSession
<1>2. ~drained
  BY <1>1 DEF WindowInv, CloseInv
<1>3. CASE /\ StopWaits /\ Wait("close") /\ closeTask' = "stopping"
           /\ UNCHANGED <<cancellation, drained, window>>
  <2>1. NoneMoves /\ stops' \in Seq(Stop) /\ StopInv'
    BY <1>1, <1>3, StopWaitsInv
  <2>2. TypeOK'
    BY <1>1, <1>3, <2>1 DEF WindowInv, TypeOK, NoneMoves, io, browser
  <2>3. CloseInv'
    BY <1>1, <1>2, <1>3 DEF CloseInv
  <2> QED
    BY <1>1, <1>3, <2>1, <2>2, <2>3, NoneMovesInv DEF WindowInv, io
<1>4. CASE ~StopWaits /\ cancellation' = 0 /\ AfterStop(insideEvent) /\ UNCHANGED <<stops, runs>>
  <2>1. NoneMoves
    BY <1>4, UnchangedMovesNone DEF WindowInv
  <2>2. /\ closeTask' \in {"initializing", "closed", "faulted"}
        /\ drained' \in BOOLEAN /\ window' \in {"open", "shut"}
        /\ drained' => drained \/ closeTask' \in {"closed", "faulted"}
    BY <1>4, EndTypes DEF WindowInv
  <2>3. TypeOK'
    BY <1>1, <1>4, <2>1, <2>2 DEF WindowInv, TypeOK, NoneMoves, io, browser
  <2>4. NoneLive
    BY <1>1, <1>4, NotWaiting DEF StopWaits
  <2>5. StopReachesRun'
    BY <1>4, <2>4 DEF NoneLive, StopReachesRun, Live
  <2>6. CloseInv'
    BY <1>1, <1>2, <1>4, <2>2, <2>4 DEF CloseInv, NoneLive, Live
  <2> QED
    BY <1>1, <1>4, <2>1, <2>3, <2>5, <2>6, NoneMovesInv DEF WindowInv, io
<1> QED
  BY <1>3, <1>4 DEF CloseSession

-----------------------------------------------------------------------------
LEMMA InitInv == Init => WindowInv
<1> SUFFICES ASSUME Init
             PROVE  WindowInv
  OBVIOUS
<1>1. \A r \in Runs : /\ runs[r].phase = "unused" /\ ~runs[r].cancelled
                      /\ runs[r].item = Nothing /\ runs[r].writer = "none"
  BY DEF Init
<1>2. runs \in [Runs -> Run]
  <2>1. [phase |-> "unused", cancelled |-> FALSE, item |-> Nothing, writer |-> "none"] \in Run
    BY DEF Run, Phases
  <2> QED
    BY <2>1 DEF Init
<1>3. /\ input = <<>> /\ rendering = <<>> /\ questions = <<>> /\ stops = <<>>
      /\ Len(<<>>) = 0 /\ 1..0 = {}
  BY EmptySeq DEF Init
<1>4. TypeOK
  <2>1. Len(input) = 0 /\ InputCapacity \in Nat
    BY <1>3
  <2>2. /\ input \in Seq(Messages) /\ rendering \in Seq(Runs)
        /\ questions \in Seq({"message", "toolbar"}) /\ stops \in Seq(Stop)
    BY <1>3, EmptySeq
  <2>3. {running, cancellation, session} \subseteq 0..MaxRuns /\ open \subseteq Runs
    <3>1. 0 \in 0..MaxRuns
      OBVIOUS
    <3> QED
      BY <3>1 DEF Init
  <2>4. {size, remote} \subseteq Sizes
    BY DEF Init
  <2>5. {acknowledged, requiresReopen, restarting, closing, drained} \subseteq BOOLEAN
    BY Zenon DEF Init
  <2>6. initialization = "none" /\ closeTask = "none" /\ window = "open"
    BY DEF Init
  <2> QED
    BY <1>2, <2>1, <2>2, <2>3, <2>4, <2>5, <2>6 DEF TypeOK
<1>5. RunsInv /\ SessionInv /\ StopReachesRun
  BY <1>1 DEF Init, RunsInv, SessionInv, StopReachesRun, OneSession, Live, Held, Runs
<1>6. ChunkInv /\ StopInv
  BY <1>3, Zenon DEF ChunkInv, OneChunkInFlight, StopInv
<1>7. InputInv
  BY <1>1, <1>3 DEF InputInv, InputToOwnSession, Nothing
<1>8. CloseInv
  BY DEF Init, CloseInv
<1> QED
  BY <1>4, <1>5, <1>6, <1>7, <1>8 DEF WindowInv

LEMMA StutterInv == WindowInv /\ UNCHANGED vars => WindowInv'
<1> SUFFICES ASSUME WindowInv, UNCHANGED vars PROVE WindowInv'
  OBVIOUS
<1> USE DEF vars, fields, io, browser, ending
<1>1. TypeOK'
  BY DEF WindowInv, TypeOK
<1>2. RunsInv' /\ SessionInv'
  BY DEF WindowInv, RunsInv, SessionInv, OneSession, Live
<1>3. ChunkInv' /\ InputInv'
  BY DEF WindowInv, ChunkInv, OneChunkInFlight, InputInv, InputToOwnSession
<1>4. StopReachesRun' /\ StopInv' /\ CloseInv'
  BY DEF WindowInv, StopReachesRun, StopInv, CloseInv, Live
<1> QED
  BY <1>1, <1>2, <1>3, <1>4 DEF WindowInv

LEMMA NextKeeps == WindowInv /\ [Next]_vars => WindowInv'
<1> SUFFICES ASSUME WindowInv, Next
             PROVE  WindowInv'
  BY StutterInv
<1>1. ASSUME NEW r \in Runs, RunStep(r) PROVE WindowInv'
  BY <1>1, RunKeeps
<1>2. ASSUME NEW r \in Runs, WriterStep(r) PROVE WindowInv'
  BY <1>2, WriterKeeps
<1>3. CASE \/ InitializationEnds \/ RendererFails \/ Acknowledge \/ CloseInitialized \/ CloseAgain
           \/ \E newSize \in Sizes : ReceiveReady(newSize)
  BY <1>3, BrowserKeeps
<1>4. CASE Handled
  BY <1>4, HandledKeeps
<1>5. CASE Reconnect
  BY <1>5, ReconnectKeeps
<1>6. CASE Disconnect
  BY <1>6, DisconnectKeeps
<1>7. CASE Resume
  BY <1>7, ResumeKeeps
<1>8. ASSUME NEW insideEvent \in BOOLEAN, CloseSession(insideEvent) PROVE WindowInv'
  BY <1>8, CloseKeeps
<1> QED
  BY <1>1, <1>2, <1>3, <1>4, <1>5, <1>6, <1>7, <1>8, Zenon DEF Next, Handled

(* The invariant the theorems rest on.                                       *)
LEMMA WindowInductive == Spec => []WindowInv
  BY InitInv, NextKeeps, PTL DEF Spec

(* The variables keep their types.                                           *)
THEOREM TypeCorrect == Spec => []TypeOK
<1>1. WindowInv => TypeOK
  BY DEF WindowInv
<1> QED
  BY <1>1, WindowInductive, PTL

(* However Reconnect, Disconnect, closing and failures overlap, there is one *)
(* SSH session at most, and the field that the finally block disposes holds  *)
(* it (RunAsync, StopAsync).                                                 *)
THEOREM OneSessionHolds == Spec => []OneSession
<1>1. WindowInv => OneSession
  BY DEF WindowInv, SessionInv
<1> QED
  BY <1>1, WindowInductive, PTL

(* A live run that is not cancelled is the one the cancellation field        *)
(* reaches, although an earlier StopAsync releases the field when it resumes.*)
THEOREM StopsReachTheRun == Spec => []StopReachesRun
<1>1. WindowInv => StopReachesRun
  BY DEF WindowInv
<1> QED
  BY <1>1, WindowInductive, PTL

(* The renderer holds one chunk of a run at most that it has not             *)
(* acknowledged: a late acknowledgement of an earlier chunk lets no run go on.*)
THEOREM OneChunkHolds == Spec => []OneChunkInFlight
<1>1. WindowInv => OneChunkInFlight
  BY DEF WindowInv, ChunkInv
<1> QED
  BY <1>1, WindowInductive, PTL

(* What was typed for one session is never written to the next one, since    *)
(* each run has a channel of its own (WriteLoopAsync).                       *)
THEOREM InputReachesOwnSession == Spec => []InputToOwnSession
<1>1. WindowInv => InputToOwnSession
  BY DEF WindowInv, InputInv
<1> QED
  BY <1>1, WindowInductive, PTL

(* Once CloseCoreAsync has drained the window, no run is live and no session *)
(* is open (CloseCoreAsync, Reconnect).                                      *)
THEOREM DrainedStaysQuiet == Spec => []DrainedIsQuiet
<1>1. WindowInv => DrainedIsQuiet
  <2> SUFFICES ASSUME WindowInv, drained
               PROVE  open = {} /\ NoneLive
    BY DEF DrainedIsQuiet, NoneLive
  <2>1. NoneLive
    BY DEF WindowInv, CloseInv, NoneLive
  <2>2. session = 0
    BY <2>1, SessionRuns DEF NoneLive
  <2>3. open \subseteq Runs /\ open \subseteq {0} /\ 0 \notin Runs
    BY <2>2 DEF WindowInv, TypeOK, SessionInv, OneSession, Runs
  <2> QED
    BY <2>1, <2>3
<1> QED
  BY <1>1, WindowInductive, PTL

-----------------------------------------------------------------------------
(* The terminal.  To the invariant the mapping adds that the runs are        *)
(* numbered in their order, so that one starts the next connection, and that *)
(* the session of the field is open until the finally block has disposed it. *)
Numbered == \A r \in Runs : runs[r].phase = "unused" <=> r > running
FieldIsOpen == session # 0 => session \in open
Follows == WindowInv /\ Numbered /\ FieldIsOpen
TerminalStep == Numbered' /\ FieldIsOpen' /\ [Terminal!Next]_(Terminal!terminal)

LEMMA OpenIs ==
    ASSUME WindowInv, FieldIsOpen
    PROVE  IF session = 0 THEN open = {} ELSE open = {session}
<1>1. open \subseteq Runs /\ open \subseteq {session} /\ 0 \notin Runs
  BY DEF WindowInv, TypeOK, SessionInv, OneSession, Runs
<1> QED
  BY <1>1 DEF FieldIsOpen

(* A run that is live is the last, whose phase is the stage.                 *)
LEMMA LastIs ==
    ASSUME WindowInv, NEW r \in Runs, Live(r)
    PROVE  /\ r = running /\ running # 0 /\ StageOfLast = Stage[runs[r].phase]
           /\ Told <=> runs[r].cancelled
<1>1. r = running /\ r # 0
  BY DEF WindowInv, RunsInv, Runs
<1> QED
  BY <1>1 DEF StageOfLast, Told

LEMMA NoneLiveIsOff ==
    ASSUME TypeOK, NoneLive
    PROVE  StageOfLast = "off"
<1>1. running # 0 => running \in Runs
  BY DEF TypeOK, Runs
<1>2. running # 0 => runs[running].phase \in {"unused", "ended"}
  BY <1>1 DEF NoneLive, Live
<1> QED
  BY <1>2 DEF StageOfLast, Stage

(* Steps between two awaits that move no run can only tell it to stop.       *)
LEMMA TellMaps ==
    ASSUME Follows, UNCHANGED <<running, session, open, drained>>,
           \A r \in Runs : /\ runs'[r].phase = runs[r].phase
                           /\ runs[r].cancelled => runs'[r].cancelled
    PROVE  TerminalStep
<1>1. running # 0 => running \in Runs
  BY DEF Follows, WindowInv, TypeOK, Runs
<1>2. UNCHANGED StageOfLast
  BY <1>1 DEF StageOfLast
<1>3. (running # 0 /\ Told' = TRUE) \/ UNCHANGED Told
  BY <1>1 DEF Told
<1>4. Terminal!Tell \/ UNCHANGED (Terminal!terminal)
  BY <1>2, <1>3 DEF Terminal!Tell, Terminal!terminal
<1>5. Numbered' /\ FieldIsOpen'
  BY DEF Follows, Numbered, FieldIsOpen
<1> QED
  BY <1>4, <1>5 DEF TerminalStep, Terminal!Next

(* The window is drained while no run is live.                               *)
LEMMA ShutMaps ==
    ASSUME Follows, NoneLive, UNCHANGED <<runs, running, session, open>>,
           drained' = drained \/ drained' = TRUE
    PROVE  TerminalStep
<1>1. StageOfLast = "off" /\ UNCHANGED <<StageOfLast, Told>>
  BY NoneLiveIsOff DEF Follows, WindowInv, StageOfLast, Told
<1>2. session = 0
  BY SessionRuns DEF Follows, NoneLive
<1>3. open = {}
  BY <1>2, OpenIs DEF Follows
<1>4. Terminal!Shut \/ UNCHANGED (Terminal!terminal)
  BY <1>1, <1>3 DEF Terminal!Shut, Terminal!terminal
<1>5. Numbered' /\ FieldIsOpen'
  BY DEF Follows, Numbered, FieldIsOpen
<1> QED
  BY <1>4, <1>5 DEF TerminalStep, Terminal!Next

(* The last run moves from one await to the next.                            *)
LEMMA MoveNumbers ==
    ASSUME Follows, NEW r \in Runs, Live(r), OneMoves(r), UNCHANGED running,
           runs'[r].phase # "unused"
    PROVE  /\ Numbered' /\ r = running /\ running # 0
           /\ StageOfLast = Stage[runs[r].phase] /\ StageOfLast' = Stage[runs'[r].phase]
           /\ (Told <=> runs[r].cancelled) /\ (Told' <=> runs'[r].cancelled)
<1>1. /\ r = running /\ running # 0 /\ StageOfLast = Stage[runs[r].phase]
      /\ Told <=> runs[r].cancelled
  BY LastIs DEF Follows
<1>2. StageOfLast' = Stage[runs'[r].phase] /\ (Told' <=> runs'[r].cancelled)
  BY <1>1 DEF StageOfLast, Told
<1>3. \A x \in Runs : runs'[x].phase = "unused" <=> runs[x].phase = "unused"
  BY DEF OneMoves, Same, Live
<1>4. Numbered'
  BY <1>3 DEF Follows, Numbered
<1> QED
  BY <1>1, <1>2, <1>4

LEMMA MovedMaps ==
    ASSUME Follows, NEW r \in Runs, NEW phase \in Phases \ {"unused"}, Live(r),
           runs' = Moved(r, phase), UNCHANGED running
    PROVE  /\ Numbered' /\ r = running /\ running # 0
           /\ StageOfLast = Stage[runs[r].phase] /\ StageOfLast' = Stage[phase]
           /\ UNCHANGED Told
<1>1. /\ OneMoves(r) /\ runs'[r].phase = phase /\ runs'[r].cancelled = runs[r].cancelled
  BY MovedRuns DEF Follows, WindowInv, OneMoves, Same
<1>2. /\ Numbered' /\ r = running /\ running # 0
      /\ StageOfLast = Stage[runs[r].phase] /\ StageOfLast' = Stage[runs'[r].phase]
      /\ (Told <=> runs[r].cancelled) /\ (Told' <=> runs'[r].cancelled)
  BY <1>1, MoveNumbers
<1> QED
  BY <1>1, <1>2 DEF Told

(* The finally block cancels the token of its run, and disposes the session  *)
(* the run has.                                                              *)
LEMMA FinishMaps ==
    ASSUME Follows, NEW r \in Runs, Finish(r), runs[r].phase \in Interruptible
    PROVE  TerminalStep
<1>1. /\ OneMoves(r)
      /\ runs[r].cancelled => runs'[r].cancelled
      /\ runs'[r].phase = IF session # 0 THEN "disposing" ELSE AfterSession(r)
      /\ UNCHANGED <<running, session, open, drained>>
  BY FinishMoves DEF Follows, WindowInv, fields, ending
<1>2. Live(r)
  BY DEF Live, Interruptible
<1>3. /\ Numbered' /\ r = running
      /\ StageOfLast = Stage[runs[r].phase] /\ StageOfLast' = Stage[runs'[r].phase]
      /\ Told' <=> runs'[r].cancelled
  BY <1>1, <1>2, MoveNumbers DEF AfterSession
<1>4. runs'[r].cancelled
  <2>1. CASE runs[r].cancelled
    BY <1>1, <2>1
  <2>2. CASE ~runs[r].cancelled
    <3>1. cancellation = r
      BY <1>2, <2>2 DEF Follows, WindowInv, StopReachesRun
    <3> DEFINE next == IF session # 0 THEN "disposing" ELSE AfterSession(r)
    <3>2. runs' = Cancelled(Moved(r, next), r) /\ next \in Phases /\ r # 0 /\ r \in 0..MaxRuns
      BY <3>1 DEF Finish, AfterSession, Phases, Runs
    <3> HIDE DEF next
    <3>3. Moved(r, next) \in [Runs -> Run]
      BY <3>2, MovedRuns DEF Follows, WindowInv
    <3> QED
      BY <3>2, <3>3, CancelledRuns
  <2> QED
    BY <2>1, <2>2
<1>5. FieldIsOpen'
  BY <1>1 DEF Follows, FieldIsOpen
<1>6. runs[r].phase \in Held <=> session = r
  BY DEF Follows, WindowInv, SessionInv
<1>7. CASE runs[r].phase \in {"preparing", "connecting"}
  <2>1. session = 0
    BY <1>3, <1>6, <1>7, SessionRuns DEF Follows, Held
  <2>2. runs[r].writer = "none"
    BY <1>7 DEF Follows, WindowInv, RunsInv, Before
  <2>3. StageOfLast = "connecting" /\ StageOfLast' = "off"
    BY <1>1, <1>3, <1>7, <2>1, <2>2 DEF AfterSession, Stage
  <2>4. Terminal!Leave
    BY <1>1, <1>3, <1>4, <2>3 DEF Terminal!Leave
  <2> QED
    BY <1>3, <1>5, <2>4 DEF TerminalStep, Terminal!Next
<1>8. CASE runs[r].phase \in {"starting", "reading", "posting"}
  <2>1. session # 0
    BY <1>6, <1>8 DEF Held, Runs
  <2>2. StageOfLast = "connected" /\ StageOfLast' = "leaving"
    BY <1>1, <1>3, <1>8, <2>1 DEF Stage
  <2>3. Terminal!Leave
    BY <1>1, <1>3, <1>4, <2>2 DEF Terminal!Leave
  <2> QED
    BY <1>3, <1>5, <2>3 DEF TerminalStep, Terminal!Next
<1> QED
  BY <1>7, <1>8 DEF Interruptible

(* The steps of a run: it gets its session, leaves, disposes and ends, and    *)
(* what is between them changes nothing that the contract knows.             *)
LEMMA RunMaps ==
    ASSUME Follows, NEW r \in Runs, RunStep(r)
    PROVE  TerminalStep
<1>0. TypeOK /\ FieldIsOpen /\ (IF session = 0 THEN open = {} ELSE open = {session})
  BY OpenIs DEF Follows, WindowInv
<1>1. ASSUME NEW phase \in {"connecting", "reading", "posting"}, runs' = Moved(r, phase),
             Live(r), Stage[runs[r].phase] = Stage[phase],
             UNCHANGED <<running, session, open, drained>>
      PROVE  TerminalStep
  <2>1. /\ Numbered' /\ StageOfLast = Stage[runs[r].phase] /\ StageOfLast' = Stage[phase]
        /\ UNCHANGED Told
    BY <1>1, MovedMaps DEF Phases
  <2>2. UNCHANGED (Terminal!terminal) /\ FieldIsOpen'
    BY <1>0, <1>1, <2>1 DEF Terminal!terminal, FieldIsOpen
  <2> QED
    BY <2>1, <2>2 DEF TerminalStep
<1>2. CASE Prepared(r)
  BY <1>1, <1>2 DEF Prepared, Live, Stage, fields, ending
<1>3. CASE Output(r)
  BY <1>1, <1>3 DEF Output, Live, Stage, fields, ending
<1>4. CASE Acknowledged(r)
  BY <1>1, <1>4 DEF Acknowledged, Live, Stage, fields, ending
<1>5. CASE Started(r)
  <2>1. /\ runs[r].phase = "starting" /\ runs \in [Runs -> Run] /\ runs[r] \in Run
        /\ runs' = [runs EXCEPT ![r].phase = "reading", ![r].writer = "idle"]
        /\ UNCHANGED <<running, session, open, drained>>
    BY <1>0, <1>5 DEF Started, TypeOK, fields, ending
  <2>2. runs'[r] = [runs[r] EXCEPT !.phase = "reading", !.writer = "idle"]
    BY <2>1
  <2>3. /\ runs'[r] \in Run /\ runs'[r].phase = "reading" /\ runs'[r].cancelled = runs[r].cancelled
    BY <2>1, <2>2 DEF Run, Phases
  <2>4. runs' \in [Runs -> Run] /\ \A x \in Runs : x # r => runs'[x] = runs[x]
    BY <2>1, <2>3
  <2>5. OneMoves(r) /\ Live(r)
    BY <2>1, <2>3, <2>4 DEF OneMoves, Same, Live
  <2>6. /\ Numbered' /\ UNCHANGED StageOfLast /\ (Told' <=> Told)
    BY <2>1, <2>3, <2>5, MoveNumbers DEF Stage
  <2>7. UNCHANGED (Terminal!terminal) /\ FieldIsOpen'
    BY <1>0, <2>1, <2>6 DEF Terminal!terminal, FieldIsOpen, Told
  <2> QED
    BY <2>6, <2>7 DEF TerminalStep
<1>6. CASE Connected(r)
  <2>1. /\ runs[r].phase = "connecting" /\ runs' = Moved(r, "starting") /\ Live(r)
        /\ session' = r /\ open' = open \cup {r} /\ UNCHANGED <<running, drained>>
    BY <1>6 DEF Connected, Live, ending
  <2>2. /\ Numbered' /\ r = running /\ UNCHANGED Told
        /\ StageOfLast = "connecting" /\ StageOfLast' = "connected"
    BY <2>1, MovedMaps DEF Phases, Stage
  <2>3. session = 0
    <3>1. session # r
      BY <2>1 DEF Follows, WindowInv, SessionInv, Held
    <3> QED
      BY <2>2, <3>1, SessionRuns DEF Follows
  <2>4. Terminal!Connect /\ FieldIsOpen'
    BY <1>0, <2>1, <2>2, <2>3 DEF Terminal!Connect, FieldIsOpen
  <2> QED
    BY <2>2, <2>4 DEF TerminalStep, Terminal!Next
<1>7. CASE SessionDisposed(r)
  <2>1. /\ runs[r].phase = "disposing" /\ runs' = Moved(r, AfterSession(r)) /\ Live(r)
        /\ session' = 0 /\ open' = open \ {session} /\ UNCHANGED <<running, drained>>
    BY <1>7 DEF SessionDisposed, Live, ending
  <2>2. AfterSession(r) \in {"ended", "draining"}
    BY DEF AfterSession
  <2>3. /\ Numbered' /\ r = running /\ UNCHANGED Told
        /\ StageOfLast = Stage[runs[r].phase] /\ StageOfLast' = Stage[AfterSession(r)]
    BY <2>1, <2>2, MovedMaps DEF Phases
  <2>4. StageOfLast = "leaving" /\ StageOfLast' \in {"leaving", "off"}
    BY <2>1, <2>2, <2>3 DEF Stage
  <2>5. session = r /\ r # 0
    BY <2>1 DEF Follows, WindowInv, SessionInv, Held, Runs
  <2>6. Terminal!Dispose /\ FieldIsOpen'
    BY <1>0, <2>1, <2>3, <2>4, <2>5 DEF Terminal!Dispose, FieldIsOpen
  <2> QED
    BY <2>3, <2>6 DEF TerminalStep, Terminal!Next
<1>8. CASE Drained(r)
  <2>1. /\ runs[r].phase = "draining" /\ runs' = Moved(r, "ended") /\ Live(r)
        /\ UNCHANGED <<running, session, open, drained>>
    BY <1>8 DEF Drained, Live, fields, ending
  <2>2. /\ Numbered' /\ r = running /\ UNCHANGED Told
        /\ StageOfLast = "leaving" /\ StageOfLast' = "off"
    BY <2>1, MovedMaps DEF Phases, Stage
  <2>3. session = 0
    <3>1. session # r
      BY <2>1 DEF Follows, WindowInv, SessionInv, Held
    <3> QED
      BY <2>2, <3>1, SessionRuns DEF Follows
  <2>4. Terminal!End /\ FieldIsOpen'
    BY <1>0, <2>1, <2>2, <2>3 DEF Terminal!End, FieldIsOpen
  <2> QED
    BY <2>2, <2>4 DEF TerminalStep, Terminal!Next
<1>9. CASE Interrupted(r) \/ Fails(r)
  BY <1>9, FinishMaps DEF Interrupted, Fails, Interruptible
<1> QED
  BY <1>2, <1>3, <1>4, <1>5, <1>6, <1>7, <1>8, <1>9 DEF RunStep, Proceeds

(* A run that starts is the next connection; one whose initialization failed  *)
(* inside the call has ended, cancelled.                                     *)
LEMMA StartMaps ==
    ASSUME Follows, NoneLive, session = 0, ~closing, StartRun, UNCHANGED <<session, open, drained>>
    PROVE  TerminalStep
<1>1. TypeOK /\ RunsInv /\ running \in 0..MaxRuns
  BY DEF Follows, WindowInv, TypeOK
<1>2. PICK r \in Unused :
         /\ \A other \in Unused : r <= other
         /\ running' = r
         /\ initialization' \in IF initialization = "none" THEN {"running", "failed"}
                                ELSE {initialization}
         /\ runs' = [runs EXCEPT ![r].phase = FirstWait[initialization'],
                                 ![r].cancelled = initialization' = "failed"]
  BY DEF StartRun
<1>3. r \in Runs /\ runs[r].phase = "unused" /\ runs[r] \in Run /\ runs \in [Runs -> Run]
  BY <1>1 DEF Unused, TypeOK
<1>4. initialization' \in {"running", "ready", "failed"}
  BY <1>1, <1>2 DEF TypeOK
<1> DEFINE first == FirstWait[initialization']
           cancelled == initialization' = "failed"
           new == [runs[r] EXCEPT !.phase = first, !.cancelled = cancelled]
<1>5. first \in {"preparing", "connecting", "ended"} /\ (cancelled <=> first = "ended")
  BY <1>4 DEF FirstWait
<1>6. runs'[r] = new /\ \A x \in Runs : x # r => runs'[x] = runs[x]
  BY <1>2, <1>3
<1> HIDE DEF first, cancelled
<1>7. new.phase = first /\ (new.cancelled <=> cancelled)
  BY <1>3 DEF Run
<1> HIDE DEF new
<1>8. r = running + 1
  <2>1. r \in Nat /\ r <= MaxRuns /\ MaxRuns \in Nat /\ running \in Nat /\ r > running
    BY <1>1, <1>3 DEF Runs, Follows, Numbered
  <2>2. running + 1 \in Runs
    BY <2>1 DEF Runs
  <2>3. running + 1 \in Unused
    BY <2>1, <2>2 DEF Unused, Follows, Numbered
  <2> QED
    BY <1>2, <2>1, <2>3
<1>9. Numbered'
  <2> SUFFICES ASSUME NEW x \in Runs
               PROVE  runs'[x].phase = "unused" <=> x > r
    BY <1>2 DEF Numbered
  <2>1. CASE x = r
    BY <1>3, <1>5, <1>6, <1>7, <2>1 DEF Runs
  <2>2. CASE x # r
    <3>1. (runs'[x].phase = "unused") <=> x > running
      BY <1>6, <2>2 DEF Follows, Numbered
    <3>2. x > running <=> x > r
      BY <1>1, <1>8, <2>2 DEF Runs
    <3> QED
      BY <3>1, <3>2
  <2> QED
    BY <2>1, <2>2
<1>10. StageOfLast' \in {"connecting", "off"} /\ (Told' <=> StageOfLast' = "off")
  <2>1. r # 0
    BY <1>3 DEF Runs
  <2>2. StageOfLast' = Stage[first] /\ (Told' <=> cancelled)
    BY <1>2, <1>6, <1>7, <2>1 DEF StageOfLast, Told
  <2> QED
    BY <1>5, <2>2 DEF Stage
<1>11. StageOfLast = "off" /\ open = {} /\ ~drained
  BY <1>1, NoneLiveIsOff, OpenIs DEF Follows, WindowInv, CloseInv
<1>12. Terminal!Begin
  BY <1>2, <1>8, <1>10, <1>11 DEF Terminal!Begin, Told
<1>13. FieldIsOpen'
  BY DEF FieldIsOpen
<1> QED
  BY <1>9, <1>12, <1>13 DEF TerminalStep, Terminal!Next

LEMMA NoneMovesMaps ==
    ASSUME Follows, NoneMoves, UNCHANGED <<running, session, open, drained>>
    PROVE  TerminalStep
  BY TellMaps DEF NoneMoves, Same

LEMMA BrowserMaps ==
    ASSUME Follows,
           \/ InitializationEnds \/ RendererFails \/ Acknowledge \/ CloseInitialized \/ CloseAgain
           \/ \E newSize \in Sizes : ReceiveReady(newSize)
    PROVE  TerminalStep
<1>1. TypeOK
  BY DEF Follows, WindowInv
<1>2. ASSUME UNCHANGED <<runs, running, session, open, drained>> PROVE TerminalStep
  BY <1>1, <1>2, UnchangedMovesNone, NoneMovesMaps
<1>3. CASE InitializationEnds
  BY <1>2, <1>3 DEF InitializationEnds, fields, ending
<1>4. CASE Acknowledge
  BY <1>2, <1>4 DEF Acknowledge, fields, ending
<1>5. CASE CloseAgain
  BY <1>2, <1>5 DEF CloseAgain, fields
<1>6. CASE \E newSize \in Sizes : ReceiveReady(newSize)
  BY <1>2, <1>6 DEF ReceiveReady, fields, ending
<1>7. CASE RendererFails
  BY <1>1, <1>7, CancelMovesNone, NoneMovesMaps DEF RendererFails, fields, ending
<1>8. CASE CloseInitialized
  <2>1. /\ closeTask = "initializing" /\ drained' = TRUE
        /\ UNCHANGED <<runs, running, session, open>>
    BY <1>8 DEF CloseInitialized, Ended, fields
  <2>2. NoneLive
    BY <2>1 DEF Follows, WindowInv, CloseInv, NoneLive
  <2> QED
    BY <2>1, <2>2, ShutMaps
<1> QED
  BY <1>3, <1>4, <1>5, <1>6, <1>7, <1>8

(* A stop tells, and what resumes after it starts a run or drains the window. *)
LEMMA StopMaps ==
    ASSUME Follows, \/ Reconnect \/ Disconnect \/ Resume
                    \/ \E insideEvent \in BOOLEAN : CloseSession(insideEvent)
    PROVE  TerminalStep
<1>1. WindowInv /\ TypeOK
  BY DEF Follows, WindowInv
<1>2. ASSUME NEW kind \in {"reconnect", "disconnect", "close"}, StopWaits, Wait(kind),
             UNCHANGED <<running, session, open, drained>>
      PROVE  TerminalStep
  BY <1>1, <1>2, WaitStep, NoneMovesMaps
<1>3. ASSUME UNCHANGED <<runs, running, session, open, drained>> PROVE TerminalStep
  BY <1>1, <1>3, UnchangedMovesNone, NoneMovesMaps
<1>4. ASSUME ~StopWaits PROVE NoneLive /\ session = 0
  BY <1>1, <1>4, NotWaiting DEF StopWaits, Loaded
<1>5. ASSUME NEW insideEvent \in BOOLEAN, AfterStop(insideEvent)
      PROVE  drained' = drained \/ drained' = TRUE
  BY <1>5 DEF AfterStop, Ended
<1>6. CASE Reconnect
  <2>1. ~closing /\ UNCHANGED <<session, open, drained>>
    BY <1>6 DEF Reconnect, MayReconnect
  <2>2. CASE StopWaits /\ Wait("reconnect") /\ UNCHANGED running
    BY <1>2, <2>1, <2>2
  <2>3. CASE ~StopWaits /\ StartRun
    BY <1>4, <2>1, <2>3, StartMaps
  <2> QED
    BY <1>6, <2>2, <2>3 DEF Reconnect
<1>7. CASE Disconnect
  <2>1. UNCHANGED <<running, session, open, drained>>
    BY <1>7 DEF Disconnect
  <2>2. (StopWaits /\ Wait("disconnect")) \/ UNCHANGED runs
    BY <1>7 DEF Disconnect
  <2> QED
    BY <1>2, <1>3, <2>1, <2>2
<1>8. CASE ResumeReconnect
  <2>1. Resumes("reconnect") /\ UNCHANGED <<session, open, drained>>
    BY <1>8 DEF ResumeReconnect
  <2>2. (~closing /\ StartRun) \/ UNCHANGED <<runs, running>>
    BY <1>8 DEF ResumeReconnect, MayStart
  <2>3. NoneLive /\ session = 0
    BY <1>1, <2>1, StopsLeft
  <2> QED
    BY <1>3, <2>1, <2>2, <2>3, StartMaps
<1>9. CASE ResumeDisconnect
  BY <1>3, <1>9 DEF ResumeDisconnect
<1>10. CASE ResumeClose
  <2>1. /\ Resumes("close") /\ AfterStop(FALSE)
        /\ UNCHANGED <<runs, running, session, open>>
    BY <1>10 DEF ResumeClose
  <2>2. NoneLive
    BY <1>1, <2>1, StopsLeft
  <2> QED
    BY <1>5, <2>1, <2>2, ShutMaps
<1>11. ASSUME NEW insideEvent \in BOOLEAN, CloseSession(insideEvent) PROVE TerminalStep
  <2>1. UNCHANGED <<running, session, open>>
    BY <1>11 DEF CloseSession
  <2>2. CASE StopWaits /\ Wait("close") /\ UNCHANGED drained
    BY <1>2, <2>1, <2>2
  <2>3. CASE ~StopWaits /\ AfterStop(insideEvent) /\ UNCHANGED runs
    BY <1>4, <1>5, <2>1, <2>3, ShutMaps
  <2> QED
    BY <1>11, <2>2, <2>3 DEF CloseSession
<1> QED
  BY <1>6, <1>7, <1>8, <1>9, <1>10, <1>11 DEF Resume

LEMMA FollowsStep == Follows /\ [Next]_vars => TerminalStep
<1> SUFFICES ASSUME Follows, [Next]_vars
             PROVE  TerminalStep
  OBVIOUS
<1>0. TypeOK
  BY DEF Follows, WindowInv
<1>1. ASSUME NEW r \in Runs, RunStep(r) PROVE TerminalStep
  BY <1>1, RunMaps
<1>2. ASSUME NEW r \in Runs, WriterStep(r) PROVE TerminalStep
  <2>1. /\ OneMoves(r) /\ runs'[r].phase = runs[r].phase
        /\ UNCHANGED <<running, session, open, drained>>
    BY <1>0, <1>2, WriterMoves DEF fields, ending
  <2> QED
    BY <2>1, TellMaps DEF OneMoves, Same
<1>3. CASE \/ InitializationEnds \/ RendererFails \/ Acknowledge \/ CloseInitialized \/ CloseAgain
           \/ \E newSize \in Sizes : ReceiveReady(newSize)
  BY <1>3, BrowserMaps
<1>4. CASE Handled
  BY <1>0, <1>4, HandledStep, NoneMovesMaps DEF fields, ending
<1>5. CASE \/ Reconnect \/ Disconnect \/ Resume
           \/ \E insideEvent \in BOOLEAN : CloseSession(insideEvent)
  BY <1>5, StopMaps
<1>6. CASE UNCHANGED vars
  BY <1>0, <1>6, UnchangedMovesNone, NoneMovesMaps DEF vars, fields, ending
<1> QED
  BY <1>1, <1>2, <1>3, <1>4, <1>5, <1>6, Zenon DEF Next, Handled

(* The window is one terminal: however the runs, their finally blocks, the   *)
(* stops and the closing overlap, a connection begins only when the one       *)
(* before it has ended and its session is disposed, the token of one that     *)
(* leaves is cancelled by then, before its session is disposed, and a drained *)
(* window begins none (RunAsync, StopAsync, Reconnect, CloseCoreAsync).       *)
THEOREM WindowImplements == Spec => Contract
<1>1. Init => Numbered /\ FieldIsOpen /\ Terminal!Init
  <2> SUFFICES ASSUME Init
               PROVE  Numbered /\ FieldIsOpen /\ Terminal!Init
    OBVIOUS
  <2>1. /\ running = 0 /\ session = 0 /\ open = {} /\ drained = FALSE
        /\ \A r \in Runs : runs[r].phase = "unused"
    BY DEF Init
  <2>2. Numbered
    BY <2>1 DEF Numbered, Runs
  <2>3. Terminal!Init /\ FieldIsOpen
    BY <2>1 DEF Terminal!Init, FieldIsOpen, StageOfLast, Told
  <2> QED
    BY <2>2, <2>3
<1>2. WindowInv /\ Numbered /\ FieldIsOpen /\ [Next]_vars
      => Numbered' /\ FieldIsOpen' /\ [Terminal!Next]_(Terminal!terminal)
  BY FollowsStep DEF Follows, TerminalStep
<1> QED
  BY <1>1, <1>2, WindowInductive, PTL DEF Spec, Contract, Terminal!Spec

-----------------------------------------------------------------------------
(* The window with its page is a window as TerminalWindow has it: what       *)
(* terminal.js and xterm.js do is among what that module allows a renderer.  *)

USE WindowAssumption, SizeAssumption, BridgeAssumption

PageTypes ==
    /\ page \in {"absent", "loaded"} /\ pageSize \in Sizes /\ ready \in BOOLEAN
    /\ toPage \in Seq(Posted) /\ writes \in Seq(Runs) /\ fromPage \in Seq(Received)

LEMMA MessageTypes ==
    /\ \A r \in Runs : ToPage("reset", r) \in Posted /\ ToPage("output", r) \in Posted
    /\ \A message \in Posted : message.run \in Runs
    /\ \A newSize \in Sizes : /\ FromPage("ready", newSize) \in Received
                              /\ FromPage("resize", newSize) \in Received
    /\ FromPage("input", Typed) \in Received /\ FromPage("paste", Typed) \in Received
    /\ \A r \in Runs : FromPage("ack", r) \in Received
    /\ \A message \in Received : message.type \in {"ready", "resize"} => message.value \in Sizes
<1>1. \A r \in Runs : ToPage("reset", r) \in Posted /\ ToPage("output", r) \in Posted
  BY DEF Posted
<1>2. \A message \in Posted : message.run \in Runs
  BY DEF Posted, ToPage
<1>3. \A message \in Received : message.type \in {"ready", "resize"} => message.value \in Sizes
  BY DEF Received
<1>4. \A newSize \in Sizes : /\ FromPage("ready", newSize) \in Received
                             /\ FromPage("resize", newSize) \in Received
  BY DEF Received, FromPage
<1>5. FromPage("input", Typed) \in Received /\ FromPage("paste", Typed) \in Received
  BY DEF Received, FromPage
<1>6. \A r \in Runs : FromPage("ack", r) \in Received
  BY DEF Received, FromPage
<1> QED
  BY <1>1, <1>2, <1>3, <1>4, <1>5, <1>6

-----------------------------------------------------------------------------
(* Each step of the window or of the page is a step of TerminalWindow, or    *)
(* leaves the window as it is.                                               *)
LEMMA WindowStepMaps == WindowStep => Next
<1> SUFFICES ASSUME WindowStep
             PROVE  Next
  OBVIOUS
<1>1. ASSUME NEW r \in Runs, Silent(r) PROVE Next
  BY <1>1, Zenon DEF Silent, Next, RunStep, Proceeds
<1>2. CASE \/ PasteButton \/ AnswerPaste \/ Disconnect \/ ResumeDisconnect \/ ResumeClose
           \/ CloseInitialized \/ CloseAgain
  BY <1>2, Zenon DEF Next, Resume
<1>3. ASSUME NEW insideEvent \in BOOLEAN, CloseSession(insideEvent) PROVE Next
  BY <1>3, Zenon DEF Next
<1> QED
  BY <1>1, <1>2, <1>3, Zenon DEF WindowStep

LEMMA OnMessageMaps == PageTypes /\ OnMessage => Next
<1> SUFFICES ASSUME PageTypes, OnMessage
             PROVE  Next
  OBVIOUS
<1> DEFINE message == Head(fromPage)
<1>1. message \in Received
  BY HeadTailProperties DEF PageTypes, OnMessage
<1>2. ReceiveFrom(message)
  BY DEF OnMessage
<1> HIDE DEF message
<1>3. CASE /\ message.type \in {"ready", "resize"}
           /\ ReceiveReady(message.value) \/ ReceiveResize(message.value)
  <2>1. message.value \in Sizes
    BY <1>1, <1>3, MessageTypes
  <2> QED
    BY <1>3, <2>1, Zenon DEF Next
<1>4. CASE Type \/ ReceivePaste \/ Acknowledge
  BY <1>4, Zenon DEF Next
<1> QED
  BY <1>2, <1>3, <1>4, Zenon DEF ReceiveFrom

LEMMA StepMaps == PageTypes /\ [BridgeNext]_bridgeVars => [Next]_vars
<1> SUFFICES ASSUME PageTypes, BridgeNext
             PROVE  Next \/ UNCHANGED vars
  BY DEF bridgeVars
<1>1. ASSUME NEW r \in Runs, PostReset(r) \/ PostOutput(r) PROVE Next
  BY <1>1, Zenon DEF PostReset, PostOutput, Next, RunStep, Proceeds
<1>2. CASE Restart
  BY <1>2, Zenon DEF Restart, Next, Resume
<1>3. CASE WindowStep
  BY <1>3, WindowStepMaps
<1>4. CASE Initializes \/ ProcessFails
  BY <1>4, Zenon DEF Initializes, ProcessFails, Next
<1>5. CASE OnMessage
  BY <1>5, OnMessageMaps
<1>6. CASE PageStep
  BY <1>6 DEF PageStep
<1> QED
  BY <1>1, <1>2, <1>3, <1>4, <1>5, <1>6 DEF BridgeNext

-----------------------------------------------------------------------------
(* Every message keeps its type.                                             *)
LEMMA PostsTypes ==
    ASSUME PageTypes, NEW message \in Posted, Posts(message)
    PROVE  PageTypes'
  BY DEF Posts, PageTypes

LEMMA SameTypes ==
    ASSUME PageTypes, UNCHANGED pageVars
    PROVE  PageTypes'
  BY DEF PageTypes, pageVars, channels

LEMMA RestartTypes ==
    ASSUME PageTypes, Restart
    PROVE  PageTypes'
<1>1. CASE running' # running /\ Posts(ToPage("reset", running'))
  <2>1. running' \in Runs
    <3>1. StartRun
      BY <1>1, Zenon DEF Restart, Reconnect, ResumeReconnect
    <3> QED
      BY <3>1 DEF StartRun, Unused
  <2> QED
    BY <1>1, <2>1, MessageTypes, PostsTypes
<1>2. CASE UNCHANGED pageVars
  BY <1>2, SameTypes
<1> QED
  BY <1>1, <1>2, Zenon DEF Restart

LEMMA PageStepTypes ==
    ASSUME PageTypes, PageStep
    PROVE  PageTypes'
<1>1. /\ toPage \in Seq(Posted) /\ writes \in Seq(Runs)
      /\ fromPage \in Seq(Received) /\ pageSize \in Sizes
  BY DEF PageTypes
<1>2. ASSUME NEW newSize \in Sizes PROVE Fits(newSize) \in Seq(Received)
  BY MessageTypes DEF Fits
<1>3. CASE Load
  <2>1. PICK newSize \in Sizes : /\ pageSize' = newSize
                                 /\ fromPage' = Append(Fits(newSize), FromPage("ready", newSize))
    BY <1>3 DEF Load
  <2>2. fromPage' \in Seq(Received)
    BY <1>2, <2>1, MessageTypes
  <2> QED
    BY <1>3, <2>1, <2>2 DEF Load, PageTypes
<1>4. CASE ReceiveReset
  <2>1. PICK newSize \in {pageSize} \cup NewSizes :
           pageSize' = newSize /\ fromPage' = fromPage \o Fits(newSize)
    BY <1>4 DEF ReceiveReset
  <2>2. newSize \in Sizes
    BY <1>1 DEF NewSizes
  <2>3. fromPage' \in Seq(Received)
    BY <1>1, <1>2, <2>1, <2>2
  <2>4. toPage' \in Seq(Posted)
    BY <1>1, <1>4, HeadTailProperties DEF ReceiveReset
  <2> QED
    BY <1>4, <2>1, <2>2, <2>3, <2>4 DEF ReceiveReset, AfterReset, PageTypes
<1>5. CASE ReceiveOutput
  <2>1. toPage' \in Seq(Posted) /\ Head(toPage) \in Posted
    BY <1>1, <1>5, HeadTailProperties DEF ReceiveOutput
  <2>2. writes' \in Seq(Runs)
    BY <1>1, <1>5, <2>1, MessageTypes DEF ReceiveOutput
  <2> QED
    BY <1>5, <2>1, <2>2 DEF ReceiveOutput, PageTypes
<1>6. CASE Parse
  <2>1. PICK answer \in Answers :
           fromPage' = fromPage \o answer \o <<FromPage("ack", Head(writes))>>
    BY <1>6 DEF Parse
  <2>2. writes' \in Seq(Runs) /\ Head(writes) \in Runs
    BY <1>1, <1>6, HeadTailProperties DEF Parse
  <2>3. FromPage("input", Typed) \in Received /\ FromPage("ack", Head(writes)) \in Received
    BY <2>2, MessageTypes
  <2>4. answer \in Seq(Received)
    <3>1. answer = <<>> \/ answer = <<FromPage("input", Typed)>>
      BY DEF Answers
    <3>2. <<>> \in Seq(Received) /\ <<FromPage("input", Typed)>> \in Seq(Received)
      BY <2>3, EmptySeq
    <3> QED
      BY <3>1, <3>2
  <2>5. fromPage' \in Seq(Received)
    BY <1>1, <2>1, <2>3, <2>4
  <2> QED
    BY <1>6, <2>2, <2>5 DEF Parse, PageTypes
<1>7. CASE ObserveResize
  <2>1. PICK newSize \in NewSizes : pageSize' = newSize /\ fromPage' = fromPage \o Fits(newSize)
    BY <1>7 DEF ObserveResize
  <2>2. newSize \in Sizes
    BY DEF NewSizes
  <2>3. fromPage' \in Seq(Received)
    BY <1>1, <1>2, <2>1, <2>2
  <2> QED
    BY <1>7, <2>1, <2>2, <2>3 DEF ObserveResize, PageTypes
<1>8. CASE PressKey
  <2>1. fromPage' \in Seq(Received)
    BY <1>1, <1>8, MessageTypes DEF PressKey
  <2> QED
    BY <1>8, <2>1 DEF PressKey, PageTypes
<1> QED
  BY <1>3, <1>4, <1>5, <1>6, <1>7, <1>8 DEF PageStep

LEMMA NextTypes == PageTypes /\ [BridgeNext]_bridgeVars => PageTypes'
<1> SUFFICES ASSUME PageTypes, BridgeNext \/ UNCHANGED bridgeVars
             PROVE  PageTypes'
  OBVIOUS
<1>1. ASSUME NEW r \in Runs, PostReset(r) \/ PostOutput(r) PROVE PageTypes'
  BY <1>1, MessageTypes, PostsTypes, Zenon DEF PostReset, PostOutput
<1>2. CASE Restart
  BY <1>2, RestartTypes
<1>3. CASE WindowStep \/ Initializes \/ ProcessFails \/ UNCHANGED bridgeVars
  BY <1>3, SameTypes, Zenon DEF WindowStep, Initializes, ProcessFails, bridgeVars
<1>4. CASE OnMessage
  <2>1. fromPage' \in Seq(Received) /\ ready' \in BOOLEAN
    BY <1>4, HeadTailProperties DEF OnMessage, ReceiveFrom, PageTypes
  <2> QED
    BY <1>4, <2>1 DEF OnMessage, PageTypes
<1>5. CASE PageStep
  BY <1>5, PageStepTypes
<1> QED
  BY <1>1, <1>2, <1>3, <1>4, <1>5, Zenon DEF BridgeNext

LEMMA InitTypes == BridgeInit => PageTypes
  BY EmptySeq, SizeAssumption DEF BridgeInit, PageTypes

-----------------------------------------------------------------------------
(* The page implements the renderer: TerminalWindow's specification holds of *)
(* the window with its page, whatever the page and WebView2's queues do.     *)
THEOREM BridgeImplements == BridgeSpec => Spec
<1>1. BridgeInit => Init
  BY DEF BridgeInit
<1> QED
  BY <1>1, InitTypes, NextTypes, StepMaps, PTL DEF BridgeSpec, Spec

(* The window and the page keep their types.                                 *)
THEOREM BridgeTypeCorrect == BridgeSpec => []BridgeTypeOK
<1>1. TypeOK /\ PageTypes => BridgeTypeOK
  BY Zenon DEF BridgeTypeOK, PageTypes
<1> QED
  BY <1>1, BridgeImplements, TypeCorrect, InitTypes, NextTypes, PTL DEF BridgeSpec

(* So what was proved of the window for any renderer holds with this one,    *)
(* and window and page are one terminal.                                     *)
THEOREM WindowHoldsWithPage ==
    BridgeSpec => /\ Contract
                  /\ []( /\ OneSession /\ DrainedIsQuiet /\ StopReachesRun
                         /\ OneChunkInFlight /\ InputToOwnSession )
  BY BridgeImplements, WindowImplements, OneSessionHolds, DrainedStaysQuiet, StopsReachTheRun,
     OneChunkHolds, InputReachesOwnSession, PTL

-----------------------------------------------------------------------------
(* The size on its way from the page to the remote side.  What a queue of     *)
(* messages leaves when it is empty: the last size in it, or what there was. *)
IsSize(message) == message.type \in {"ready", "resize"}
Leaves(s, before, final) ==
    \/ final = before /\ \A i \in 1..Len(s) : ~IsSize(s[i])
    \/ \E i \in 1..Len(s) : /\ IsSize(s[i]) /\ s[i].value = final
                            /\ \A j \in 1..Len(s) : j > i => ~IsSize(s[j])
LeavesInput(s, before, final) ==
    \/ final = before /\ \A i \in 1..Len(s) : s[i].what = Typed
    \/ \E i \in 1..Len(s) : /\ s[i].what # Typed /\ s[i].what = final
                            /\ \A j \in 1..Len(s) : j > i => s[j].what = Typed

LEMMA LeavesAppend ==
    ASSUME NEW s \in Seq(Received), NEW before, NEW final, Leaves(s, before, final),
           NEW message \in Received
    PROVE  Leaves(Append(s, message), before, IF IsSize(message) THEN message.value ELSE final)
<1> DEFINE t == Append(s, message)
<1>1. /\ Len(t) = Len(s) + 1 /\ Len(s) \in Nat /\ t[Len(s) + 1] = message
      /\ \A i \in 1..Len(s) : t[i] = s[i]
  OBVIOUS
<1> HIDE DEF t
<1>2. \A i \in 1..Len(t) : i \in 1..Len(s) \/ i = Len(s) + 1
  BY <1>1
<1>3. CASE IsSize(message)
  <2>1. Len(s) + 1 \in 1..Len(t) /\ \A j \in 1..Len(t) : ~(j > Len(s) + 1)
    BY <1>1
  <2> QED
    BY <1>1, <1>3, <2>1 DEF Leaves
<1>4. CASE ~IsSize(message) /\ final = before /\ \A i \in 1..Len(s) : ~IsSize(s[i])
  BY <1>1, <1>2, <1>4 DEF Leaves
<1>5. ASSUME ~IsSize(message), NEW i \in 1..Len(s), IsSize(s[i]), s[i].value = final,
             \A j \in 1..Len(s) : j > i => ~IsSize(s[j])
      PROVE  Leaves(t, before, final)
  <2>1. i \in 1..Len(t) /\ t[i] = s[i] /\ \A j \in 1..Len(t) : j > i => ~IsSize(t[j])
    BY <1>1, <1>2, <1>5
  <2> QED
    BY <1>5, <2>1 DEF Leaves
<1> QED
  BY <1>3, <1>4, <1>5 DEF Leaves, t

LEMMA LeavesTail ==
    ASSUME NEW s \in Seq(Received), s # <<>>, NEW before, NEW final, Leaves(s, before, final)
    PROVE  Leaves(Tail(s), IF IsSize(Head(s)) THEN Head(s).value ELSE before, final)
<1> DEFINE t == Tail(s)
           left == IF IsSize(Head(s)) THEN Head(s).value ELSE before
<1>1. /\ Len(t) = Len(s) - 1 /\ Len(s) \in Nat \ {0} /\ Head(s) = s[1]
      /\ \A i \in 1..Len(t) : t[i] = s[i + 1]
  BY HeadTailProperties, EmptySeq
<1> HIDE DEF t
<1>2. \A i \in 1..Len(t) : i + 1 \in 1..Len(s)
  BY <1>1
<1>3. CASE final = before /\ \A i \in 1..Len(s) : ~IsSize(s[i])
  <2>1. 1 \in 1..Len(s)
    BY <1>1
  <2> QED
    BY <1>1, <1>2, <1>3, <2>1 DEF Leaves
<1>4. ASSUME NEW i \in 1..Len(s), IsSize(s[i]), s[i].value = final,
             \A j \in 1..Len(s) : j > i => ~IsSize(s[j])
      PROVE  Leaves(t, left, final)
  <2>1. \A j \in 1..Len(t) : j + 1 > i => ~IsSize(t[j])
    BY <1>1, <1>2, <1>4
  <2>2. CASE i = 1
    BY <1>1, <1>4, <2>1, <2>2 DEF Leaves
  <2>3. CASE i # 1
    <3>1. i - 1 \in 1..Len(t) /\ t[i - 1] = s[i]
      BY <1>1, <2>3
    <3>2. \A j \in 1..Len(t) : j > i - 1 => ~IsSize(t[j])
      BY <2>1
    <3> QED
      BY <1>4, <3>1, <3>2 DEF Leaves
  <2> QED
    BY <2>2, <2>3
<1> QED
  BY <1>3, <1>4 DEF Leaves, t

LEMMA LeavesInputAppend ==
    ASSUME NEW s \in Seq(Messages), NEW before, NEW final, LeavesInput(s, before, final),
           NEW message \in Messages
    PROVE  LeavesInput(Append(s, message), before,
                       IF message.what # Typed THEN message.what ELSE final)
<1> DEFINE t == Append(s, message)
<1>1. /\ Len(t) = Len(s) + 1 /\ Len(s) \in Nat /\ t[Len(s) + 1] = message
      /\ \A i \in 1..Len(s) : t[i] = s[i]
  OBVIOUS
<1> HIDE DEF t
<1>2. \A i \in 1..Len(t) : i \in 1..Len(s) \/ i = Len(s) + 1
  BY <1>1
<1>3. CASE message.what # Typed
  <2>1. Len(s) + 1 \in 1..Len(t) /\ \A j \in 1..Len(t) : ~(j > Len(s) + 1)
    BY <1>1
  <2> QED
    BY <1>1, <1>3, <2>1 DEF LeavesInput
<1>4. CASE message.what = Typed /\ final = before /\ \A i \in 1..Len(s) : s[i].what = Typed
  BY <1>1, <1>2, <1>4 DEF LeavesInput
<1>5. ASSUME message.what = Typed, NEW i \in 1..Len(s), s[i].what # Typed, s[i].what = final,
             \A j \in 1..Len(s) : j > i => s[j].what = Typed
      PROVE  LeavesInput(t, before, final)
  <2>1. i \in 1..Len(t) /\ t[i] = s[i] /\ \A j \in 1..Len(t) : j > i => t[j].what = Typed
    BY <1>1, <1>2, <1>5
  <2> QED
    BY <1>5, <2>1 DEF LeavesInput
<1> QED
  BY <1>3, <1>4, <1>5 DEF LeavesInput, t

LEMMA LeavesInputTail ==
    ASSUME NEW s \in Seq(Messages), s # <<>>, NEW before, NEW final,
           LeavesInput(s, before, final)
    PROVE  LeavesInput(Tail(s), IF Head(s).what # Typed THEN Head(s).what ELSE before, final)
<1> DEFINE t == Tail(s)
           left == IF Head(s).what # Typed THEN Head(s).what ELSE before
<1>1. /\ Len(t) = Len(s) - 1 /\ Len(s) \in Nat \ {0} /\ Head(s) = s[1]
      /\ \A i \in 1..Len(t) : t[i] = s[i + 1]
  BY HeadTailProperties, EmptySeq
<1> HIDE DEF t
<1>2. \A i \in 1..Len(t) : i + 1 \in 1..Len(s)
  BY <1>1
<1>3. CASE final = before /\ \A i \in 1..Len(s) : s[i].what = Typed
  <2>1. 1 \in 1..Len(s)
    BY <1>1
  <2> QED
    BY <1>1, <1>2, <1>3, <2>1 DEF LeavesInput
<1>4. ASSUME NEW i \in 1..Len(s), s[i].what # Typed, s[i].what = final,
             \A j \in 1..Len(s) : j > i => s[j].what = Typed
      PROVE  LeavesInput(t, left, final)
  <2>1. \A j \in 1..Len(t) : j + 1 > i => t[j].what = Typed
    BY <1>1, <1>2, <1>4
  <2>2. CASE i = 1
    BY <1>1, <1>4, <2>1, <2>2 DEF LeavesInput
  <2>3. CASE i # 1
    <3>1. i - 1 \in 1..Len(t) /\ t[i - 1] = s[i]
      BY <1>1, <2>3
    <3>2. \A j \in 1..Len(t) : j > i - 1 => t[j].what = Typed
      BY <2>1
    <3> QED
      BY <1>4, <3>1, <3>2 DEF LeavesInput
  <2> QED
    BY <2>2, <2>3
<1> QED
  BY <1>3, <1>4 DEF LeavesInput, t

(* What a session's remote side will have been told once its write loop has  *)
(* sent everything; no run connects before the page is ready, and a run that *)
(* has no session has no input.                                              *)
Talks(r) == runs[r].phase \in {"starting", "reading", "posting"}
AfterItem(r) ==
    IF runs[r].writer = "sending" /\ runs[r].item.what # Typed THEN runs[r].item.what ELSE remote

RemoteSizes ==
    \A r \in Runs : Talks(r) /\ ~runs[r].cancelled => LeavesInput(input, AfterItem(r), size)
FreshInput == \A r \in Runs : runs[r].phase \in {"preparing", "connecting"} => input = <<>>
NotYet ==
    initialization # "ready" => \A r \in Runs : runs[r].phase # "connecting" /\ ~Talks(r)
SessionSizes == RemoteSizes /\ FreshInput /\ NotYet

(* A run that talks and is not cancelled has the fields.                      *)
LEMMA TalkingRun ==
    ASSUME WindowInv, NEW r \in Runs, Talks(r)
    PROVE  /\ Live(r) /\ running = r /\ session = r
           /\ ~runs[r].cancelled => cancellation = r
<1>1. Live(r) /\ session = r
  BY DEF WindowInv, SessionInv, Talks, Live, Held
<1> QED
  BY <1>1 DEF WindowInv, RunsInv, StopReachesRun

LEMMA NoSessionYet ==
    ASSUME WindowInv, NEW r \in Runs, runs[r].phase \in {"unused", "preparing", "connecting"},
           r = running
    PROVE  session = 0
  BY SessionRuns DEF Held

(* Steps that move no run and leave the sizes and the input alone.           *)
LEMMA NoneMovesSizes ==
    ASSUME WindowInv, SessionSizes, NoneMoves, UNCHANGED <<input, remote, size>>,
           initialization' # "ready" => initialization # "ready"
    PROVE  SessionSizes'
<1>1. \A r \in Runs : Same(r)
  BY DEF NoneMoves
<1>2. RemoteSizes'
  <2> SUFFICES ASSUME NEW r \in Runs, Talks(r)', ~runs'[r].cancelled
               PROVE  LeavesInput(input, AfterItem(r), size)'
    BY DEF RemoteSizes
  <2>1. Same(r)
    BY <1>1
  <2>2. Talks(r) /\ ~runs[r].cancelled /\ AfterItem(r)' = AfterItem(r)
    BY <2>1 DEF Same, Talks, AfterItem
  <2>3. LeavesInput(input, AfterItem(r), size)
    BY <2>2 DEF SessionSizes, RemoteSizes
  <2> QED
    BY <2>2, <2>3 DEF LeavesInput
<1> QED
  BY <1>1, <1>2 DEF SessionSizes, FreshInput, NotYet, Same, Talks

LEMMA QueueSizes ==
    ASSUME WindowInv, SessionSizes, NEW what \in Sizes \cup {Typed}, Queue(what),
           size' = IF what # Typed THEN what ELSE size,
           UNCHANGED <<remote, initialization>>
    PROVE  SessionSizes'
<1>1. /\ NoneMoves
      /\ input \in Seq(Messages)
      /\ UNCHANGED input \/ (session # 0 /\ input' = Append(input, [to |-> session, what |-> what]))
  BY QueueStep DEF WindowInv, TypeOK
<1>2. \A r \in Runs : Same(r)
  BY <1>1 DEF NoneMoves
<1>3. RemoteSizes'
  <2> SUFFICES ASSUME NEW r \in Runs, Talks(r)', ~runs'[r].cancelled
               PROVE  LeavesInput(input, AfterItem(r), size)'
    BY DEF RemoteSizes
  <2>1. Same(r)
    BY <1>2
  <2>2. Talks(r) /\ ~runs[r].cancelled /\ AfterItem(r)' = AfterItem(r)
    BY <2>1 DEF Same, Talks, AfterItem
  <2>3. LeavesInput(input, AfterItem(r), size)
    BY <2>2 DEF SessionSizes, RemoteSizes
  <2>4. session = r /\ cancellation = r /\ r # 0
    BY <2>2, TalkingRun DEF Runs
  <2>5. ~(Full /\ runs' = Cancelled(runs, cancellation))
    BY <2>2, <2>4, CancelledRuns DEF WindowInv, TypeOK
  <2>6. input' = Append(input, [to |-> session, what |-> what])
    BY <2>2, <2>4, <2>5 DEF Queue
  <2>7. [to |-> session, what |-> what] \in Messages /\ [to |-> session, what |-> what].what = what
    BY <2>4 DEF Messages
  <2> DEFINE message == [to |-> session, what |-> what]
  <2>8. message \in Messages /\ message.what = what /\ input' = Append(input, message)
    BY <2>6, <2>7
  <2> HIDE DEF message
  <2>9. LeavesInput(Append(input, message), AfterItem(r),
                    IF message.what # Typed THEN message.what ELSE size)
    BY <1>1, <2>3, <2>8, LeavesInputAppend
  <2>10. LeavesInput(input', AfterItem(r), size')
    BY <2>8, <2>9
  <2> QED
    BY <2>2, <2>10 DEF LeavesInput
<1>4. FreshInput'
  <2> SUFFICES ASSUME NEW r \in Runs, runs'[r].phase \in {"preparing", "connecting"}
               PROVE  input' = <<>>
    BY DEF FreshInput
  <2>1. runs[r].phase \in {"preparing", "connecting"}
    BY <1>2 DEF Same
  <2>2. r = running
    BY <2>1 DEF WindowInv, RunsInv, Live
  <2> QED
    BY <1>1, <2>1, <2>2, NoSessionYet DEF SessionSizes, FreshInput
<1>5. NotYet'
  BY <1>2 DEF SessionSizes, NotYet, Same, Talks
<1> QED
  BY <1>3, <1>4, <1>5 DEF SessionSizes

(* A ready message that comes before the page is known to be ready finds no  *)
(* session whose size it could change.                                       *)
LEMMA ReadySizes ==
    ASSUME WindowInv, SessionSizes, NEW newSize \in Sizes, ReceiveReady(newSize),
           initialization # "ready"
    PROVE  SessionSizes'
<1>1. UNCHANGED <<runs, input, initialization>>
  BY DEF ReceiveReady, browser
<1>2. \A r \in Runs : ~Talks(r)
  BY DEF SessionSizes, NotYet
<1> QED
  BY <1>1, <1>2 DEF SessionSizes, RemoteSizes, FreshInput, NotYet, Talks

LEMMA HandledSizes ==
    ASSUME WindowInv, SessionSizes, Handled
    PROVE  SessionSizes'
<1>1. ASSUME UNCHANGED <<input, runs, size, remote, initialization>> PROVE SessionSizes'
  BY <1>1, UnchangedMovesNone, NoneMovesSizes DEF WindowInv
<1>2. ASSUME Queue(Typed), UNCHANGED <<size, remote, initialization>> PROVE SessionSizes'
  BY <1>2, QueueSizes
<1>3. CASE Type
  BY <1>2, <1>3 DEF Type, browser
<1>4. ASSUME NEW source, Paste(source) PROVE SessionSizes'
  BY <1>1, <1>2, <1>4 DEF Paste, browser
<1>5. CASE AnswerPaste
  BY <1>1, <1>2, <1>5 DEF AnswerPaste, browser
<1>6. ASSUME NEW newSize \in Sizes, ReceiveResize(newSize) PROVE SessionSizes'
  <2>1. /\ size' = newSize /\ Queue(newSize) /\ newSize # Typed
        /\ UNCHANGED <<remote, initialization>>
    BY <1>6 DEF ReceiveResize, Resize, browser
  <2> QED
    BY <2>1, QueueSizes
<1> QED
  BY <1>3, <1>4, <1>5, <1>6 DEF Handled, PasteButton, ReceivePaste

(* Steps of one run, when no other is live.                                  *)
LEMMA OneMovesSizes ==
    ASSUME WindowInv, SessionSizes, NEW r \in Runs, Live(r) \/ NoneLive, OneMoves(r),
           initialization' # "ready" => initialization # "ready",
           Talks(r)' /\ ~runs'[r].cancelled => LeavesInput(input, AfterItem(r), size)',
           runs'[r].phase \in {"preparing", "connecting"} => input' = <<>>,
           initialization' # "ready" => runs'[r].phase # "connecting" /\ ~Talks(r)'
    PROVE  SessionSizes'
<1>1. ASSUME NEW x \in Runs, x # r PROVE runs'[x].phase \in {"unused", "ended"}
  <2>1. ~Live(x) /\ Same(x)
    BY <1>1 DEF WindowInv, RunsInv, NoneLive, OneMoves
  <2> QED
    BY <2>1 DEF Live, Same
<1>2. RemoteSizes'
  BY <1>1 DEF RemoteSizes, Talks
<1>3. FreshInput'
  BY <1>1 DEF FreshInput
<1>4. NotYet'
  BY <1>1 DEF NotYet, Talks
<1> QED
  BY <1>2, <1>3, <1>4 DEF SessionSizes

LEMMA RunSizes ==
    ASSUME WindowInv, SessionSizes, NEW r \in Runs, RunStep(r)
    PROVE  SessionSizes'
<1>0. TypeOK
  BY DEF WindowInv
<1>1. CASE Prepared(r)
  <2>1. /\ runs[r].phase = "preparing" /\ runs' = Moved(r, "connecting")
        /\ initialization = "ready" /\ UNCHANGED <<input, initialization>>
    BY <1>1 DEF Prepared, io, browser
  <2>2. OneMoves(r) /\ runs'[r].phase = "connecting" /\ Live(r)
    BY <1>0, <2>1, MovedRuns DEF OneMoves, Same, Phases, Live
  <2>3. input' = <<>>
    BY <2>1 DEF SessionSizes, FreshInput
  <2> QED
    BY <2>1, <2>2, <2>3, OneMovesSizes DEF Talks
<1>2. CASE Connected(r)
  <2>1. /\ runs[r].phase = "connecting" /\ runs' = Moved(r, "starting") /\ remote' = size
        /\ UNCHANGED <<input, size, initialization>>
    BY <1>2 DEF Connected, browser
  <2>2. /\ OneMoves(r) /\ runs'[r].phase = "starting" /\ Live(r)
        /\ runs'[r].writer = runs[r].writer
    BY <1>0, <2>1, MovedRuns DEF OneMoves, Same, Phases, Live
  <2>3. input' = <<>> /\ initialization = "ready" /\ runs[r].writer = "none"
    BY <2>1 DEF SessionSizes, FreshInput, NotYet, WindowInv, RunsInv, Before
  <2>4. AfterItem(r)' = size'
    BY <2>1, <2>2, <2>3 DEF AfterItem
  <2>5. 1..Len(input') = {}
    BY <2>3, EmptySeq
  <2>6. LeavesInput(input, AfterItem(r), size)'
    BY <2>4, <2>5 DEF LeavesInput
  <2> QED
    BY <2>1, <2>2, <2>3, <2>6, OneMovesSizes
<1>3. CASE Started(r) \/ Output(r) \/ Acknowledged(r)
  <2>1. /\ Talks(r) /\ UNCHANGED <<input, size, remote, initialization>>
        /\ OneMoves(r) /\ Talks(r)' /\ runs'[r].item = runs[r].item
        /\ runs'[r].cancelled = runs[r].cancelled
        /\ runs'[r].writer = "sending" <=> runs[r].writer = "sending"
    <3>1. CASE Started(r)
      <4> DEFINE new == [runs[r] EXCEPT !.phase = "reading", !.writer = "idle"]
      <4>1. /\ runs[r].phase = "starting" /\ runs[r] \in Run /\ runs \in [Runs -> Run]
            /\ runs' = [runs EXCEPT ![r].phase = "reading", ![r].writer = "idle"]
            /\ UNCHANGED <<input, size, remote, initialization>>
        BY <1>0, <3>1 DEF Started, TypeOK, io, browser
      <4>2. runs[r].writer = "none"
        BY <4>1 DEF WindowInv, RunsInv, Before
      <4>3. /\ new \in Run /\ new.phase = "reading" /\ new.writer = "idle"
            /\ new.item = runs[r].item /\ new.cancelled = runs[r].cancelled
        BY <4>1 DEF Run, Phases
      <4>4. runs'[r] = new /\ \A x \in Runs : x # r => runs'[x] = runs[x]
        BY <4>1
      <4> HIDE DEF new
      <4>5. runs' \in [Runs -> Run]
        BY <4>1, <4>3, <4>4
      <4>6. OneMoves(r)
        BY <4>3, <4>4, <4>5 DEF OneMoves, Same
      <4> QED
        BY <4>1, <4>2, <4>3, <4>4, <4>6 DEF Talks
    <3>2. CASE Output(r)
      BY <1>0, <3>2, MovedRuns DEF Output, OneMoves, Same, Phases, Talks, browser
    <3>3. CASE Acknowledged(r)
      BY <1>0, <3>3, MovedRuns DEF Acknowledged, OneMoves, Same, Phases, Talks, io, browser
    <3> QED
      BY <1>3, <3>1, <3>2, <3>3
  <2>2. AfterItem(r)' = AfterItem(r)
    BY <2>1 DEF AfterItem
  <2>3. ~runs[r].cancelled => LeavesInput(input, AfterItem(r), size)
    BY <2>1 DEF SessionSizes, RemoteSizes
  <2>4. Talks(r)' /\ ~runs'[r].cancelled => LeavesInput(input, AfterItem(r), size)'
    BY <2>1, <2>2, <2>3 DEF LeavesInput
  <2>5. initialization = "ready" /\ Live(r)
    BY <2>1, TalkingRun DEF SessionSizes, NotYet
  <2>6. runs'[r].phase \notin {"preparing", "connecting"}
    BY <2>1 DEF Talks
  <2> QED
    BY <2>1, <2>4, <2>5, <2>6, OneMovesSizes
<1>4. CASE SessionDisposed(r) \/ Drained(r)
  <2>1. /\ Live(r) /\ UNCHANGED initialization
        /\ OneMoves(r) /\ runs'[r].phase \in {"draining", "ended"}
    <3>1. AfterSession(r) \in {"ended", "draining"} /\ AfterSession(r) \in Phases
      BY DEF AfterSession, Phases
    <3>2. CASE SessionDisposed(r)
      BY <1>0, <3>1, <3>2, MovedRuns DEF SessionDisposed, OneMoves, Same, Live, browser
    <3>3. CASE Drained(r)
      BY <1>0, <3>3, MovedRuns DEF Drained, OneMoves, Same, Phases, Live, browser
    <3> QED
      BY <1>4, <3>2, <3>3
  <2> QED
    BY <2>1, OneMovesSizes DEF Talks
<1>5. CASE Interrupted(r) \/ Fails(r)
  <2>1. Finish(r) /\ Live(r)
    BY <1>5 DEF Interrupted, Fails, Interruptible, Live
  <2>2. /\ OneMoves(r) /\ UNCHANGED initialization
        /\ runs'[r].phase \in {"disposing", "draining", "ended"}
    BY <1>0, <2>1, FinishMoves DEF AfterSession, browser
  <2> QED
    BY <2>1, <2>2, OneMovesSizes DEF Talks
<1> QED
  BY <1>1, <1>2, <1>3, <1>4, <1>5 DEF RunStep, Proceeds

LEMMA WriterSizes ==
    ASSUME WindowInv, SessionSizes, NEW r \in Runs, WriterStep(r)
    PROVE  SessionSizes'
<1>1. /\ OneMoves(r) /\ runs'[r].phase = runs[r].phase
      /\ runs[r].writer \in {"idle", "sending"}
      /\ UNCHANGED <<size, initialization>>
      /\ runs[r].cancelled => runs'[r].cancelled
  BY WriterMoves DEF WindowInv, browser
<1>2. Live(r) /\ runs[r].phase \notin Before
  BY <1>1 DEF WindowInv, RunsInv, Before, Live
<1>3. input \in Seq(Messages) /\ runs \in [Runs -> Run] /\ TypeOK
  BY DEF WindowInv, TypeOK
<1>4. ASSUME Talks(r), ~runs'[r].cancelled PROVE LeavesInput(input, AfterItem(r), size)'
  <2>1. LeavesInput(input, AfterItem(r), size)
    BY <1>1, <1>4 DEF SessionSizes, RemoteSizes
  <2>2. CASE WriterTakes(r)
    <3>1. /\ runs[r].writer = "idle" /\ input # <<>> /\ input' = Tail(input)
          /\ runs' = Wrote(r, "sending", Head(input)) /\ UNCHANGED remote
      BY <2>2 DEF WriterTakes, Wrote
    <3>2. Head(input) \in Messages
      BY <1>3, <3>1, HeadTailProperties
    <3>3. runs'[r].writer = "sending" /\ runs'[r].item = Head(input)
      BY <1>3, <3>1, <3>2, WroteRuns
    <3>4. AfterItem(r) = remote
      BY <3>1 DEF AfterItem
    <3>5. AfterItem(r)' = IF Head(input).what # Typed THEN Head(input).what ELSE remote
      BY <3>1, <3>3 DEF AfterItem
    <3>6. LeavesInput(Tail(input), IF Head(input).what # Typed THEN Head(input).what ELSE remote,
                      size)
      BY <1>3, <2>1, <3>1, <3>4, LeavesInputTail
    <3> QED
      BY <1>1, <3>1, <3>5, <3>6 DEF LeavesInput
  <2>3. CASE WriterSent(r)
    <3>1. /\ runs[r].writer = "sending" /\ runs' = Wrote(r, "idle", Nothing)
          /\ remote' = IF runs[r].item.what = Typed THEN remote ELSE runs[r].item.what
          /\ UNCHANGED input
      BY <2>3 DEF WriterSent, Wrote
    <3>2. runs'[r].writer = "idle"
      BY <1>3, <3>1, WroteRuns
    <3>3. AfterItem(r)' = AfterItem(r)
      BY <3>1, <3>2 DEF AfterItem
    <3> QED
      BY <1>1, <2>1, <3>1, <3>3 DEF LeavesInput
  <2>4. CASE WriterEnds(r)
    <3>1. cancellation = r
      BY <1>1, <1>4, TalkingRun
    <3> DEFINE f == Wrote(r, "ended", Nothing)
    <3>2. runs' = Cancelled(f, cancellation)
      BY <2>4 DEF WriterEnds, Wrote
    <3>3. f \in [Runs -> Run] /\ r # 0 /\ cancellation \in 0..MaxRuns
      BY <1>3, <3>1, WroteRuns DEF TypeOK, Runs
    <3> HIDE DEF f
    <3>4. runs'[r].cancelled
      BY <3>1, <3>2, <3>3, CancelledRuns
    <3> QED
      BY <1>4, <3>4
  <2> QED
    BY <2>2, <2>3, <2>4 DEF WriterStep
<1>5. Talks(r)' <=> Talks(r)
  BY <1>1 DEF Talks
<1>6. initialization' # "ready" => ~Talks(r)'
  BY <1>1, <1>5 DEF SessionSizes, NotYet
<1> QED
  BY <1>1, <1>2, <1>4, <1>5, <1>6, OneMovesSizes DEF Before

LEMMA StartSizes ==
    ASSUME WindowInv, SessionSizes, NoneLive, StartRun
    PROVE  SessionSizes'
<1>1. PICK r \in Runs :
         /\ OneMoves(r) /\ runs'[r].phase \in {"preparing", "connecting", "ended"}
         /\ input' = <<>>
         /\ initialization' # "ready" =>
               initialization # "ready" /\ runs'[r].phase # "connecting"
  BY StartStep DEF WindowInv
<1>2. ~Talks(r)'
  BY <1>1 DEF Talks
<1> QED
  BY <1>1, <1>2, OneMovesSizes

-----------------------------------------------------------------------------
(* The page is ready once, before any session; what it has posted leaves the  *)
(* window's fields with its size.                                            *)
PageSizes == Leaves(fromPage, size, pageSize)
ReadyOnce ==
    /\ \A i \in 1..Len(fromPage) : fromPage[i].type = "ready" =>
          ~ready /\ \A j \in 1..Len(fromPage) : fromPage[j].type = "ready" => i = j
    /\ page = "absent" => fromPage = <<>> /\ ~ready
    /\ initialization = "ready" => ready

SizesInv == PageTypes /\ PageSizes /\ ReadyOnce /\ SessionSizes

(* What the window does between messages.                                    *)
Between ==
    \/ \E r \in Runs : PostReset(r) \/ PostOutput(r)
    \/ Restart \/ WindowStep \/ Initializes \/ ProcessFails

LEMMA StillSizes ==
    ASSUME WindowInv, SessionSizes, NoneMoves, UNCHANGED <<io, browser>>
    PROVE  SessionSizes'
  BY NoneMovesSizes DEF io, browser

LEMMA StopSizes ==
    ASSUME WindowInv, SessionSizes,
           \/ Reconnect \/ Disconnect \/ Resume \/ CloseInitialized \/ CloseAgain
           \/ \E insideEvent \in BOOLEAN : CloseSession(insideEvent)
    PROVE  SessionSizes'
<1>0. TypeOK
  BY DEF WindowInv
<1>1. ASSUME runs' = Cancelled(runs, cancellation) \/ UNCHANGED runs, UNCHANGED <<io, browser>>
      PROVE  SessionSizes'
  BY <1>0, <1>1, CancelMovesNone, UnchangedMovesNone, StillSizes
<1>2. CASE Reconnect
  <2>1. CASE StopWaits
    BY <1>1, <1>2, <2>1 DEF Reconnect, Wait, io
  <2>2. CASE ~StopWaits
    <3>1. StartRun
      BY <1>2, <2>2 DEF Reconnect
    <3>2. NoneLive
      BY <2>2, NotWaiting DEF StopWaits, Loaded
    <3> QED
      BY <3>1, <3>2, StartSizes
  <2> QED
    BY <2>1, <2>2
<1>3. CASE ResumeReconnect
  <2>1. CASE StartRun
    <3>1. NoneLive
      BY <1>3, StopsLeft DEF ResumeReconnect
    <3> QED
      BY <2>1, <3>1, StartSizes
  <2>2. CASE UNCHANGED <<runs, running, input, browser>>
    BY <1>1, <1>3, <2>2 DEF ResumeReconnect, io
  <2> QED
    BY <1>3, <2>1, <2>2 DEF ResumeReconnect
<1>4. CASE Disconnect
  BY <1>1, <1>4 DEF Disconnect, Wait
<1>5. CASE ResumeDisconnect \/ ResumeClose \/ CloseInitialized \/ CloseAgain
  BY <1>1, <1>5 DEF ResumeDisconnect, ResumeClose, CloseInitialized, CloseAgain
<1>6. ASSUME NEW insideEvent \in BOOLEAN, CloseSession(insideEvent) PROVE SessionSizes'
  BY <1>1, <1>6 DEF CloseSession, Wait
<1> QED
  BY <1>2, <1>3, <1>4, <1>5, <1>6 DEF Resume

LEMMA BetweenSizes ==
    ASSUME WindowInv, SessionSizes, Between
    PROVE  SessionSizes'
<1>0. TypeOK
  BY DEF WindowInv
<1>1. ASSUME NEW r \in Runs, RunStep(r) \/ WriterStep(r) PROVE SessionSizes'
  BY <1>1, RunSizes, WriterSizes
<1>2. CASE \E r \in Runs : PostReset(r) \/ PostOutput(r)
  BY <1>1, <1>2, Zenon DEF PostReset, PostOutput, RunStep, Proceeds
<1>3. CASE Restart
  BY <1>3, StopSizes DEF Restart, Resume
<1>4. CASE WindowStep
  <2>1. ASSUME NEW r \in Runs, Silent(r) PROVE SessionSizes'
    BY <1>1, <2>1, Zenon DEF Silent, RunStep, Proceeds
  <2>2. CASE PasteButton \/ AnswerPaste
    BY <2>2, HandledSizes DEF Handled
  <2>3. CASE \/ Disconnect \/ ResumeDisconnect \/ ResumeClose \/ CloseInitialized \/ CloseAgain
             \/ \E insideEvent \in BOOLEAN : CloseSession(insideEvent)
    BY <2>3, StopSizes DEF Resume
  <2> QED
    BY <1>4, <2>1, <2>2, <2>3, Zenon DEF WindowStep
<1>5. CASE Initializes
  <2>1. /\ NoneMoves /\ UNCHANGED <<input, remote, size>>
        /\ initialization' # "ready" => initialization # "ready"
    BY <1>0, <1>5, UnchangedMovesNone DEF Initializes, InitializationEnds, io
  <2> QED
    BY <2>1, NoneMovesSizes
<1>6. CASE ProcessFails
  <2>1. NoneMoves /\ UNCHANGED <<input, remote, size, initialization>>
    BY <1>0, <1>6, CancelMovesNone DEF ProcessFails, RendererFails, io
  <2> QED
    BY <2>1, NoneMovesSizes
<1> QED
  BY <1>2, <1>3, <1>4, <1>5, <1>6 DEF Between

(* Between messages the window changes neither its size nor what the page has *)
(* posted, and learns of nothing.                                            *)
LEMMA BetweenFrame ==
    ASSUME TypeOK, Between
    PROVE  /\ UNCHANGED <<size, page, pageSize, fromPage, ready>>
           /\ initialization' = "ready" => initialization = "ready" \/ ready
<1>1. ASSUME UNCHANGED pageVars PROVE UNCHANGED <<page, pageSize, fromPage, ready>>
  BY <1>1 DEF pageVars, channels
<1>2. ASSUME NEW r \in Runs, RunStep(r) \/ WriterStep(r) PROVE UNCHANGED <<size, initialization>>
  <2>1. ASSUME Finish(r) PROVE UNCHANGED <<size, initialization>>
    BY <2>1 DEF Finish, io, browser
  <2>2. CASE Prepared(r) \/ Connected(r) \/ Started(r) \/ Output(r) \/ Acknowledged(r)
    BY <2>2 DEF Prepared, Connected, Started, Output, Acknowledged, io, browser
  <2>3. CASE Interrupted(r) \/ SessionDisposed(r) \/ Drained(r) \/ Fails(r)
    BY <2>1, <2>3 DEF Interrupted, SessionDisposed, Drained, Fails, io, browser
  <2>4. CASE WriterStep(r)
    BY <2>4, WriterMoves DEF browser
  <2> QED
    BY <1>2, <2>2, <2>3, <2>4 DEF RunStep, Proceeds
<1>3. ASSUME NEW r \in Runs, PostReset(r) \/ PostOutput(r)
      PROVE  UNCHANGED <<size, initialization, page, pageSize, fromPage, ready>>
  <2>1. RunStep(r) /\ UNCHANGED <<page, pageSize, fromPage, ready>>
    BY <1>3 DEF PostReset, PostOutput, Posts, RunStep, Proceeds
  <2> QED
    BY <1>2, <2>1
<1>4. CASE Restart
  <2>1. UNCHANGED <<page, pageSize, fromPage, ready>>
    BY <1>1, <1>4 DEF Restart, Posts
  <2>2. UNCHANGED size
    BY <1>4 DEF Restart, Reconnect, ResumeReconnect
  <2>3. initialization' = "ready" => initialization = "ready"
    <3>1. UNCHANGED browser \/ StartRun
      BY <1>4 DEF Restart, Reconnect, ResumeReconnect
    <3> QED
      BY <3>1 DEF browser, StartRun
  <2> QED
    BY <2>1, <2>2, <2>3
<1>5. CASE WindowStep
  <2>1. ASSUME NEW r \in Runs, Silent(r) PROVE UNCHANGED <<size, initialization>>
    BY <1>2, <2>1 DEF Silent, RunStep, Proceeds
  <2>2. ASSUME PasteButton \/ AnswerPaste PROVE UNCHANGED <<size, initialization>>
    BY <2>2 DEF PasteButton, Paste, AnswerPaste, browser
  <2>3. ASSUME Disconnect \/ ResumeDisconnect \/ ResumeClose \/ CloseInitialized \/ CloseAgain
        PROVE  UNCHANGED <<size, initialization>>
    BY <2>3 DEF Disconnect, ResumeDisconnect, ResumeClose, CloseInitialized, CloseAgain, io, browser
  <2>4. ASSUME NEW insideEvent \in BOOLEAN, CloseSession(insideEvent)
        PROVE  UNCHANGED <<size, initialization>>
    BY <2>4 DEF CloseSession, io, browser
  <2>5. UNCHANGED <<size, initialization>> /\ UNCHANGED pageVars
    BY <1>5, <2>1, <2>2, <2>3, <2>4 DEF WindowStep
  <2> QED
    BY <1>1, <2>5
<1>6. CASE Initializes \/ ProcessFails
  <2>1. /\ UNCHANGED size /\ UNCHANGED pageVars
        /\ initialization' = "ready" => initialization = "ready" \/ ready
    BY <1>6 DEF Initializes, InitializationEnds, ProcessFails, RendererFails, io
  <2> QED
    BY <1>1, <2>1
<1> QED
  BY <1>3, <1>4, <1>5, <1>6 DEF Between

LEMMA BetweenKeeps ==
    ASSUME WindowInv, SizesInv, Between
    PROVE  PageSizes' /\ ReadyOnce' /\ SessionSizes'
<1>1. SessionSizes'
  BY BetweenSizes DEF SizesInv
<1>2. /\ UNCHANGED <<size, page, pageSize, fromPage, ready>>
      /\ initialization' = "ready" => initialization = "ready" \/ ready
  BY BetweenFrame DEF WindowInv
<1> QED
  BY <1>1, <1>2 DEF SizesInv, PageSizes, ReadyOnce, Leaves

LEMMA OnMessageKeeps ==
    ASSUME WindowInv, SizesInv, OnMessage
    PROVE  PageSizes' /\ ReadyOnce' /\ SessionSizes'
<1> DEFINE message == Head(fromPage)
<1>1. /\ fromPage \in Seq(Received) /\ fromPage # <<>> /\ fromPage' = Tail(fromPage)
      /\ ReceiveFrom(message) /\ UNCHANGED <<page, pageSize>>
  BY DEF SizesInv, PageTypes, OnMessage
<1>2. message \in Received /\ (IsSize(message) => message.value \in Sizes)
  BY <1>1, HeadTailProperties, MessageTypes DEF IsSize
<1>3. /\ Len(fromPage') = Len(fromPage) - 1 /\ Len(fromPage) \in Nat \ {0}
      /\ message = fromPage[1] /\ 1 \in 1..Len(fromPage)
      /\ \A i \in 1..Len(fromPage') : fromPage'[i] = fromPage[i + 1] /\ i + 1 \in 1..Len(fromPage)
  BY <1>1, HeadTailProperties, EmptySeq
<1>4. Leaves(Tail(fromPage), IF IsSize(message) THEN message.value ELSE size, pageSize)
  BY <1>1, LeavesTail DEF SizesInv, PageSizes
<1> HIDE DEF message
<1>5. /\ size' = IF IsSize(message) THEN message.value ELSE size
      /\ UNCHANGED initialization /\ (ready' <=> ready \/ message.type = "ready")
      /\ SessionSizes'
  <2>1. CASE message.type = "ready" /\ ReceiveReady(message.value) /\ ready' = TRUE
    <3>1. ~ready /\ initialization # "ready"
      BY <1>3, <2>1 DEF SizesInv, ReadyOnce
    <3>2. SessionSizes'
      BY <1>2, <2>1, <3>1, ReadySizes DEF SizesInv, IsSize
    <3> QED
      BY <2>1, <3>2 DEF ReceiveReady, IsSize, browser
  <2>2. CASE message.type = "resize" /\ ReceiveResize(message.value) /\ UNCHANGED ready
    <3>1. SessionSizes'
      BY <1>2, <2>2, HandledSizes DEF SizesInv, IsSize, Handled
    <3> QED
      BY <2>2, <3>1 DEF ReceiveResize, Resize, IsSize, browser
  <2>3. CASE message.type \in {"input", "paste"} /\ (Type \/ ReceivePaste) /\ UNCHANGED ready
    <3>1. SessionSizes'
      BY <2>3, HandledSizes DEF SizesInv, Handled
    <3> QED
      BY <2>3, <3>1 DEF Type, ReceivePaste, Paste, IsSize, browser
  <2>4. CASE message.type = "ack" /\ Acknowledge /\ UNCHANGED ready
    <3>1. UNCHANGED <<runs, input, size, remote, initialization>>
      BY <2>4 DEF Acknowledge, browser
    <3>2. SessionSizes'
      BY <3>1, UnchangedMovesNone, NoneMovesSizes DEF SizesInv, WindowInv
    <3> QED
      BY <2>4, <3>1, <3>2 DEF IsSize
  <2> QED
    BY <1>1, <2>1, <2>2, <2>3, <2>4 DEF ReceiveFrom
<1>6. PageSizes'
  BY <1>1, <1>4, <1>5 DEF PageSizes, Leaves
<1>7. ReadyOnce'
  <2>1. ASSUME NEW i \in 1..Len(fromPage'), fromPage'[i].type = "ready"
        PROVE  ~ready' /\ \A j \in 1..Len(fromPage') : fromPage'[j].type = "ready" => i = j
    <3>1. /\ i + 1 \in 1..Len(fromPage) /\ fromPage[i + 1].type = "ready" /\ i + 1 # 1
          /\ ~ready
          /\ \A j \in 1..Len(fromPage) : fromPage[j].type = "ready" => i + 1 = j
      BY <1>3, <2>1 DEF SizesInv, ReadyOnce
    <3>2. message.type # "ready"
      BY <1>3, <3>1
    <3>3. \A j \in 1..Len(fromPage') : fromPage'[j].type = "ready" => i + 1 = j + 1
      BY <1>3, <3>1
    <3>4. ASSUME NEW j \in 1..Len(fromPage'), fromPage'[j].type = "ready" PROVE i = j
      <4>1. i + 1 = j + 1
        BY <3>3, <3>4, Zenon
      <4> QED
        BY <4>1
    <3>5. ~ready'
      BY <1>5, <3>1, <3>2, Zenon
    <3> QED
      BY <3>4, <3>5, Zenon
  <2>2. page # "absent"
    BY <1>1 DEF SizesInv, ReadyOnce
  <2>3. initialization' = "ready" => ready'
    BY <1>5 DEF SizesInv, ReadyOnce
  <2> QED
    BY <1>1, <2>1, <2>2, <2>3 DEF ReadyOnce
<1> QED
  BY <1>5, <1>6, <1>7

LEMMA Appended ==
    ASSUME NEW s \in Seq(Received), NEW t \in Seq(Received)
    PROVE  /\ Len(s \o t) = Len(s) + Len(t) /\ Len(s) \in Nat /\ Len(t) \in Nat
           /\ \A i \in 1..Len(s) : (s \o t)[i] = s[i]
           /\ \A i \in 1..Len(s \o t) :
                 \/ i \in 1..Len(s)
                 \/ i - Len(s) \in 1..Len(t) /\ (s \o t)[i] = t[i - Len(s)]
  OBVIOUS

LEMMA AppendedReady ==
    ASSUME ReadyOnce, fromPage \in Seq(Received), page = "loaded", NEW t \in Seq(Received),
           \A i \in 1..Len(t) : t[i].type # "ready", fromPage' = fromPage \o t,
           UNCHANGED <<ready, initialization, page>>
    PROVE  ReadyOnce'
<1>1. /\ \A i \in 1..Len(fromPage) : fromPage'[i] = fromPage[i]
      /\ \A i \in 1..Len(fromPage') :
            \/ i \in 1..Len(fromPage)
            \/ i - Len(fromPage) \in 1..Len(t) /\ fromPage'[i] = t[i - Len(fromPage)]
  BY Appended
<1>2. \A i \in 1..Len(fromPage') : fromPage'[i].type = "ready" =>
         i \in 1..Len(fromPage) /\ fromPage[i].type = "ready"
  BY <1>1
<1> QED
  BY <1>2 DEF ReadyOnce

(* Messages that are no sizes change nothing.                                *)
LEMMA QuietSizes ==
    ASSUME SizesInv, NEW t \in Seq(Received), \A i \in 1..Len(t) : ~IsSize(t[i]),
           page = "loaded", fromPage' = fromPage \o t,
           UNCHANGED <<size, pageSize, ready, initialization, page>>
    PROVE  PageSizes' /\ ReadyOnce'
<1>1. fromPage \in Seq(Received) /\ Leaves(fromPage, size, pageSize)
  BY DEF SizesInv, PageTypes, PageSizes
<1>2. /\ Len(fromPage') = Len(fromPage) + Len(t) /\ Len(fromPage) \in Nat /\ Len(t) \in Nat
      /\ \A i \in 1..Len(fromPage) : fromPage'[i] = fromPage[i]
      /\ \A i \in 1..Len(fromPage') :
            \/ i \in 1..Len(fromPage)
            \/ i - Len(fromPage) \in 1..Len(t) /\ fromPage'[i] = t[i - Len(fromPage)]
  BY <1>1, Appended
<1>3. \A i \in 1..Len(fromPage') : IsSize(fromPage'[i]) => i \in 1..Len(fromPage)
  BY <1>2
<1>4. \A i \in 1..Len(fromPage) : i \in 1..Len(fromPage')
  BY <1>2
<1>5. PageSizes'
  <2>1. CASE pageSize = size /\ \A i \in 1..Len(fromPage) : ~IsSize(fromPage[i])
    BY <1>2, <1>3, <2>1 DEF PageSizes, Leaves
  <2>2. ASSUME NEW i \in 1..Len(fromPage), IsSize(fromPage[i]), fromPage[i].value = pageSize,
               \A j \in 1..Len(fromPage) : j > i => ~IsSize(fromPage[j])
        PROVE  PageSizes'
    <3>1. /\ i \in 1..Len(fromPage') /\ IsSize(fromPage'[i]) /\ fromPage'[i].value = pageSize'
          /\ \A j \in 1..Len(fromPage') : j > i => ~IsSize(fromPage'[j])
      BY <1>2, <1>3, <1>4, <2>2
    <3> QED
      BY <3>1, Zenon DEF PageSizes, Leaves
  <2> QED
    BY <1>1, <2>1, <2>2 DEF Leaves
<1>6. ReadyOnce'
  <2>1. \A i \in 1..Len(t) : t[i].type # "ready"
    BY DEF IsSize
  <2> QED
    BY <1>1, <2>1, AppendedReady DEF SizesInv
<1> QED
  BY <1>5, <1>6

(* What the page posts is a size, its own, or no size.                       *)
LEMMA FitsSizes ==
    ASSUME SizesInv, page = "loaded", NEW newSize \in Sizes, pageSize' = newSize,
           fromPage' = fromPage \o Fits(newSize), UNCHANGED <<size, ready, initialization, page>>
    PROVE  PageSizes' /\ ReadyOnce'
<1>1. fromPage \in Seq(Received) /\ Leaves(fromPage, size, pageSize)
  BY DEF SizesInv, PageTypes, PageSizes
<1>2. CASE newSize = pageSize
  <2>1. fromPage' = fromPage
    BY <1>1, <1>2 DEF Fits
  <2> QED
    BY <1>2, <2>1 DEF SizesInv, PageSizes, ReadyOnce
<1>3. CASE newSize # pageSize
  <2> DEFINE message == FromPage("resize", newSize)
  <2>1. /\ message \in Received /\ IsSize(message)
        /\ message.value = newSize /\ message.type = "resize"
    BY MessageTypes DEF FromPage, IsSize
  <2>2. fromPage' = fromPage \o <<message>>
    BY <1>3 DEF Fits
  <2> HIDE DEF message
  <2>3. fromPage' = Append(fromPage, message)
    BY <1>1, <2>1, <2>2
  <2>4. PageSizes'
    BY <1>1, <2>1, <2>3, LeavesAppend DEF PageSizes, Leaves
  <2>5. ReadyOnce'
    <3>1. <<message>> \in Seq(Received) /\ \A i \in 1..Len(<<message>>) : <<message>>[i] = message
      BY <2>1
    <3> QED
      BY <1>1, <2>1, <2>2, <3>1, AppendedReady DEF SizesInv
  <2> QED
    BY <2>4, <2>5
<1> QED
  BY <1>2, <1>3

LEMMA LoadSizes ==
    ASSUME SizesInv, Load, UNCHANGED vars
    PROVE  PageSizes' /\ ReadyOnce'
<1>1. PICK newSize \in Sizes : /\ pageSize' = newSize
                               /\ fromPage' = Append(Fits(newSize), FromPage("ready", newSize))
  BY DEF Load
<1>2. ~ready' /\ page' = "loaded" /\ initialization' # "ready" /\ UNCHANGED size
  BY DEF Load, SizesInv, ReadyOnce, vars, io, browser
<1> DEFINE message == FromPage("ready", newSize)
           fits == Fits(newSize)
<1>3. /\ message.type = "ready" /\ message.value = newSize /\ IsSize(message)
      /\ FromPage("resize", newSize).type = "resize" /\ message \in Received
      /\ FromPage("resize", newSize) \in Received
  BY MessageTypes DEF FromPage, IsSize
<1>4. fits \in Seq(Received) /\ \A i \in 1..Len(fits) : fits[i].type # "ready"
  BY <1>3 DEF Fits
<1>5. fromPage' = Append(fits, message)
  BY <1>1
<1> HIDE DEF message, fits
<1>6. /\ Len(fromPage') = Len(fits) + 1 /\ Len(fits) \in Nat
      /\ fromPage'[Len(fits) + 1] = message
      /\ \A i \in 1..Len(fits) : fromPage'[i] = fits[i]
  BY <1>3, <1>4, <1>5
<1>7. PageSizes'
  <2>1. Len(fits) + 1 \in 1..Len(fromPage') /\ \A j \in 1..Len(fromPage') : ~(j > Len(fits) + 1)
    BY <1>6
  <2> QED
    BY <1>1, <1>3, <1>6, <2>1 DEF PageSizes, Leaves
<1>8. ReadyOnce'
  <2>1. \A i \in 1..Len(fromPage') : fromPage'[i].type = "ready" => i = Len(fits) + 1
    BY <1>4, <1>6
  <2> QED
    BY <1>2, <2>1 DEF ReadyOnce
<1> QED
  BY <1>7, <1>8

LEMMA PageStepKeeps ==
    ASSUME SizesInv, PageStep
    PROVE  PageSizes' /\ ReadyOnce' /\ SessionSizes'
<1>1. SessionSizes'
  BY DEF PageStep, SizesInv, vars, io, browser, SessionSizes, RemoteSizes, FreshInput, NotYet,
         Talks, AfterItem, LeavesInput
<1>2. UNCHANGED vars /\ UNCHANGED <<size, initialization>>
  BY DEF PageStep, vars, io, browser
<1>3. fromPage \in Seq(Received) /\ pageSize \in Sizes /\ writes \in Seq(Runs)
  BY DEF SizesInv, PageTypes
<1>4. CASE Load
  BY <1>1, <1>2, <1>4, LoadSizes
<1>5. CASE Alive /\ (ReceiveReset \/ ObserveResize)
  <2>1. PICK newSize \in {pageSize} \cup NewSizes :
           pageSize' = newSize /\ fromPage' = fromPage \o Fits(newSize)
    BY <1>5 DEF ReceiveReset, ObserveResize
  <2>2. newSize \in Sizes
    BY <1>3 DEF NewSizes
  <2>3. page = "loaded" /\ UNCHANGED <<ready, page>>
    BY <1>5 DEF Alive, ReceiveReset, ObserveResize
  <2> QED
    BY <1>1, <1>2, <2>1, <2>2, <2>3, FitsSizes
<1>6. CASE Alive /\ ReceiveOutput
  BY <1>1, <1>2, <1>6 DEF ReceiveOutput, SizesInv, PageSizes, ReadyOnce, Leaves
<1>7. ASSUME Alive, UNCHANGED <<page, pageSize, ready>>, NEW t \in Seq(Received),
             \A i \in 1..Len(t) : ~IsSize(t[i]), fromPage' = fromPage \o t
      PROVE  PageSizes' /\ ReadyOnce' /\ SessionSizes'
  BY <1>1, <1>2, <1>7, QuietSizes DEF Alive
<1>8. /\ FromPage("input", Typed) \in Received /\ ~IsSize(FromPage("input", Typed))
      /\ FromPage("paste", Typed) \in Received /\ ~IsSize(FromPage("paste", Typed))
      /\ \A r \in Runs : FromPage("ack", r) \in Received /\ ~IsSize(FromPage("ack", r))
  BY MessageTypes DEF FromPage, IsSize
<1>9. CASE Alive /\ Parse
  <2>1. PICK answer \in Answers :
           fromPage' = fromPage \o answer \o <<FromPage("ack", Head(writes))>>
    BY <1>9 DEF Parse
  <2> DEFINE ack == FromPage("ack", Head(writes))
             typed == FromPage("input", Typed)
  <2>2. /\ ack \in Received /\ ~IsSize(ack) /\ typed \in Received /\ ~IsSize(typed)
    BY <1>3, <1>8, <1>9, HeadTailProperties DEF Parse
  <2>3. answer = <<>> \/ answer = <<typed>>
    BY DEF Answers
  <2> HIDE DEF ack, typed
  <2>4. fromPage' = fromPage \o answer \o <<ack>>
    BY <2>1 DEF ack
  <2>5. CASE answer = <<>>
    <3>1. fromPage' = fromPage \o <<ack>>
      BY <1>3, <2>2, <2>4, <2>5
    <3>2. <<ack>> \in Seq(Received) /\ \A i \in 1..Len(<<ack>>) : ~IsSize(<<ack>>[i])
      BY <2>2
    <3> QED
      BY <1>7, <1>9, <3>1, <3>2 DEF Parse
  <2>6. CASE answer = <<typed>>
    <3>1. <<typed>> \in Seq(Received) /\ <<ack>> \in Seq(Received)
      BY <2>2
    <3> DEFINE both == <<typed>> \o <<ack>>
    <3>2. fromPage' = fromPage \o both
      <4>1. fromPage' = fromPage \o <<typed>> \o <<ack>>
        BY <2>4, <2>6, Zenon
      <4>2. fromPage \in Seq(Received)
        BY <1>3, Zenon
      <4> QED
        BY ONLY <3>1, <4>1, <4>2, ConcatAssociative
    <3>3. both \in Seq(Received)
      BY <3>1
    <3>4. \A i \in 1..Len(both) : both[i] \in {typed, ack}
      BY <3>1, Appended
    <3> HIDE DEF both
    <3> QED
      BY <1>7, <1>9, <2>2, <3>2, <3>3, <3>4 DEF Parse
  <2> QED
    BY <2>3, <2>5, <2>6
<1>10. CASE Alive /\ PressKey
  <2>1. PICK type \in {"input", "paste"} : fromPage' = Append(fromPage, FromPage(type, Typed))
    BY <1>10 DEF PressKey
  <2> DEFINE message == FromPage(type, Typed)
  <2>2. message \in Received /\ ~IsSize(message)
    BY <1>8
  <2> HIDE DEF message
  <2>3. fromPage' = fromPage \o <<message>>
    BY <1>3, <2>1, <2>2 DEF message
  <2>4. <<message>> \in Seq(Received) /\ \A i \in 1..Len(<<message>>) : ~IsSize(<<message>>[i])
    BY <2>2
  <2> QED
    BY <1>7, <1>10, <2>3, <2>4 DEF PressKey
<1> QED
  BY <1>4, <1>5, <1>6, <1>9, <1>10 DEF PageStep

LEMMA SizesStep == WindowInv /\ SizesInv /\ [BridgeNext]_bridgeVars => SizesInv'
<1> SUFFICES ASSUME WindowInv, SizesInv, BridgeNext \/ UNCHANGED bridgeVars
             PROVE  SizesInv'
  OBVIOUS
<1>1. PageTypes'
  BY NextTypes DEF SizesInv
<1>2. CASE Between
  BY <1>1, <1>2, BetweenKeeps DEF SizesInv
<1>3. CASE OnMessage
  BY <1>1, <1>3, OnMessageKeeps DEF SizesInv
<1>4. CASE PageStep
  BY <1>1, <1>4, PageStepKeeps DEF SizesInv
<1>5. CASE UNCHANGED bridgeVars
  BY <1>1, <1>5 DEF bridgeVars, pageVars, channels, vars, io, browser, SizesInv, PageSizes,
         ReadyOnce, SessionSizes, RemoteSizes, FreshInput, NotYet, Talks, AfterItem, Leaves,
         LeavesInput
<1> QED
  BY <1>2, <1>3, <1>4, <1>5 DEF BridgeNext, Between

LEMMA SizesInit == BridgeInit => SizesInv
<1> SUFFICES ASSUME BridgeInit
             PROVE  SizesInv
  OBVIOUS
<1>1. Init /\ fromPage = <<>> /\ Len(<<>>) = 0 /\ pageSize = size /\ ~ready
  BY EmptySeq DEF BridgeInit, Init
<1>2. PageSizes /\ ReadyOnce
  BY <1>1 DEF Init, PageSizes, ReadyOnce, Leaves
<1>3. SessionSizes
  BY <1>1 DEF Init, SessionSizes, RemoteSizes, FreshInput, NotYet, Talks
<1> QED
  BY <1>2, <1>3, InitTypes DEF SizesInv

(* A session whose messages have been sent has the size of the page, however  *)
(* resizes, connections, pastes and failures interleave (SetSize, RunAsync,  *)
(* terminal.js).                                                             *)
THEOREM SizeArrives == BridgeSpec => []SizeFollows
<1>1. WindowInv /\ SizesInv => SizeFollows
  <2> SUFFICES ASSUME WindowInv, SizesInv, NEW r \in Runs, Settled(r)
               PROVE  remote = pageSize
    BY DEF SizeFollows
  <2>1. Talks(r) /\ ~runs[r].cancelled /\ input = <<>> /\ runs[r].writer = "idle"
    BY DEF Settled, Talks
  <2>2. LeavesInput(input, remote, size)
    BY <2>1 DEF SizesInv, SessionSizes, RemoteSizes, AfterItem
  <2>3. 1..Len(input) = {}
    BY <2>1, EmptySeq
  <2>4. size = remote
    BY <2>2, <2>3 DEF LeavesInput
  <2>5. \A i \in 1..Len(fromPage) : ~IsSize(fromPage[i])
    BY DEF Settled, IsSize, SizesInv, PageTypes
  <2>6. pageSize = size
    BY <2>5 DEF SizesInv, PageSizes, Leaves
  <2> QED
    BY <2>4, <2>6
<1>2. BridgeInit => WindowInv
  BY InitInv DEF BridgeInit
<1>3. WindowInv /\ SizesInv /\ [BridgeNext]_bridgeVars => WindowInv' /\ SizesInv'
  BY SizesStep, StepMaps, NextKeeps DEF SizesInv
<1> QED
  BY <1>1, <1>2, <1>3, SizesInit, PTL DEF BridgeSpec
-----------------------------------------------------------------------------
(* The chunks between the window and its renderer.  A pipe that is changed   *)
(* around its chunks still holds them: the places move, in their order.      *)
Moves(moved, pipe, new) ==
    /\ \A p, q \in Filled(pipe) : p < q => moved[p] < moved[q]
    /\ \A q \in Filled(new) : \E p \in Filled(pipe) : moved[p] = q
    /\ \A p \in Filled(pipe) : new[moved[p]] = pipe[p]

LEMMA Carried ==
    ASSUME NEW pipe, NEW new, NEW s, Holds(pipe, s),
           NEW moved \in [Filled(pipe) -> Filled(new)], Moves(moved, pipe, new)
    PROVE  Holds(new, s)
<1>1. PICK at \in [DOMAIN s -> Filled(pipe)] : Places(at, pipe, s)
  BY DEF Holds
<1> DEFINE there == [i \in DOMAIN s |-> moved[at[i]]]
<1>2. there \in [DOMAIN s -> Filled(new)]
  OBVIOUS
<1>3. \A i, j \in DOMAIN s : i < j => there[i] < there[j]
  BY <1>1 DEF Places, Moves
<1>4. \A q \in Filled(new) : \E i \in DOMAIN s : there[i] = q
  BY <1>1 DEF Places, Moves
<1>5. \A i \in DOMAIN s : s[i] = new[there[i]]
  BY <1>1 DEF Places, Moves
<1> HIDE DEF there
<1> QED
  BY <1>2, <1>3, <1>4, <1>5 DEF Holds, Places

LEMMA FilledPlaces ==
    ASSUME NEW pipe \in Seq(Nat)
    PROVE  /\ Len(pipe) \in Nat /\ DOMAIN pipe = 1..Len(pipe)
           /\ \A p : p \in Filled(pipe) <=> p \in 1..Len(pipe) /\ pipe[p] # 0
  BY DEF Filled

(* Messages that are no chunks come in between.                              *)
Inserted(pipe, new, k, d) ==
    /\ Len(new) = Len(pipe) + d
    /\ \A i \in 1..k : new[i] = pipe[i]
    /\ \A i \in k + 1..k + d : new[i] = 0
    /\ \A i \in k + 1..Len(pipe) : new[i + d] = pipe[i]

LEMMA Spread ==
    ASSUME NEW pipe \in Seq(Nat), NEW new \in Seq(Nat), NEW s, Holds(pipe, s),
           NEW k \in 0..Len(pipe), NEW d \in Nat, Inserted(pipe, new, k, d)
    PROVE  Holds(new, s)
<1> DEFINE moved == [p \in Filled(pipe) |-> IF p <= k THEN p ELSE p + d]
           n == Len(pipe)
<1>1. n \in Nat /\ k \in Nat /\ k <= n /\ Len(new) = n + d
  BY DEF Inserted
<1>2. /\ \A i \in 1..k : new[i] = pipe[i]
      /\ \A i \in k + 1..k + d : new[i] = 0
      /\ \A i \in k + 1..n : new[i + d] = pipe[i]
  BY DEF Inserted
<1>3. /\ \A p : p \in Filled(pipe) <=> p \in 1..n /\ pipe[p] # 0
      /\ \A p : p \in Filled(new) <=> p \in 1..n + d /\ new[p] # 0
  BY <1>1, FilledPlaces
<1>4. \A p \in Filled(pipe) : moved[p] = IF p <= k THEN p ELSE p + d
  OBVIOUS
<1>5. moved = [p \in Filled(pipe) |-> moved[p]]
  OBVIOUS
<1> HIDE DEF moved, n
<1>6. ASSUME NEW p \in Filled(pipe)
      PROVE  moved[p] \in Filled(new) /\ new[moved[p]] = pipe[p]
  <2>1. p \in 1..n /\ pipe[p] # 0
    BY <1>3
  <2>2. moved[p] = IF p <= k THEN p ELSE p + d
    BY <1>4
  <2>3. CASE p <= k
    <3>1. p \in 1..k /\ p \in 1..n + d
      BY <1>1, <2>1, <2>3
    <3>2. new[p] = pipe[p]
      BY <1>2, <3>1
    <3>3. p \in Filled(new)
      BY <1>3, <2>1, <3>1, <3>2
    <3> QED
      BY <2>2, <2>3, <3>2, <3>3
  <2>4. CASE ~(p <= k)
    <3>1. p \in k + 1..n /\ p + d \in 1..n + d
      BY <1>1, <2>1, <2>4
    <3>2. new[p + d] = pipe[p]
      BY <1>2, <3>1
    <3>3. p + d \in Filled(new)
      BY <1>3, <2>1, <3>1, <3>2
    <3> QED
      BY <2>2, <2>4, <3>2, <3>3
  <2> QED
    BY <2>3, <2>4
<1>7. ASSUME NEW p \in Filled(pipe), NEW q \in Filled(pipe), p < q
      PROVE  moved[p] < moved[q]
  <2>1. p \in Nat /\ q \in Nat
    BY <1>3
  <2>2. moved[p] = (IF p <= k THEN p ELSE p + d) /\ moved[q] = (IF q <= k THEN q ELSE q + d)
    BY <1>4
  <2> QED
    BY ONLY <1>1, <1>7, <2>1, <2>2
<1>8. ASSUME NEW q \in Filled(new)
      PROVE  \E p \in Filled(pipe) : moved[p] = q
  <2>1. q \in 1..n + d /\ new[q] # 0
    BY <1>3
  <2>2. CASE q <= k
    <3>1. q \in 1..k /\ q \in 1..n
      BY <1>1, <2>1, <2>2
    <3>2. new[q] = pipe[q]
      BY <1>2, <3>1
    <3>3. q \in Filled(pipe)
      BY <1>3, <2>1, <3>1, <3>2
    <3> QED
      BY <1>4, <2>2, <3>3
  <2>3. CASE q \in k + 1..k + d
    BY <1>2, <2>1, <2>3
  <2>4. CASE q > k + d
    <3> DEFINE p == q - d
    <3>1. p \in k + 1..n /\ p + d = q /\ p \in 1..n /\ ~(p <= k)
      BY <1>1, <2>1, <2>4
    <3> HIDE DEF p
    <3>2. new[p + d] = pipe[p]
      BY <1>2, <3>1
    <3>3. p \in Filled(pipe)
      BY <1>3, <2>1, <3>1, <3>2
    <3>4. moved[p] = q
      BY <1>4, <3>1, <3>3
    <3> QED
      BY <3>3, <3>4
  <2>5. q <= k \/ q \in k + 1..k + d \/ q > k + d
    BY <1>1, <2>1
  <2> QED
    BY <2>2, <2>3, <2>4, <2>5
<1>9. moved \in [Filled(pipe) -> Filled(new)]
  BY <1>5, <1>6
<1>10. Moves(moved, pipe, new)
  BY <1>6, <1>7, <1>8 DEF Moves
<1> QED
  BY <1>9, <1>10, Carried

(* A message that is no chunk is taken out.                                  *)
Removed(pipe, new, k) ==
    /\ pipe[k] = 0 /\ Len(new) = Len(pipe) - 1
    /\ \A i \in 1..k - 1 : new[i] = pipe[i]
    /\ \A i \in k + 1..Len(pipe) : new[i - 1] = pipe[i]

LEMMA Narrowed ==
    ASSUME NEW pipe \in Seq(Nat), NEW new \in Seq(Nat), NEW s, Holds(pipe, s),
           NEW k \in 1..Len(pipe), Removed(pipe, new, k)
    PROVE  Holds(new, s)
<1> DEFINE moved == [p \in Filled(pipe) |-> IF p < k THEN p ELSE p - 1]
           n == Len(pipe)
<1>1. n \in Nat /\ k \in Nat /\ 1 <= k /\ k <= n /\ Len(new) = n - 1
  BY DEF Removed
<1>2. /\ pipe[k] = 0
      /\ \A i \in 1..k - 1 : new[i] = pipe[i]
      /\ \A i \in k + 1..n : new[i - 1] = pipe[i]
  BY DEF Removed
<1>3. /\ \A p : p \in Filled(pipe) <=> p \in 1..n /\ pipe[p] # 0
      /\ \A p : p \in Filled(new) <=> p \in 1..n - 1 /\ new[p] # 0
  BY <1>1, FilledPlaces
<1>4. \A p \in Filled(pipe) : moved[p] = IF p < k THEN p ELSE p - 1
  OBVIOUS
<1>5. moved = [p \in Filled(pipe) |-> moved[p]]
  OBVIOUS
<1> HIDE DEF moved, n
<1>6. ASSUME NEW p \in Filled(pipe)
      PROVE  moved[p] \in Filled(new) /\ new[moved[p]] = pipe[p]
  <2>1. p \in 1..n /\ pipe[p] # 0 /\ p # k
    BY <1>2, <1>3
  <2>2. moved[p] = IF p < k THEN p ELSE p - 1
    BY <1>4
  <2>3. CASE p < k
    <3>1. p \in 1..k - 1 /\ p \in 1..n - 1
      BY <1>1, <2>1, <2>3
    <3>2. new[p] = pipe[p]
      BY <1>2, <3>1
    <3>3. p \in Filled(new)
      BY <1>3, <2>1, <3>1, <3>2
    <3> QED
      BY <2>2, <2>3, <3>2, <3>3
  <2>4. CASE ~(p < k)
    <3>1. p \in k + 1..n /\ p - 1 \in 1..n - 1
      BY <1>1, <2>1, <2>4
    <3>2. new[p - 1] = pipe[p]
      BY <1>2, <3>1
    <3>3. p - 1 \in Filled(new)
      BY <1>3, <2>1, <3>1, <3>2
    <3> QED
      BY <2>2, <2>4, <3>2, <3>3
  <2> QED
    BY <2>3, <2>4
<1>7. ASSUME NEW p \in Filled(pipe), NEW q \in Filled(pipe), p < q
      PROVE  moved[p] < moved[q]
  <2>0. p \in 1..n /\ pipe[p] # 0 /\ q \in 1..n /\ pipe[q] # 0
    BY <1>3, Zenon
  <2>1. p \in Nat /\ q \in Nat /\ p # k /\ q # k
    BY ONLY <1>1, <1>2, <2>0
  <2>2. moved[p] = (IF p < k THEN p ELSE p - 1) /\ moved[q] = (IF q < k THEN q ELSE q - 1)
    BY <1>4
  <2> QED
    BY ONLY <1>1, <1>7, <2>1, <2>2
<1>8. ASSUME NEW q \in Filled(new)
      PROVE  \E p \in Filled(pipe) : moved[p] = q
  <2>1. q \in 1..n - 1 /\ new[q] # 0
    BY <1>3
  <2>2. CASE q < k
    <3>1. q \in 1..k - 1 /\ q \in 1..n
      BY <1>1, <2>1, <2>2
    <3>2. new[q] = pipe[q]
      BY <1>2, <3>1
    <3>3. q \in Filled(pipe)
      BY <1>3, <2>1, <3>1, <3>2
    <3> QED
      BY <1>4, <2>2, <3>3
  <2>3. CASE ~(q < k)
    <3> DEFINE p == q + 1
    <3>1. p \in k + 1..n /\ p - 1 = q /\ p \in 1..n /\ ~(p < k)
      BY <1>1, <2>1, <2>3
    <3> HIDE DEF p
    <3>2. new[p - 1] = pipe[p]
      BY <1>2, <3>1
    <3>3. p \in Filled(pipe)
      BY <1>3, <2>1, <3>1, <3>2
    <3>4. moved[p] = q
      BY <1>4, <3>1, <3>3
    <3> QED
      BY <3>3, <3>4
  <2> QED
    BY <2>2, <2>3
<1>9. moved \in [Filled(pipe) -> Filled(new)]
  BY <1>5, <1>6
<1>10. Moves(moved, pipe, new)
  BY <1>6, <1>7, <1>8 DEF Moves
<1> QED
  BY <1>9, <1>10, Carried

(* A chunk is posted.                                                        *)
LEMMA Extended ==
    ASSUME NEW pipe \in Seq(Nat), NEW s \in Seq(Nat), Holds(pipe, s), NEW r \in Nat \ {0}
    PROVE  Holds(Append(pipe, r), Append(s, r))
<1> DEFINE new == Append(pipe, r)
           all == Append(s, r)
           n == Len(pipe)
           m == Len(s)
<1>1. PICK at \in [DOMAIN s -> Filled(pipe)] : Places(at, pipe, s)
  BY DEF Holds
<1>2. /\ n \in Nat /\ m \in Nat /\ DOMAIN pipe = 1..n /\ DOMAIN new = 1..n + 1
      /\ DOMAIN s = 1..m /\ DOMAIN all = 1..m + 1
      /\ new[n + 1] = r /\ all[m + 1] = r
      /\ \A p \in 1..n : new[p] = pipe[p]
      /\ \A i \in 1..m : all[i] = s[i]
  BY AppendProperties
<1> HIDE DEF new, all, n, m
<1>3. \A i \in 1..m : at[i] \in 1..n /\ at[i] \in Filled(pipe)
  BY <1>2 DEF Filled
<1>4. Filled(new) = Filled(pipe) \cup {n + 1}
  BY <1>2 DEF Filled
<1> DEFINE there == [i \in 1..m + 1 |-> IF i = m + 1 THEN n + 1 ELSE at[i]]
<1>5. there \in [DOMAIN all -> Filled(new)]
  BY <1>2, <1>3, <1>4
<1>6. ASSUME NEW i \in 1..m + 1, NEW j \in 1..m + 1, i < j PROVE there[i] < there[j]
  <2>1. i \in 1..m /\ there[i] = at[i]
    <3>1. i \in 1..m /\ i # m + 1
      BY <1>2, <1>6
    <3> QED
      BY <3>1
  <2>2. CASE j = m + 1
    BY <1>2, <1>3, <2>1, <2>2
  <2>3. CASE j # m + 1
    <3>1. j \in 1..m /\ there[j] = at[j]
      BY <1>2, <2>3
    <3>2. at[i] < at[j]
      BY <1>1, <1>2, <1>6, <2>1, <3>1 DEF Places
    <3> QED
      BY <2>1, <3>1, <3>2
  <2> QED
    BY <2>2, <2>3
<1>7. ASSUME NEW q \in Filled(new) PROVE \E i \in 1..m + 1 : there[i] = q
  <2>1. CASE q = n + 1
    BY <1>2, <2>1
  <2>2. CASE q \in Filled(pipe)
    <3>1. PICK i \in 1..m : at[i] = q
      BY <1>1, <1>2, <2>2 DEF Places
    <3>2. i \in 1..m + 1 /\ there[i] = q
      BY <1>2, <3>1
    <3> QED
      BY <3>2
  <2> QED
    BY <1>4, <2>1, <2>2
<1>8. ASSUME NEW i \in 1..m + 1 PROVE all[i] = new[there[i]]
  <2>1. CASE i = m + 1
    BY <1>2, <2>1
  <2>2. CASE i # m + 1
    <3>1. i \in 1..m /\ there[i] = at[i]
      BY <1>2, <2>2
    <3>2. s[i] = pipe[at[i]]
      BY <1>1, <1>2, <3>1 DEF Places
    <3> QED
      BY <1>2, <1>3, <3>1, <3>2
  <2> QED
    BY <2>1, <2>2
<1> HIDE DEF there
<1>9. Places(there, new, all)
  BY <1>2, <1>6, <1>7, <1>8 DEF Places
<1>10. Holds(new, all)
  BY <1>5, <1>9 DEF Holds
<1> QED
  BY <1>10 DEF new, all

(* The chunk at the head of the pipe is the first that the pipe holds.       *)
LEMMA Consumed ==
    ASSUME NEW pipe \in Seq(Nat), NEW s \in Seq(Nat), Holds(pipe, s),
           pipe # <<>>, pipe[1] # 0
    PROVE  s # <<>> /\ Head(s) = Head(pipe) /\ Holds(Tail(pipe), Tail(s))
<1> DEFINE new == Tail(pipe)
           rest == Tail(s)
           n == Len(pipe)
           m == Len(s)
<1>1. PICK at \in [DOMAIN s -> Filled(pipe)] : Places(at, pipe, s)
  BY DEF Holds
<1>2. /\ n \in Nat \ {0} /\ DOMAIN pipe = 1..n /\ m \in Nat /\ DOMAIN s = 1..m
      /\ Head(pipe) = pipe[1] /\ new \in Seq(Nat) /\ DOMAIN new = 1..n - 1
      /\ \A p \in 1..n - 1 : new[p] = pipe[p + 1]
  BY EmptySeq, HeadTailProperties
<1> HIDE DEF new, rest
<1>3. /\ \A p : p \in Filled(pipe) <=> p \in 1..n /\ pipe[p] # 0
      /\ \A p : p \in Filled(new) <=> p \in 1..n - 1 /\ new[p] # 0
  BY <1>2, FilledPlaces DEF Filled
<1> HIDE DEF n, m
<1>4. at \in [1..m -> Filled(pipe)]
  BY <1>2
<1>5. /\ \A i, j \in 1..m : i < j => at[i] < at[j]
      /\ \A p \in Filled(pipe) : \E i \in 1..m : at[i] = p
      /\ \A i \in 1..m : s[i] = pipe[at[i]]
  BY <1>1, <1>2 DEF Places
<1>6. 1 \in Filled(pipe) /\ \A i \in 1..m : at[i] \in 1..n /\ at[i] \in Filled(pipe)
  <2>1. 1 \in 1..n
    BY <1>2
  <2>2. 1 \in Filled(pipe)
    BY <1>3, <2>1
  <2>3. ASSUME NEW i \in 1..m PROVE at[i] \in Filled(pipe)
    BY <1>4
  <2> QED
    BY <1>3, <2>2, <2>3
<1>7. PICK first \in 1..m : at[first] = 1
  BY <1>6, <1>5
<1>8. first = 1 /\ 1 \in 1..m
  <2>1. SUFFICES ASSUME first > 1 PROVE FALSE
    BY <1>2, <1>7
  <2>2. 1 \in 1..m /\ first \in 1..m
    BY <1>2, <1>7
  <2>3. at[1] < at[first]
    BY <1>5, <2>1, <2>2
  <2> QED
    BY <1>2, <1>6, <1>7, <2>2, <2>3
<1>9. /\ s # <<>> /\ Head(s) = s[1] /\ rest \in Seq(Nat) /\ DOMAIN rest = 1..m - 1
      /\ \A i \in 1..m - 1 : rest[i] = s[i + 1]
  BY <1>2, <1>8, EmptySeq, HeadTailProperties DEF rest
<1>10. Head(s) = Head(pipe)
  BY <1>2, <1>7, <1>8, <1>9, <1>5
<1>11. \A i \in 1..m - 1 : /\ i + 1 \in 1..m /\ at[i + 1] > 1 /\ at[i + 1] \in 1..n
                           /\ at[i + 1] \in Filled(pipe)
  <2> SUFFICES ASSUME NEW i \in 1..m - 1
               PROVE  /\ i + 1 \in 1..m /\ at[i + 1] > 1 /\ at[i + 1] \in 1..n
                      /\ at[i + 1] \in Filled(pipe)
    OBVIOUS
  <2>1. i + 1 \in 1..m /\ 1 < i + 1
    BY <1>2
  <2>2. at[1] < at[i + 1]
    BY <1>8, <1>5, <2>1
  <2> QED
    BY <1>2, <1>6, <1>7, <1>8, <2>1, <2>2
<1> DEFINE there == [i \in 1..m - 1 |-> at[i + 1] - 1]
<1>12. \A a \in 1..n : a > 1 => a - 1 \in 1..n - 1 /\ (a - 1) + 1 = a
  BY <1>2
<1>13. \A i \in 1..m - 1 : there[i] \in 1..n - 1 /\ there[i] + 1 = at[i + 1]
  BY <1>11, <1>12
<1>14. there \in [DOMAIN rest -> Filled(new)]
  <2> SUFFICES ASSUME NEW i \in 1..m - 1 PROVE at[i + 1] - 1 \in Filled(new)
    BY <1>9
  <2>1. there[i] \in 1..n - 1 /\ there[i] + 1 = at[i + 1] /\ there[i] = at[i + 1] - 1
    BY <1>13
  <2>2. pipe[at[i + 1]] # 0
    BY <1>11, <1>3
  <2>3. new[there[i]] = pipe[there[i] + 1]
    BY <1>2, <2>1
  <2> QED
    BY <1>3, <2>1, <2>2, <2>3
<1>15. ASSUME NEW i \in 1..m - 1, NEW j \in 1..m - 1, i < j PROVE there[i] < there[j]
  <2>1. i + 1 \in 1..m /\ j + 1 \in 1..m /\ i + 1 < j + 1
    BY <1>2, <1>15
  <2>2. at[i + 1] < at[j + 1]
    BY <1>5, <2>1
  <2>3. there[i] \in Int /\ there[i] + 1 = at[i + 1]
    BY <1>13
  <2>5. there[j] \in Int /\ there[j] + 1 = at[j + 1]
    BY <1>13
  <2>4. \A a, b \in Int : a + 1 < b + 1 => a < b
    OBVIOUS
  <2> HIDE DEF there
  <2> QED
    BY <2>2, <2>3, <2>4, <2>5, Zenon
<1>16. \A q \in 1..n - 1 : q + 1 \in 1..n /\ new[q] = pipe[q + 1]
  BY <1>2
<1>17. ASSUME NEW q \in Filled(new) PROVE \E i \in 1..m - 1 : there[i] = q
  <2>1. q \in 1..n - 1 /\ new[q] # 0
    BY <1>3
  <2>2. q \in 1..n - 1 /\ q + 1 \in 1..n /\ pipe[q + 1] # 0
    BY <1>16, <2>1
  <2>3. q + 1 \in Filled(pipe)
    BY <1>3, <2>2
  <2>4. PICK i \in 1..m : at[i] = q + 1
    BY <1>5, <2>3
  <2>5. i # 1
    BY <1>2, <1>7, <1>8, <2>2, <2>4
  <2>6. i - 1 \in 1..m - 1 /\ (i - 1) + 1 = i
    BY <1>2, <2>5
  <2>7. there[i - 1] = (q + 1) - 1
    BY <2>4, <2>6
  <2> QED
    BY <2>2, <2>6, <2>7
<1>18. ASSUME NEW i \in 1..m - 1 PROVE rest[i] = new[there[i]]
  <2>1. s[i + 1] = pipe[at[i + 1]]
    BY <1>11, <1>5
  <2>2. there[i] \in 1..n - 1 /\ there[i] + 1 = at[i + 1]
    BY <1>13
  <2>3. new[there[i]] = pipe[there[i] + 1]
    BY <1>2, <2>2
  <2> QED
    BY <1>9, <2>1, <2>2, <2>3
<1> HIDE DEF there
<1>19. Places(there, new, rest)
  BY <1>9, <1>15, <1>17, <1>18 DEF Places
<1>20. Holds(new, rest)
  BY <1>14, <1>19 DEF Holds
<1> QED
  BY <1>9, <1>10, <1>20 DEF new, rest

-----------------------------------------------------------------------------
(* What is at each place of the pipe.                                        *)
AckOf(message) == IF message.type = "ack" THEN message.value ELSE 0
OutputOf(message) == IF message.type = "output" THEN message.run ELSE 0
PipeOf(f, w, t) ==
    [i \in DOMAIN f |-> AckOf(f[i])] \o w \o [i \in DOMAIN t |-> OutputOf(t[i])]

LEMMA PipeIs == Pipe = PipeOf(fromPage, writes, toPage)
  BY DEF Pipe, PipeOf, AckOf, OutputOf

LEMMA Joined ==
    ASSUME NEW s \in Seq(Nat), NEW t \in Seq(Nat)
    PROVE  /\ s \o t \in Seq(Nat) /\ Len(s \o t) = Len(s) + Len(t)
           /\ Len(s) \in Nat /\ Len(t) \in Nat
           /\ \A i \in 1..Len(s) : (s \o t)[i] = s[i]
           /\ \A i \in 1..Len(t) : (s \o t)[Len(s) + i] = t[i]
  OBVIOUS

LEMMA WiderSeq ==
    ASSUME NEW S, NEW T, S \subseteq T, NEW s \in Seq(S)
    PROVE  s \in Seq(T) /\ Len(s) \in Nat
<1>1. Len(s) \in Nat /\ \A i \in 1..Len(s) : s[i] \in S
  OBVIOUS
<1>2. \A i \in 1..Len(s) : s[i] \in T
  BY <1>1
<1>3. s \in [1..Len(s) -> T]
  BY <1>2
<1> QED
  BY <1>1, <1>3

LEMMA PipeParts ==
    ASSUME NEW f \in Seq(Received), NEW w \in Seq(Runs), NEW t \in Seq(Posted)
    PROVE  /\ PipeOf(f, w, t) \in Seq(Nat)
           /\ Len(PipeOf(f, w, t)) = Len(f) + Len(w) + Len(t)
           /\ Len(f) \in Nat /\ Len(w) \in Nat /\ Len(t) \in Nat
           /\ \A i \in 1..Len(f) : PipeOf(f, w, t)[i] = AckOf(f[i])
           /\ \A i \in 1..Len(w) : PipeOf(f, w, t)[Len(f) + i] = w[i]
           /\ \A i \in 1..Len(t) : PipeOf(f, w, t)[Len(f) + Len(w) + i] = OutputOf(t[i])
<1> DEFINE acks == [i \in DOMAIN f |-> AckOf(f[i])]
           outputs == [i \in DOMAIN t |-> OutputOf(t[i])]
<1>1. Runs \subseteq Nat
  BY DEF Runs
<1>2. acks \in Seq(Nat) /\ Len(acks) = Len(f) /\ \A i \in 1..Len(f) : acks[i] = AckOf(f[i])
  <2>1. \A i \in 1..Len(f) : f[i] \in Received
    OBVIOUS
  <2>2. \A message \in Received : AckOf(message) \in Nat
    BY <1>1 DEF Received, AckOf
  <2>3. acks \in [1..Len(f) -> Nat] /\ Len(f) \in Nat
    BY <2>1, <2>2
  <2> QED
    BY <2>3
<1>3. /\ outputs \in Seq(Nat) /\ Len(outputs) = Len(t)
      /\ \A i \in 1..Len(t) : outputs[i] = OutputOf(t[i])
  <2>1. \A i \in 1..Len(t) : t[i] \in Posted
    OBVIOUS
  <2>2. \A message \in Posted : OutputOf(message) \in Nat
    BY <1>1, MessageTypes DEF OutputOf
  <2>3. outputs \in [1..Len(t) -> Nat] /\ Len(t) \in Nat
    BY <2>1, <2>2
  <2> QED
    BY <2>3
<1>4. w \in Seq(Nat) /\ Len(w) \in Nat
  BY <1>1, WiderSeq
<1> DEFINE first == acks \o w
<1>5. PipeOf(f, w, t) = first \o outputs
  BY DEF PipeOf
<1> HIDE DEF acks, outputs
<1>6. /\ first \in Seq(Nat) /\ Len(first) = Len(f) + Len(w)
      /\ \A i \in 1..Len(f) : first[i] = AckOf(f[i])
      /\ \A i \in 1..Len(w) : first[Len(f) + i] = w[i]
  <2>1. acks \in Seq(Nat) /\ w \in Seq(Nat)
    BY <1>2, <1>4
  <2>2. /\ acks \o w \in Seq(Nat) /\ Len(acks \o w) = Len(acks) + Len(w)
        /\ \A i \in 1..Len(acks) : (acks \o w)[i] = acks[i]
        /\ \A i \in 1..Len(w) : (acks \o w)[Len(acks) + i] = w[i]
    BY <2>1, Joined
  <2> QED
    BY <1>2, <2>2
<1> HIDE DEF first
<1>7. /\ first \o outputs \in Seq(Nat) /\ Len(first \o outputs) = Len(first) + Len(t)
      /\ \A i \in 1..Len(first) : (first \o outputs)[i] = first[i]
      /\ \A i \in 1..Len(t) : (first \o outputs)[Len(first) + i] = OutputOf(t[i])
  <2>1. first \in Seq(Nat) /\ outputs \in Seq(Nat)
    BY <1>3, <1>6
  <2>2. /\ first \o outputs \in Seq(Nat) /\ Len(first \o outputs) = Len(first) + Len(outputs)
        /\ \A i \in 1..Len(first) : (first \o outputs)[i] = first[i]
        /\ \A i \in 1..Len(outputs) : (first \o outputs)[Len(first) + i] = outputs[i]
    BY <2>1, Joined
  <2> QED
    BY <1>3, <2>2
<1>8. 1..Len(f) \subseteq 1..Len(first) /\ \A i \in 1..Len(w) : Len(f) + i \in 1..Len(first)
  BY <1>4, <1>6
<1>9. Len(f) \in Nat /\ Len(t) \in Nat
  OBVIOUS
<1> QED
  <2> DEFINE all == first \o outputs
  <2>1. PipeOf(f, w, t) = all
    BY <1>5
  <2>2. /\ all \in Seq(Nat) /\ Len(all) = Len(f) + Len(w) + Len(t)
        /\ \A i \in 1..Len(f) : all[i] = AckOf(f[i])
        /\ \A i \in 1..Len(w) : all[Len(f) + i] = w[i]
        /\ \A i \in 1..Len(t) : all[Len(f) + Len(w) + i] = OutputOf(t[i])
    BY <1>6, <1>7, <1>8
  <2> HIDE DEF all
  <2> QED
    BY <1>4, <1>9, <2>1, <2>2

(* The same, and that there is no other place.                               *)
IsPipe(pipe, f, w, t) ==
    /\ pipe \in Seq(Nat) /\ Len(pipe) = Len(f) + Len(w) + Len(t)
    /\ Len(f) \in Nat /\ Len(w) \in Nat /\ Len(t) \in Nat
    /\ \A i \in 1..Len(f) : pipe[i] = AckOf(f[i])
    /\ \A i \in 1..Len(w) : pipe[Len(f) + i] = w[i]
    /\ \A i \in 1..Len(t) : pipe[Len(f) + Len(w) + i] = OutputOf(t[i])

LEMMA PipeOfIs ==
    ASSUME NEW f \in Seq(Received), NEW w \in Seq(Runs), NEW t \in Seq(Posted)
    PROVE  IsPipe(PipeOf(f, w, t), f, w, t)
  BY PipeParts DEF IsPipe

Placed(i, f, w, t) ==
    \/ i \in 1..Len(f)
    \/ \E j \in 1..Len(w) : i = Len(f) + j
    \/ \E j \in 1..Len(t) : i = Len(f) + Len(w) + j

LEMMA PipePlaces ==
    ASSUME NEW pipe, NEW f, NEW w, NEW t, IsPipe(pipe, f, w, t), NEW i \in 1..Len(pipe)
    PROVE  Placed(i, f, w, t)
<1> USE DEF Placed
<1>1. /\ Len(f) \in Nat /\ Len(w) \in Nat /\ Len(t) \in Nat
      /\ i \in 1..Len(f) + Len(w) + Len(t)
  BY DEF IsPipe
<1>2. CASE i \in Len(f) + 1..Len(f) + Len(w)
  <2>1. i - Len(f) \in 1..Len(w) /\ i = Len(f) + (i - Len(f))
    BY <1>1, <1>2
  <2> QED
    BY <2>1
<1>3. CASE i > Len(f) + Len(w)
  <2>1. /\ i - (Len(f) + Len(w)) \in 1..Len(t)
        /\ i = Len(f) + Len(w) + (i - (Len(f) + Len(w)))
    BY <1>1, <1>3
  <2> QED
    BY <2>1
<1> QED
  BY <1>1, <1>2, <1>3

-----------------------------------------------------------------------------
(* What the steps do to the pipe.  The page posts messages that are no       *)
(* acknowledgements.                                                         *)
Extends(g, f, n) ==
    /\ n \in Nat /\ Len(g) = Len(f) + n
    /\ \A i \in 1..Len(f) : g[i] = f[i]

LEMMA PagePosts ==
    ASSUME NEW pipe, NEW new, NEW f, NEW g, NEW w, NEW t, NEW s, NEW n,
           IsPipe(pipe, f, w, t), IsPipe(new, g, w, t), Holds(pipe, s), Extends(g, f, n),
           \A i \in Len(f) + 1..Len(f) + n : AckOf(g[i]) = 0
    PROVE  Holds(new, s)
<1>1. pipe \in Seq(Nat) /\ new \in Seq(Nat) /\ Len(f) \in 0..Len(pipe) /\ n \in Nat
  BY DEF IsPipe, Extends
<1>2. /\ Len(f) \in Nat /\ Len(w) \in Nat /\ Len(t) \in Nat /\ n \in Nat
      /\ Len(g) = Len(f) + n
      /\ Len(pipe) = Len(f) + Len(w) + Len(t) /\ Len(new) = Len(g) + Len(w) + Len(t)
  BY DEF IsPipe, Extends
<1>3. \A i \in 1..Len(f) : new[i] = pipe[i]
  BY <1>2 DEF IsPipe, Extends
<1>4. \A i \in Len(f) + 1..Len(f) + n : new[i] = 0
  <2>1. \A i \in Len(f) + 1..Len(f) + n : i \in 1..Len(g)
    BY <1>2
  <2>2. \A i \in 1..Len(g) : new[i] = AckOf(g[i])
    BY DEF IsPipe
  <2> QED
    BY <2>1, <2>2
<1>5. ASSUME NEW i \in Len(f) + 1..Len(pipe) PROVE new[i + n] = pipe[i]
  <2>1. ASSUME NEW j \in 1..Len(w), i = Len(f) + j PROVE new[i + n] = pipe[i]
    <3>1. i + n = Len(g) + j
      BY <1>2, <2>1
    <3> QED
      BY <2>1, <3>1 DEF IsPipe
  <2>2. ASSUME NEW j \in 1..Len(t), i = Len(f) + Len(w) + j PROVE new[i + n] = pipe[i]
    <3>1. i + n = Len(g) + Len(w) + j
      BY <1>2, <2>2
    <3> QED
      BY <2>2, <3>1 DEF IsPipe
  <2>3. i \in 1..Len(pipe) /\ i \notin 1..Len(f)
    BY <1>2
  <2>4. Placed(i, f, w, t)
    BY <2>3, PipePlaces
  <2> QED
    BY <2>1, <2>2, <2>3, <2>4 DEF Placed
<1>6. Inserted(pipe, new, Len(f), n)
  BY <1>2, <1>3, <1>4, <1>5 DEF Inserted
<1> QED
  BY <1>1, <1>6, Spread

(* The window posts a message, which is a chunk or not.                      *)
LEMMA WindowPosts ==
    ASSUME NEW pipe, NEW new, NEW f, NEW w, NEW t, NEW u, NEW s,
           IsPipe(pipe, f, w, t), IsPipe(new, f, w, u), Holds(pipe, s), Extends(u, t, 1)
    PROVE  /\ OutputOf(u[Len(u)]) = 0 => Holds(new, s)
           /\ OutputOf(u[Len(u)]) # 0 => new = Append(pipe, OutputOf(u[Len(u)]))
<1>1. /\ pipe \in Seq(Nat) /\ new \in Seq(Nat)
      /\ Len(f) \in Nat /\ Len(w) \in Nat /\ Len(t) \in Nat /\ Len(u) = Len(t) + 1
      /\ Len(pipe) = Len(f) + Len(w) + Len(t) /\ Len(new) = Len(f) + Len(w) + Len(u)
  BY DEF IsPipe, Extends
<1>2. Len(new) = Len(pipe) + 1 /\ Len(pipe) \in 0..Len(pipe) /\ Len(pipe) \in Nat
  BY <1>1
<1>3. ASSUME NEW i \in 1..Len(pipe) PROVE new[i] = pipe[i]
  <2>1. \A j \in 1..Len(t) : j \in 1..Len(u) /\ u[j] = t[j]
    BY <1>1 DEF Extends
  <2>2. ASSUME NEW j \in 1..Len(t), i = Len(f) + Len(w) + j PROVE new[i] = pipe[i]
    BY <2>1, <2>2 DEF IsPipe
  <2>3. CASE i \in 1..Len(f)
    BY <2>3 DEF IsPipe
  <2>4. ASSUME NEW j \in 1..Len(w), i = Len(f) + j PROVE new[i] = pipe[i]
    BY <2>4 DEF IsPipe
  <2>5. Placed(i, f, w, t)
    BY PipePlaces
  <2> QED
    BY <2>2, <2>3, <2>4, <2>5 DEF Placed
<1>4. new[Len(pipe) + 1] = OutputOf(u[Len(u)])
  <2>1. Len(pipe) + 1 = Len(f) + Len(w) + Len(u) /\ Len(u) \in 1..Len(u)
    BY <1>1
  <2> QED
    BY <2>1 DEF IsPipe
<1>5. ASSUME OutputOf(u[Len(u)]) = 0 PROVE Holds(new, s)
  <2>1. Inserted(pipe, new, Len(pipe), 1)
    BY <1>2, <1>3, <1>4, <1>5 DEF Inserted
  <2>2. pipe \in Seq(Nat) /\ new \in Seq(Nat)
    BY <1>1, Zenon
  <2>3. Len(pipe) \in 0..Len(pipe) /\ 1 \in Nat
    BY <1>2
  <2> QED
    BY <2>1, <2>2, <2>3, Spread, Zenon
<1>6. new = Append(pipe, OutputOf(u[Len(u)]))
  <2> DEFINE r == new[Len(pipe) + 1]
  <2>1. r \in Nat
    <3>1. new \in Seq(Nat)
      BY <1>1, Zenon
    <3>2. Len(pipe) + 1 \in 1..Len(new)
      BY ONLY <1>2
    <3> QED
      BY ONLY <3>1, <3>2
  <2> HIDE DEF r
  <2>2. /\ Append(pipe, r) \in Seq(Nat) /\ Len(Append(pipe, r)) = Len(pipe) + 1
        /\ \A i \in 1..Len(pipe) : Append(pipe, r)[i] = pipe[i]
        /\ Append(pipe, r)[Len(pipe) + 1] = r
    <3>1. pipe \in Seq(Nat)
      BY <1>1, Zenon
    <3> QED
      BY ONLY <2>1, <3>1, AppendProperties
  <2>3. \A i \in 1..Len(new) : new[i] = Append(pipe, r)[i]
    BY <1>2, <1>3, <2>2 DEF r
  <2>4. new = Append(pipe, r)
    BY <1>1, <1>2, <2>2, <2>3, SeqEqual
  <2> QED
    BY <1>4, <2>4 DEF r
<1> QED
  BY <1>5, <1>6

(* The page takes a chunk from its messages into the write buffer: the pipe  *)
(* is what it was.                                                           *)
Shortens(u, t) ==
    /\ Len(t) \in Nat \ {0} /\ Len(u) = Len(t) - 1
    /\ \A i \in 1..Len(u) : u[i] = t[i + 1]

LEMMA PageTakes ==
    ASSUME NEW pipe, NEW new, NEW f, NEW w, NEW v, NEW t, NEW u,
           IsPipe(pipe, f, w, t), IsPipe(new, f, v, u), Extends(v, w, 1), Shortens(u, t),
           v[Len(v)] = OutputOf(t[1])
    PROVE  new = pipe
<1>1. /\ pipe \in Seq(Nat) /\ new \in Seq(Nat)
      /\ Len(f) \in Nat /\ Len(w) \in Nat /\ Len(t) \in Nat \ {0}
      /\ Len(v) = Len(w) + 1 /\ Len(u) = Len(t) - 1
      /\ Len(pipe) = Len(f) + Len(w) + Len(t) /\ Len(new) = Len(f) + Len(v) + Len(u)
  BY DEF IsPipe, Extends, Shortens
<1>2. Len(new) = Len(pipe)
  BY <1>1
<1>3. ASSUME NEW i \in 1..Len(pipe) PROVE new[i] = pipe[i]
  <2>1. CASE i \in 1..Len(f)
    BY <2>1 DEF IsPipe
  <2>2. ASSUME NEW j \in 1..Len(w), i = Len(f) + j PROVE new[i] = pipe[i]
    <3>1. j \in 1..Len(v) /\ v[j] = w[j]
      BY <1>1, <2>2 DEF Extends
    <3> QED
      BY <2>2, <3>1 DEF IsPipe
  <2>3. ASSUME NEW j \in 1..Len(t), i = Len(f) + Len(w) + j PROVE new[i] = pipe[i]
    <3>1. CASE j = 1
      <4>1. i = Len(f) + Len(v) /\ Len(v) \in 1..Len(v)
        BY <1>1, <2>3, <3>1
      <4>2. pipe[i] = OutputOf(t[1])
        BY <2>3, <3>1 DEF IsPipe
      <4>3. new[i] = v[Len(v)]
        BY <4>1 DEF IsPipe
      <4> QED
        BY <4>2, <4>3
    <3>2. CASE j # 1
      <4>1. /\ j - 1 \in 1..Len(u) /\ (j - 1) + 1 = j
            /\ i = Len(f) + Len(v) + (j - 1)
        BY <1>1, <2>3, <3>2
      <4>2. u[j - 1] = t[(j - 1) + 1]
        BY <4>1 DEF Shortens
      <4>3. pipe[i] = OutputOf(t[j])
        BY <2>3 DEF IsPipe
      <4>4. new[i] = OutputOf(u[j - 1])
        BY <4>1 DEF IsPipe
      <4> QED
        BY <4>1, <4>2, <4>3, <4>4
    <3> QED
      BY <3>1, <3>2
  <2>4. Placed(i, f, w, t)
    BY PipePlaces
  <2> QED
    BY <2>1, <2>2, <2>3, <2>4 DEF Placed
<1> QED
  BY <1>1, <1>2, <1>3, SeqEqual

(* It takes a chunk out of the buffer and posts its acknowledgement.         *)
LEMMA PageAcks ==
    ASSUME NEW pipe, NEW new, NEW f, NEW g, NEW w, NEW v, NEW t,
           IsPipe(pipe, f, w, t), IsPipe(new, g, v, t), Extends(g, f, 1), Shortens(v, w),
           AckOf(g[Len(g)]) = w[1]
    PROVE  new = pipe
<1>1. /\ pipe \in Seq(Nat) /\ new \in Seq(Nat)
      /\ Len(f) \in Nat /\ Len(w) \in Nat \ {0} /\ Len(t) \in Nat
      /\ Len(g) = Len(f) + 1 /\ Len(v) = Len(w) - 1
      /\ Len(pipe) = Len(f) + Len(w) + Len(t) /\ Len(new) = Len(g) + Len(v) + Len(t)
  BY DEF IsPipe, Extends, Shortens
<1>2. Len(new) = Len(pipe)
  BY <1>1
<1>3. ASSUME NEW i \in 1..Len(pipe) PROVE new[i] = pipe[i]
  <2>1. CASE i \in 1..Len(f)
    <3>1. i \in 1..Len(g) /\ g[i] = f[i]
      BY <1>1, <2>1 DEF Extends
    <3>2. new[i] = AckOf(g[i]) /\ pipe[i] = AckOf(f[i])
      BY <2>1, <3>1 DEF IsPipe
    <3> QED
      BY <3>1, <3>2
  <2>2. ASSUME NEW j \in 1..Len(w), i = Len(f) + j PROVE new[i] = pipe[i]
    <3>1. CASE j = 1
      <4>1. i = Len(g) /\ Len(g) \in 1..Len(g)
        BY <1>1, <2>2, <3>1
      <4>2. pipe[i] = w[1]
        BY <2>2, <3>1 DEF IsPipe
      <4>3. new[i] = AckOf(g[Len(g)])
        BY <4>1 DEF IsPipe
      <4> QED
        BY <4>2, <4>3
    <3>2. CASE j # 1
      <4>1. j - 1 \in 1..Len(v) /\ (j - 1) + 1 = j /\ i = Len(g) + (j - 1)
        BY <1>1, <2>2, <3>2
      <4>2. v[j - 1] = w[(j - 1) + 1]
        BY <4>1 DEF Shortens
      <4>3. pipe[i] = w[j]
        BY <2>2 DEF IsPipe
      <4>4. new[i] = v[j - 1]
        BY <4>1 DEF IsPipe
      <4> QED
        BY <4>1, <4>2, <4>3, <4>4
    <3> QED
      BY <3>1, <3>2
  <2>3. ASSUME NEW j \in 1..Len(t), i = Len(f) + Len(w) + j PROVE new[i] = pipe[i]
    <3>1. i = Len(g) + Len(v) + j
      BY <1>1, <2>3
    <3>2. pipe[i] = OutputOf(t[j])
      BY <2>3 DEF IsPipe
    <3>3. new[i] = OutputOf(t[j])
      BY <3>1 DEF IsPipe
    <3> QED
      BY <3>2, <3>3
  <2>4. Placed(i, f, w, t)
    BY PipePlaces
  <2> QED
    BY <2>1, <2>2, <2>3, <2>4 DEF Placed
<1> QED
  BY <1>1, <1>2, <1>3, SeqEqual

(* It takes a reset.                                                         *)
LEMMA PageResets ==
    ASSUME NEW pipe, NEW new, NEW f, NEW w, NEW t, NEW u, NEW s,
           IsPipe(pipe, f, w, t), IsPipe(new, f, w, u), Holds(pipe, s), Shortens(u, t),
           OutputOf(t[1]) = 0
    PROVE  Holds(new, s)
<1> DEFINE k == Len(f) + Len(w) + 1
<1>1. /\ pipe \in Seq(Nat) /\ new \in Seq(Nat)
      /\ Len(f) \in Nat /\ Len(w) \in Nat /\ Len(t) \in Nat \ {0} /\ Len(u) = Len(t) - 1
      /\ Len(pipe) = Len(f) + Len(w) + Len(t) /\ Len(new) = Len(f) + Len(w) + Len(u)
  BY DEF IsPipe, Shortens
<1>2. k \in 1..Len(pipe) /\ Len(new) = Len(pipe) - 1
  BY ONLY <1>1
<1>3. pipe[k] = 0
  <2>1. 1 \in 1..Len(t)
    BY <1>1
  <2> QED
    BY <2>1 DEF IsPipe
<1>4. ASSUME NEW i \in 1..k - 1 PROVE new[i] = pipe[i]
  <2>1. i \in 1..Len(pipe) /\ i <= Len(f) + Len(w) /\ i \in Nat
    BY <1>1
  <2>2. CASE i \in 1..Len(f)
    BY <2>2 DEF IsPipe
  <2>3. ASSUME NEW j \in 1..Len(w), i = Len(f) + j PROVE new[i] = pipe[i]
    BY <2>3 DEF IsPipe
  <2>4. ASSUME NEW j \in 1..Len(t), i = Len(f) + Len(w) + j PROVE FALSE
    BY <1>1, <2>1, <2>4
  <2>5. Placed(i, f, w, t)
    BY <2>1, PipePlaces
  <2> QED
    BY <2>2, <2>3, <2>4, <2>5 DEF Placed
<1>5. ASSUME NEW i \in k + 1..Len(pipe) PROVE new[i - 1] = pipe[i]
  <2> DEFINE j == i - (Len(f) + Len(w))
  <2>1. /\ j \in 1..Len(t) /\ i = Len(f) + Len(w) + j
        /\ j - 1 \in 1..Len(u) /\ (j - 1) + 1 = j /\ i - 1 = Len(f) + Len(w) + (j - 1)
    BY <1>1
  <2> HIDE DEF j
  <2>2. u[j - 1] = t[(j - 1) + 1]
    BY <2>1 DEF Shortens
  <2>3. pipe[i] = OutputOf(t[j])
    BY <2>1 DEF IsPipe
  <2>4. new[i - 1] = OutputOf(u[j - 1])
    BY <2>1 DEF IsPipe
  <2> QED
    BY <2>1, <2>2, <2>3, <2>4
<1>6. Removed(pipe, new, k)
  BY <1>2, <1>3, <1>4, <1>5 DEF Removed
<1> HIDE DEF k
<1> QED
  BY <1>1, <1>2, <1>6, Narrowed

(* The window takes a message of the page, which acknowledges or not.        *)
LEMMA WindowTakes ==
    ASSUME NEW pipe, NEW new, NEW f, NEW g, NEW w, NEW t, NEW s,
           IsPipe(pipe, f, w, t), IsPipe(new, g, w, t), Holds(pipe, s), Shortens(g, f)
    PROVE  /\ AckOf(f[1]) = 0 => Holds(new, s)
           /\ pipe # <<>> /\ pipe[1] = AckOf(f[1]) /\ new = Tail(pipe)
<1>1. /\ pipe \in Seq(Nat) /\ new \in Seq(Nat)
      /\ Len(f) \in Nat \ {0} /\ Len(w) \in Nat /\ Len(t) \in Nat /\ Len(g) = Len(f) - 1
      /\ Len(pipe) = Len(f) + Len(w) + Len(t) /\ Len(new) = Len(g) + Len(w) + Len(t)
  BY DEF IsPipe, Shortens
<1>2. 1 \in 1..Len(pipe) /\ Len(new) = Len(pipe) - 1 /\ Len(pipe) \in Nat \ {0}
  BY ONLY <1>1
<1>3. pipe[1] = AckOf(f[1])
  <2>1. 1 \in 1..Len(f)
    BY <1>1
  <2> QED
    BY <2>1 DEF IsPipe
<1>4. ASSUME NEW i \in 1..Len(new) PROVE new[i] = pipe[i + 1]
  <2>1. CASE i \in 1..Len(g)
    <3>1. g[i] = f[i + 1]
      BY <2>1, Zenon DEF Shortens
    <3>2. i + 1 \in 1..Len(f)
      BY ONLY <1>1, <2>1
    <3>3. new[i] = AckOf(g[i])
      BY <2>1, Zenon DEF IsPipe
    <3>4. pipe[i + 1] = AckOf(f[i + 1])
      BY <3>2, Zenon DEF IsPipe
    <3> QED
      BY <3>1, <3>3, <3>4, Zenon
  <2>2. ASSUME NEW j \in 1..Len(w), i = Len(g) + j PROVE new[i] = pipe[i + 1]
    <3>1. i + 1 = Len(f) + j
      BY <1>1, <2>2
    <3> QED
      BY <2>2, <3>1 DEF IsPipe
  <2>3. ASSUME NEW j \in 1..Len(t), i = Len(g) + Len(w) + j PROVE new[i] = pipe[i + 1]
    <3>1. i + 1 = Len(f) + Len(w) + j
      BY <1>1, <2>3
    <3> QED
      BY <2>3, <3>1 DEF IsPipe
  <2>4. Placed(i, g, w, t)
    BY PipePlaces
  <2> QED
    BY <2>1, <2>2, <2>3, <2>4 DEF Placed
<1>5. ASSUME AckOf(f[1]) = 0 PROVE Holds(new, s)
  <2>1. \A i \in 1..1 - 1 : new[i] = pipe[i]
    OBVIOUS
  <2>2. ASSUME NEW i \in 1 + 1..Len(pipe) PROVE new[i - 1] = pipe[i]
    <3>1. i - 1 \in 1..Len(new) /\ (i - 1) + 1 = i
      BY <1>2
    <3> QED
      BY <1>4, <3>1
  <2>3. Removed(pipe, new, 1)
    BY <1>2, <1>3, <1>5, <2>1, <2>2 DEF Removed
  <2> QED
    BY <1>1, <1>2, <2>3, Narrowed
<1>6. pipe # <<>> /\ new = Tail(pipe)
  <2>1. pipe # <<>>
    BY <1>2, EmptySeq
  <2>2. /\ Tail(pipe) \in Seq(Nat) /\ Len(Tail(pipe)) = Len(pipe) - 1
        /\ \A i \in 1..Len(Tail(pipe)) : Tail(pipe)[i] = pipe[i + 1]
    BY <1>1, <2>1, HeadTailProperties
  <2>3. \A i \in 1..Len(new) : new[i] = Tail(pipe)[i]
    BY <1>2, <1>4, <2>2
  <2> QED
    BY <1>1, <1>2, <2>1, <2>2, <2>3, SeqEqual
<1> QED
  BY <1>3, <1>5, <1>6
-----------------------------------------------------------------------------
(* What each step does to the pipe and to what is being rendered.            *)
LEMMA RunsAreNats == \A s \in Seq(Runs) : s \in Seq(Nat)
<1> SUFFICES ASSUME NEW s \in Seq(Runs)
             PROVE  s \in Seq(Nat)
  OBVIOUS
<1>1. \A i \in 1..Len(s) : s[i] \in Runs
  OBVIOUS
<1>2. \A i \in 1..Len(s) : s[i] \in Nat
  BY <1>1 DEF Runs
<1>3. s = [i \in 1..Len(s) |-> s[i]] /\ Len(s) \in Nat
  OBVIOUS
<1> QED
  BY <1>2, <1>3

LEMMA PipeNow == PageTypes => IsPipe(Pipe, fromPage, writes, toPage)
  BY PipeIs, PipeOfIs DEF PageTypes

LEMMA PipeIsThen == Pipe' = PipeOf(fromPage', writes', toPage')
  BY DEF Pipe, PipeOf, AckOf, OutputOf

LEMMA PipeThen == PageTypes' => IsPipe(Pipe', fromPage', writes', toPage')
  BY PipeIsThen, PipeOfIs DEF PageTypes

LEMMA QuietSteps ==
    ASSUME WindowStep \/ Initializes \/ ProcessFails \/ Restart \/ UNCHANGED bridgeVars
    PROVE  rendering' = rendering
<1>1. ASSUME NEW r \in Runs, Silent(r) PROVE rendering' = rendering
  <2>1. CASE Interrupted(r) \/ Fails(r)
    BY <2>1 DEF Interrupted, Fails, Finish, io
  <2>2. CASE Connected(r) \/ Started(r) \/ Acknowledged(r) \/ SessionDisposed(r) \/ Drained(r)
    BY <2>2 DEF Connected, Started, Acknowledged, SessionDisposed, Drained, io
  <2>3. CASE WriterStep(r)
    BY <2>3 DEF WriterStep, WriterTakes, WriterSent, WriterEnds, io
  <2> QED
    BY <1>1, <2>1, <2>2, <2>3 DEF Silent
<1>2. CASE PasteButton \/ AnswerPaste \/ Disconnect \/ ResumeDisconnect \/ ResumeClose
           \/ CloseInitialized \/ CloseAgain
  BY <1>2 DEF PasteButton, Paste, AnswerPaste, Disconnect, ResumeDisconnect, ResumeClose,
              CloseInitialized, CloseAgain, io
<1>3. ASSUME NEW insideEvent \in BOOLEAN, CloseSession(insideEvent) PROVE rendering' = rendering
  BY <1>3 DEF CloseSession, io
<1>4. CASE Initializes \/ ProcessFails
  BY <1>4 DEF Initializes, ProcessFails, InitializationEnds, RendererFails, io
<1>5. CASE Restart
  BY <1>5 DEF Restart, Reconnect, ResumeReconnect
<1>6. CASE UNCHANGED bridgeVars
  BY <1>6 DEF bridgeVars, vars, io
<1> QED
  BY <1>1, <1>2, <1>3, <1>4, <1>5, <1>6 DEF WindowStep

LEMMA SamePipes ==
    ASSUME ChunksAreKept, UNCHANGED <<channels, rendering>>
    PROVE  ChunksAreKept'
<1>1. Pipe' = Pipe
  BY DEF Pipe, channels
<1> QED
  BY <1>1 DEF ChunksAreKept

LEMMA PostsKept ==
    ASSUME PageTypes, PageTypes', ChunksAreKept, rendering \in Seq(Runs),
           NEW r \in Runs, NEW type \in {"reset", "output"}, Posts(ToPage(type, r)),
           rendering' = IF type = "output" THEN Append(rendering, r) ELSE rendering
    PROVE  ChunksAreKept'
<1> DEFINE message == ToPage(type, r)
<1>1. OutputOf(message) = IF type = "output" THEN r ELSE 0
  BY DEF ToPage, OutputOf
<1>2. message \in Posted
  BY MessageTypes
<1> HIDE DEF message
<1>3. /\ toPage \in Seq(Posted) /\ toPage' = Append(toPage, message)
      /\ UNCHANGED <<fromPage, writes>>
  BY DEF Posts, PageTypes, message
<1>4. Extends(toPage', toPage, 1) /\ toPage'[Len(toPage')] = message
  BY <1>2, <1>3 DEF Extends
<1>5. IsPipe(Pipe, fromPage, writes, toPage) /\ IsPipe(Pipe', fromPage, writes, toPage')
  BY <1>3, PipeNow, PipeThen
<1>6. Holds(Pipe, rendering)
  BY DEF ChunksAreKept
<1>7. CASE type = "reset"
  <2>1. Holds(Pipe', rendering)
    BY <1>1, <1>4, <1>5, <1>6, <1>7, WindowPosts
  <2> QED
    BY <1>7, <2>1 DEF ChunksAreKept
<1>8. CASE type = "output"
  <2>1. r \in Nat \ {0} /\ OutputOf(message) = r
    BY <1>1, <1>8 DEF Runs
  <2>2. Pipe' = Append(Pipe, r)
    BY <1>4, <1>5, <1>6, <2>1, WindowPosts
  <2>3. Pipe \in Seq(Nat)
    BY <1>5 DEF IsPipe
  <2>4. rendering \in Seq(Nat)
    BY RunsAreNats
  <2>5. Holds(Append(Pipe, r), Append(rendering, r))
    BY <1>6, <2>1, <2>3, <2>4, Extended
  <2> QED
    BY <1>8, <2>2, <2>5 DEF ChunksAreKept
<1> QED
  BY <1>7, <1>8

LEMMA OnMessageChunks ==
    ASSUME PageTypes, PageTypes', ChunksAreKept, rendering \in Seq(Runs), OnMessage
    PROVE  ChunksAreKept'
<1>1. /\ fromPage \in Seq(Received) /\ fromPage # <<>> /\ fromPage' = Tail(fromPage)
      /\ ReceiveFrom(Head(fromPage)) /\ UNCHANGED <<toPage, writes>>
  BY DEF OnMessage, PageTypes
<1>2. /\ Len(fromPage) \in Nat \ {0} /\ Head(fromPage) = fromPage[1] /\ fromPage[1] \in Received
      /\ Shortens(fromPage', fromPage)
  BY <1>1, HeadTailProperties, EmptySeq DEF Shortens
<1>3. IsPipe(Pipe, fromPage, writes, toPage) /\ IsPipe(Pipe', fromPage', writes, toPage)
  BY <1>1, PipeNow, PipeThen
<1>4. Holds(Pipe, rendering)
  BY DEF ChunksAreKept
<1>5. /\ AckOf(fromPage[1]) = 0 => Holds(Pipe', rendering)
      /\ Pipe # <<>> /\ Pipe[1] = AckOf(fromPage[1]) /\ Pipe' = Tail(Pipe)
  BY <1>2, <1>3, <1>4, WindowTakes
<1>6. CASE fromPage[1].type = "ack"
  <2>1. AckOf(fromPage[1]) \in Runs
    BY <1>2, <1>6 DEF Received, AckOf
  <2>2. Pipe[1] # 0
    BY <1>5, <2>1 DEF Runs
  <2>3. Pipe \in Seq(Nat)
    BY <1>3 DEF IsPipe
  <2>4. rendering \in Seq(Nat)
    BY RunsAreNats
  <2>5. Holds(Tail(Pipe), Tail(rendering))
    BY <1>4, <1>5, <2>2, <2>3, <2>4, Consumed
  <2>6. rendering' = Tail(rendering)
    BY <1>1, <1>2, <1>6 DEF ReceiveFrom, Acknowledge
  <2> QED
    BY <1>5, <2>5, <2>6 DEF ChunksAreKept
<1>7. CASE fromPage[1].type # "ack"
  <2>1. AckOf(fromPage[1]) = 0
    BY <1>7 DEF AckOf
  <2>2. rendering' = rendering
    BY <1>1, <1>2, <1>7 DEF ReceiveFrom, ReceiveReady, ReceiveResize, Type, ReceivePaste, Paste
  <2> QED
    BY <1>5, <2>1, <2>2 DEF ChunksAreKept
<1> QED
  BY <1>6, <1>7

(* The page posts messages of its own.                                       *)
Quiet(q) == q \in Seq(Received) /\ \A i \in 1..Len(q) : q[i].type # "ack"

LEMMA PageTells ==
    ASSUME NEW f \in Seq(Received), NEW w \in Seq(Runs), NEW t \in Seq(Posted), NEW s,
           Holds(PipeOf(f, w, t), s), NEW q, Quiet(q)
    PROVE  f \o q \in Seq(Received) /\ Holds(PipeOf(f \o q, w, t), s)
<1> DEFINE g == f \o q
<1>1. /\ g \in Seq(Received) /\ Extends(g, f, Len(q))
      /\ \A i \in Len(f) + 1..Len(f) + Len(q) :
            i - Len(f) \in 1..Len(q) /\ g[i] = q[i - Len(f)]
  BY DEF Extends, Quiet
<1> HIDE DEF g
<1>2. \A i \in Len(f) + 1..Len(f) + Len(q) : AckOf(g[i]) = 0
  BY <1>1 DEF AckOf, Quiet
<1>3. IsPipe(PipeOf(f, w, t), f, w, t) /\ IsPipe(PipeOf(g, w, t), g, w, t)
  BY <1>1, PipeOfIs
<1>4. Holds(PipeOf(g, w, t), s)
  BY <1>1, <1>2, <1>3, PagePosts
<1> QED
  BY <1>1, <1>4 DEF g

LEMMA FitsQuietly == \A newSize \in Sizes : Quiet(Fits(newSize))
<1> SUFFICES ASSUME NEW newSize \in Sizes
             PROVE  Quiet(Fits(newSize))
  OBVIOUS
<1> DEFINE message == FromPage("resize", newSize)
<1>1. message \in Received /\ message.type # "ack"
  BY MessageTypes DEF FromPage
<1> HIDE DEF message
<1>2. Fits(newSize) = <<>> \/ Fits(newSize) = <<message>>
  BY DEF Fits, message
<1>3. Quiet(<<>>) /\ Quiet(<<message>>)
  BY <1>1 DEF Quiet
<1> QED
  BY <1>2, <1>3

LEMMA ResetChunks ==
    ASSUME PageTypes, PageTypes', ChunksAreKept, UNCHANGED rendering, ReceiveReset
    PROVE  ChunksAreKept'
<1>1. fromPage \in Seq(Received) /\ writes \in Seq(Runs) /\ toPage \in Seq(Posted)
  BY DEF PageTypes
<1>2. PICK newSize \in {pageSize} \cup NewSizes : fromPage' = fromPage \o Fits(newSize)
  BY DEF ReceiveReset
<1>3. newSize \in Sizes
  BY DEF NewSizes, PageTypes
<1>4. /\ toPage # <<>> /\ Head(toPage).type = "reset" /\ toPage' = Tail(toPage)
      /\ writes' = writes
  BY DEF ReceiveReset, AfterReset
<1>5. /\ Shortens(toPage', toPage) /\ toPage' \in Seq(Posted)
      /\ Head(toPage) = toPage[1] /\ OutputOf(toPage[1]) = 0
  BY <1>1, <1>4, HeadTailProperties, EmptySeq DEF Shortens, OutputOf
<1> DEFINE between == PipeOf(fromPage, writes, toPage')
<1>6. IsPipe(Pipe, fromPage, writes, toPage) /\ IsPipe(between, fromPage, writes, toPage')
  BY <1>1, <1>5, PipeNow, PipeOfIs
<1>7. Holds(between, rendering)
  BY <1>5, <1>6, PageResets DEF ChunksAreKept
<1>8. Quiet(Fits(newSize))
  BY <1>3, FitsQuietly
<1>9. Holds(PipeOf(fromPage \o Fits(newSize), writes, toPage'), rendering)
  BY <1>1, <1>5, <1>7, <1>8, PageTells
<1>10. Pipe' = PipeOf(fromPage', writes', toPage')
  BY PipeIsThen
<1> QED
  BY <1>2, <1>4, <1>9, <1>10 DEF ChunksAreKept

LEMMA OutputChunks ==
    ASSUME PageTypes, PageTypes', ChunksAreKept, UNCHANGED rendering, ReceiveOutput
    PROVE  ChunksAreKept'
<1>1. writes \in Seq(Runs) /\ toPage \in Seq(Posted)
  BY DEF PageTypes
<1>2. /\ toPage # <<>> /\ Head(toPage).type = "output" /\ toPage' = Tail(toPage)
      /\ writes' = Append(writes, Head(toPage).run) /\ fromPage' = fromPage
  BY DEF ReceiveOutput
<1>3. /\ Shortens(toPage', toPage) /\ Head(toPage) = toPage[1] /\ toPage[1] \in Posted
  BY <1>1, <1>2, HeadTailProperties, EmptySeq DEF Shortens
<1>4. toPage[1].run \in Runs /\ OutputOf(toPage[1]) = toPage[1].run
  BY <1>2, <1>3, MessageTypes DEF OutputOf
<1>5. Extends(writes', writes, 1) /\ writes'[Len(writes')] = OutputOf(toPage[1])
  BY <1>1, <1>2, <1>3, <1>4 DEF Extends
<1>6. IsPipe(Pipe, fromPage, writes, toPage) /\ IsPipe(Pipe', fromPage, writes', toPage')
  BY <1>2, PipeNow, PipeThen
<1>7. Pipe' = Pipe
  BY <1>3, <1>5, <1>6, PageTakes
<1> QED
  BY <1>7 DEF ChunksAreKept

LEMMA ParseChunks ==
    ASSUME PageTypes, PageTypes', ChunksAreKept, UNCHANGED rendering, Parse
    PROVE  ChunksAreKept'
<1>1. fromPage \in Seq(Received) /\ writes \in Seq(Runs) /\ toPage \in Seq(Posted)
  BY DEF PageTypes
<1> DEFINE ack == FromPage("ack", Head(writes))
           typed == FromPage("input", Typed)
<1>2. /\ writes # <<>> /\ writes' = Tail(writes) /\ UNCHANGED toPage
  BY DEF Parse
<1>3. PICK answer \in Answers : fromPage' = fromPage \o answer \o <<ack>>
  BY DEF Parse
<1>4. Quiet(answer)
  <2>1. typed \in Received /\ typed.type # "ack"
    BY MessageTypes DEF FromPage
  <2>2. answer = <<>> \/ answer = <<typed>>
    BY DEF Answers
  <2> HIDE DEF typed
  <2>3. Quiet(<<>>) /\ Quiet(<<typed>>)
    BY <2>1 DEF Quiet
  <2> QED
    BY <2>2, <2>3
<1>5. /\ Shortens(writes', writes) /\ writes' \in Seq(Runs)
      /\ Head(writes) = writes[1] /\ writes[1] \in Runs
  BY <1>1, <1>2, HeadTailProperties, EmptySeq DEF Shortens
<1>6. ack \in Received /\ AckOf(ack) = writes[1]
  BY <1>5, MessageTypes DEF FromPage, AckOf
<1> HIDE DEF ack
<1> DEFINE told == fromPage \o answer
           between == PipeOf(told, writes, toPage)
<1>7. told \in Seq(Received) /\ Holds(between, rendering)
  BY <1>1, <1>4, PageTells, PipeIs DEF ChunksAreKept
<1> HIDE DEF told
<1>8. /\ Extends(fromPage', told, 1) /\ fromPage'[Len(fromPage')] = ack
  BY <1>3, <1>6, <1>7 DEF Extends, told
<1>9. IsPipe(between, told, writes, toPage) /\ IsPipe(Pipe', fromPage', writes', toPage)
  BY <1>1, <1>2, <1>7, PipeThen, PipeOfIs
<1> HIDE DEF between
<1>10. Pipe' = between
  BY <1>5, <1>6, <1>8, <1>9, PageAcks
<1> QED
  BY <1>7, <1>10 DEF ChunksAreKept

LEMMA PageStepChunks ==
    ASSUME PageTypes, PageTypes', ChunksAreKept, PageStep, ReadyOnce
    PROVE  ChunksAreKept'
<1>1. UNCHANGED rendering
  BY DEF PageStep, vars, io
<1>2. fromPage \in Seq(Received) /\ writes \in Seq(Runs) /\ toPage \in Seq(Posted)
  BY DEF PageTypes
<1>3. ASSUME NEW q, Quiet(q), fromPage' = fromPage \o q, UNCHANGED <<writes, toPage>>
      PROVE  ChunksAreKept'
  BY <1>1, <1>2, <1>3, PageTells, PipeIs, PipeIsThen DEF ChunksAreKept
<1>4. CASE Load
  <2>1. PICK newSize \in Sizes : fromPage' = Append(Fits(newSize), FromPage("ready", newSize))
    BY <1>4 DEF Load
  <2> DEFINE q == Append(Fits(newSize), FromPage("ready", newSize))
  <2>2. Quiet(Fits(newSize))
    BY FitsQuietly
  <2>3. FromPage("ready", newSize) \in Received /\ FromPage("ready", newSize).type # "ack"
    BY MessageTypes DEF FromPage
  <2>4. Quiet(q)
    BY <2>2, <2>3 DEF Quiet
  <2>5. fromPage = <<>>
    BY <1>4 DEF Load, ReadyOnce
  <2>6. q = fromPage \o q
    BY <2>4, <2>5 DEF Quiet
  <2> HIDE DEF q
  <2> QED
    BY <1>3, <1>4, <2>1, <2>4, <2>6 DEF Load, q
<1>5. CASE ObserveResize
  <2>1. PICK newSize \in NewSizes : fromPage' = fromPage \o Fits(newSize)
    BY <1>5 DEF ObserveResize
  <2>2. Quiet(Fits(newSize))
    BY FitsQuietly DEF NewSizes
  <2> QED
    BY <1>3, <1>5, <2>1, <2>2 DEF ObserveResize
<1>6. CASE PressKey
  <2>1. PICK type \in {"input", "paste"} : fromPage' = Append(fromPage, FromPage(type, Typed))
    BY <1>6 DEF PressKey
  <2> DEFINE message == FromPage(type, Typed)
  <2>2. message \in Received /\ message.type # "ack"
    BY MessageTypes DEF FromPage
  <2> HIDE DEF message
  <2>3. Quiet(<<message>>)
    BY <2>2 DEF Quiet
  <2>4. fromPage' = fromPage \o <<message>>
    BY <1>2, <2>1, <2>2 DEF message
  <2> QED
    BY <1>3, <1>6, <2>3, <2>4 DEF PressKey
<1> QED
  BY <1>1, <1>4, <1>5, <1>6, ResetChunks, OutputChunks, ParseChunks DEF PageStep

LEMMA ChunksStep ==
    TypeOK /\ PageTypes /\ ReadyOnce /\ ChunksAreKept /\ [BridgeNext]_bridgeVars => ChunksAreKept'
<1> SUFFICES ASSUME TypeOK, PageTypes, ReadyOnce, ChunksAreKept,
                    BridgeNext \/ UNCHANGED bridgeVars
             PROVE  ChunksAreKept'
  OBVIOUS
<1>1. PageTypes'
  BY NextTypes
<1>2. rendering \in Seq(Runs)
  BY DEF TypeOK
<1>3. ASSUME NEW r \in Runs, PostReset(r) PROVE ChunksAreKept'
  <2>1. Posts(ToPage("reset", r)) /\ rendering' = rendering
    BY <1>3 DEF PostReset, Prepared, io
  <2> QED
    BY <1>1, <1>2, <2>1, PostsKept
<1>4. ASSUME NEW r \in Runs, PostOutput(r) PROVE ChunksAreKept'
  <2>1. Posts(ToPage("output", r)) /\ rendering' = Append(rendering, r)
    BY <1>4 DEF PostOutput, Output
  <2> QED
    BY <1>1, <1>2, <2>1, PostsKept
<1>5. CASE Restart
  <2>1. rendering' = rendering
    BY <1>5, QuietSteps
  <2>2. CASE running' # running /\ Posts(ToPage("reset", running'))
    <3>1. StartRun
      BY <1>5, <2>2, Zenon DEF Restart, Reconnect, ResumeReconnect
    <3>2. running' \in Runs
      BY <3>1 DEF StartRun, Unused
    <3> QED
      BY <1>1, <1>2, <2>1, <2>2, <3>2, PostsKept
  <2>3. CASE UNCHANGED pageVars
    BY <2>1, <2>3, SamePipes DEF pageVars
  <2> QED
    BY <1>5, <2>2, <2>3, Zenon DEF Restart
<1>6. CASE WindowStep \/ Initializes \/ ProcessFails \/ UNCHANGED bridgeVars
  <2>1. rendering' = rendering
    BY <1>6, QuietSteps
  <2>2. UNCHANGED pageVars
    BY <1>6, Zenon DEF WindowStep, Initializes, ProcessFails, bridgeVars
  <2> QED
    BY <2>1, <2>2, SamePipes DEF pageVars
<1>7. CASE OnMessage
  BY <1>1, <1>2, <1>7, OnMessageChunks
<1>8. CASE PageStep
  BY <1>1, <1>8, PageStepChunks
<1> QED
  BY <1>3, <1>4, <1>5, <1>6, <1>7, <1>8, Zenon DEF BridgeNext

(* The page loses no chunk, repeats none and keeps their order, whatever is   *)
(* reset, resized or typed meanwhile and whatever the window closes          *)
(* (terminal.js, OnMessage).                                                 *)
THEOREM ChunksKept == BridgeSpec => []ChunksAreKept
<1>1. BridgeInit => ChunksAreKept
  <2> SUFFICES ASSUME BridgeInit
               PROVE  ChunksAreKept
    OBVIOUS
  <2>1. fromPage = <<>> /\ writes = <<>> /\ toPage = <<>> /\ rendering = <<>>
    BY DEF BridgeInit, Init
  <2>2. PageTypes
    BY InitTypes
  <2>3. Len(Pipe) = 0 /\ Pipe \in Seq(Nat)
    BY <2>1, <2>2, PipeNow, EmptySeq DEF IsPipe
  <2>4. Filled(Pipe) = {} /\ DOMAIN rendering = {}
    BY <2>1, <2>3 DEF Filled
  <2>5. Places(rendering, Pipe, rendering) /\ rendering \in [DOMAIN rendering -> Filled(Pipe)]
    BY <2>1, <2>4 DEF Places
  <2> QED
    BY <2>5 DEF ChunksAreKept, Holds
<1>2. BridgeInit => WindowInv
  BY InitInv DEF BridgeInit
<1>3. WindowInv /\ SizesInv /\ ChunksAreKept /\ [BridgeNext]_bridgeVars
         => WindowInv' /\ SizesInv' /\ ChunksAreKept'
  BY SizesStep, StepMaps, NextKeeps, ChunksStep DEF SizesInv, WindowInv
<1> QED
  BY <1>1, <1>2, <1>3, SizesInit, PTL DEF BridgeSpec

(* So an acknowledgement finds what it acknowledges: the chunk that its       *)
(* message is of is the first that the window takes for being rendered, and  *)
(* Acknowledge, which removes the first, needs no id (OnMessage, terminal.js). *)
AcksMatch ==
    fromPage # <<>> /\ Head(fromPage).type = "ack" =>
        rendering # <<>> /\ Head(rendering) = Head(fromPage).value

THEOREM AcknowledgementsMatch == BridgeSpec => []AcksMatch
<1>1. PageTypes /\ TypeOK /\ ChunksAreKept => AcksMatch
  <2> SUFFICES ASSUME PageTypes, TypeOK, ChunksAreKept,
                      fromPage # <<>>, Head(fromPage).type = "ack"
               PROVE  rendering # <<>> /\ Head(rendering) = Head(fromPage).value
    BY DEF AcksMatch
  <2>1. /\ Len(fromPage) \in Nat \ {0} /\ Head(fromPage) = fromPage[1]
        /\ fromPage[1] \in Received /\ 1 \in 1..Len(fromPage)
    BY HeadTailProperties, EmptySeq DEF PageTypes
  <2>2. fromPage[1].value \in Runs /\ AckOf(fromPage[1]) = fromPage[1].value
    BY <2>1 DEF Received, AckOf
  <2>3. IsPipe(Pipe, fromPage, writes, toPage)
    BY PipeNow
  <2>4. /\ Pipe \in Seq(Nat) /\ Pipe[1] = fromPage[1].value /\ Pipe # <<>>
    BY <2>1, <2>2, <2>3, EmptySeq DEF IsPipe
  <2>5. Pipe[1] # 0 /\ Head(Pipe) = Pipe[1]
    BY <2>2, <2>4 DEF Runs
  <2>6. rendering \in Seq(Nat)
    BY RunsAreNats DEF TypeOK
  <2> QED
    BY <2>1, <2>4, <2>5, <2>6, Consumed DEF ChunksAreKept
<1>2. BridgeTypeOK => PageTypes /\ TypeOK
  BY DEF BridgeTypeOK, PageTypes
<1> QED
  BY <1>1, <1>2, ChunksKept, BridgeTypeCorrect, PTL
=============================================================================
