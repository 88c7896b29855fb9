----------------------------- MODULE TerminalWindow -----------------------------
(***************************************************************************)
(* One TerminalWindow.  All of it runs on the UI thread, so an action is     *)
(* what happens between two awaits; what may interleave are the awaits of    *)
(* RunAsync and its write loop, of the overlapping StopAsync calls behind    *)
(* Reconnect, Disconnect and closing, of the browser's initialization, and   *)
(* the messages of the renderer.  A run is one call of RunAsync with the     *)
(* CancellationTokenSource and the input channel made for it.                *)
(***************************************************************************)
EXTENDS Naturals, Sequences

CONSTANTS
    MaxRuns,        (* bound: calls of RunAsync                               *)
    MaxStops,       (* bound: StopAsync calls that wait at once               *)
    InputCapacity,  (* messages the input channel holds                       *)
    Sizes,          (* sizes of a terminal, in columns and rows               *)
    FirstSize,      (* the size the fields begin with                         *)
    Typed           (* not a size: a message that carries bytes               *)

ASSUME WindowAssumption == {MaxRuns, MaxStops, InputCapacity} \subseteq Nat \ {0}
ASSUME SizeAssumption == FirstSize \in Sizes /\ Typed \notin Sizes

Runs == 1..MaxRuns

(* What is queued for the remote side: bytes or a size, and the session that *)
(* was there when it was queued.                                             *)
Messages == [to : Runs, what : Sizes \cup {Typed}]
Nothing == [to |-> 0, what |-> Typed]

VARIABLES
    runs,           (* run -> its await, its token, its write loop and the    *)
                    (* input that loop holds                                  *)
    running,        (* field: the last run, or 0                              *)
    cancellation,   (* field: the run whose token source it holds, or 0       *)
    session,        (* field: the run whose session it holds, or 0            *)
    open,           (* history: the runs whose session is not yet disposed    *)
    input,          (* the channel                                            *)
    rendering,      (* the runs of the chunks posted and not acknowledged     *)
    acknowledged,   (* the acknowledgement field is complete                  *)
    size,           (* fields: columns and rows                               *)
    remote,         (* the size the remote side of the session was last given *)
    questions,      (* the open questions about pastes: what asked for them   *)
    initialization, (* the browser's initialization task                      *)
    requiresReopen, (* field                                                  *)
    restarting,     (* field                                                  *)
    stops,          (* the StopAsync calls that wait for a run, in order      *)
    closing,        (* field                                                  *)
    closeTask,      (* the task of CloseCoreAsync                             *)
    drained,        (* field                                                  *)
    window          (* open or shut                                           *)

fields == <<running, cancellation, session, open, restarting>>
io == <<input, rendering, acknowledged, size, remote, questions>>
browser == <<initialization, requiresReopen>>
ending == <<stops, closing, closeTask, drained, window>>
vars == <<runs, fields, io, browser, ending>>

Phases == {"unused", "preparing", "connecting", "starting", "reading", "posting",
           "disposing", "draining", "ended"}
Live(r) == runs[r].phase \notin {"unused", "ended"}

Run == [phase : Phases, cancelled : BOOLEAN, item : Messages \cup {Nothing},
        writer : {"none", "idle", "sending", "ended"}]
Stop == [kind : {"reconnect", "disconnect", "close"}, stopping : 0..MaxRuns, task : Runs]

TypeOK ==
    /\ runs \in [Runs -> Run]
    /\ {running, cancellation, session} \subseteq 0..MaxRuns
    /\ open \subseteq Runs
    /\ input \in Seq(Messages) /\ Len(input) <= InputCapacity
    /\ {size, remote} \subseteq Sizes /\ questions \in Seq({"message", "toolbar"})
    /\ rendering \in Seq(Runs)
    /\ initialization \in {"none", "running", "ready", "failed"}
    /\ {acknowledged, requiresReopen, restarting, closing, drained} \subseteq BOOLEAN
    /\ stops \in Seq(Stop)
    /\ closeTask \in {"none", "stopping", "initializing", "closed", "faulted"}
    /\ window \in {"open", "shut"}

Init ==
    /\ runs = [r \in Runs |-> [phase |-> "unused", cancelled |-> FALSE, item |-> Nothing,
                               writer |-> "none"]]
    /\ running = 0 /\ cancellation = 0 /\ session = 0 /\ open = {}
    /\ input = <<>> /\ rendering = <<>> /\ acknowledged = FALSE
    /\ size = FirstSize /\ remote = FirstSize /\ questions = <<>>
    /\ initialization = "none" /\ requiresReopen = FALSE
    /\ restarting = FALSE /\ stops = <<>>
    /\ closing = FALSE /\ closeTask = "none" /\ drained = FALSE /\ window = "open"

(* cancellation?.Cancel(), and the run r moved to another await.             *)
Cancelled(all, c) == IF c = 0 THEN all ELSE [all EXCEPT ![c].cancelled = TRUE]
Moved(r, phase) == [runs EXCEPT ![r].phase = phase]

-----------------------------------------------------------------------------
(* RunAsync.                                                                 *)

(* The synchronous part: the first run starts the initialization, which may  *)
(* fail at once; a failed one ends the run inside the call.                  *)
Unused == {r \in Runs : runs[r].phase = "unused"}
FirstWait == [running |-> "preparing", ready |-> "connecting", failed |-> "ended"]
NewChannelKept == input                                        \* faulty variant
NewChannel == <<>>

StartRun ==
    \E r \in Unused : \A other \in Unused : r <= other /\
        /\ cancellation' = r /\ running' = r /\ input' = NewChannel
        /\ initialization' \in IF initialization = "none" THEN {"running", "failed"}
                               ELSE {initialization}
        /\ requiresReopen' = (requiresReopen \/ initialization' = "failed")
        /\ runs' = [runs EXCEPT ![r].phase = FirstWait[initialization'],
                                ![r].cancelled = initialization' = "failed"]

(* The finally block: cancel the field's token, dispose the field's session, *)
(* wait for the write loop.                                                  *)
AfterSession(r) == IF runs[r].writer = "none" THEN "ended" ELSE "draining"
Finish(r) ==
    /\ runs' = Cancelled(Moved(r, IF session # 0 THEN "disposing" ELSE AfterSession(r)),
                         cancellation)
    /\ UNCHANGED <<fields, io, browser, ending>>

Prepared(r) ==
    /\ runs[r].phase = "preparing" /\ initialization = "ready" /\ ~runs[r].cancelled
    /\ runs' = Moved(r, "connecting")
    /\ UNCHANGED <<fields, io, browser, ending>>

(* connect may still return a session after the cancellation.  It is given   *)
(* the size of the fields; a size that comes later is queued.                *)
Connected(r) ==
    /\ runs[r].phase = "connecting"
    /\ runs' = Moved(r, "starting")
    /\ session' = r /\ open' = open \cup {r} /\ remote' = size
    /\ UNCHANGED <<input, rendering, acknowledged, size, questions, running, cancellation,
                   restarting, browser, ending>>

Started(r) ==
    /\ runs[r].phase = "starting" /\ ~runs[r].cancelled
    /\ runs' = [runs EXCEPT ![r].phase = "reading", ![r].writer = "idle"]
    /\ UNCHANGED <<fields, io, browser, ending>>

(* A read may return what it had pending although the token is cancelled.    *)
Output(r) ==
    /\ runs[r].phase = "reading"
    /\ runs' = Moved(r, "posting")
    /\ acknowledged' = FALSE /\ rendering' = Append(rendering, r)
    /\ UNCHANGED <<input, size, remote, questions, fields, browser, ending>>

Acknowledged(r) ==
    /\ runs[r].phase = "posting" /\ acknowledged /\ ~runs[r].cancelled
    /\ runs' = Moved(r, "reading")
    /\ UNCHANGED <<fields, io, browser, ending>>

(* What a cancellation ends; every await of the try block takes the token.   *)
InterruptibleNotPosting == {"preparing", "connecting", "starting", "reading"}  \* faulty variant
Interruptible == {"preparing", "connecting", "starting", "reading", "posting"}

Interrupted(r) == runs[r].cancelled /\ runs[r].phase \in Interruptible /\ Finish(r)

(* The initialization failed, SSH did, the remote side closed, or nothing    *)
(* was acknowledged in time.                                                 *)
Fails(r) ==
    /\ \/ runs[r].phase = "preparing" /\ initialization = "failed"
       \/ runs[r].phase \in {"connecting", "starting", "reading"}
       \/ runs[r].phase = "posting" /\ ~acknowledged
    /\ Finish(r)

SessionDisposed(r) ==
    /\ runs[r].phase = "disposing"
    /\ session' = 0 /\ open' = open \ {session} /\ remote' = FirstSize
    /\ runs' = Moved(r, AfterSession(r))
    /\ UNCHANGED <<input, rendering, acknowledged, size, questions, running, cancellation,
                   restarting, browser, ending>>

Drained(r) ==
    /\ runs[r].phase = "draining" /\ runs[r].writer = "ended"
    /\ runs' = Moved(r, "ended")
    /\ UNCHANGED <<fields, io, browser, ending>>

-----------------------------------------------------------------------------
(* WriteLoopAsync.                                                           *)
WriterTakes(r) ==
    /\ runs[r].writer = "idle" /\ input # <<>> /\ ~runs[r].cancelled
    /\ runs' = [runs EXCEPT ![r].writer = "sending", ![r].item = Head(input)]
    /\ input' = Tail(input)
    /\ UNCHANGED <<rendering, acknowledged, size, remote, questions, fields, browser, ending>>

WriterSent(r) ==
    /\ runs[r].writer = "sending"
    /\ runs' = [runs EXCEPT ![r].writer = "idle", ![r].item = Nothing]
    /\ remote' = IF runs[r].item.what = Typed THEN remote ELSE runs[r].item.what
    /\ UNCHANGED <<input, rendering, acknowledged, size, questions, fields, browser, ending>>

WriterSees(r) == runs[r].writer = "sending" \/ (runs[r].writer = "idle" /\ runs[r].cancelled)

WriterEnds(r) ==
    /\ WriterSees(r)
    /\ runs' = Cancelled([runs EXCEPT ![r].writer = "ended", ![r].item = Nothing], cancellation)
    /\ UNCHANGED <<fields, io, browser, ending>>

-----------------------------------------------------------------------------
(* The browser.                                                              *)
InitializationEnds ==
    /\ initialization = "running"
    /\ \/ initialization' = "ready" /\ UNCHANGED requiresReopen
       \/ initialization' = "failed" /\ requiresReopen' = TRUE
    /\ UNCHANGED <<runs, fields, io, ending>>

RendererFails ==
    /\ initialization \in {"running", "ready"} /\ ~drained /\ ~requiresReopen
    /\ requiresReopen' = TRUE
    /\ runs' = Cancelled(runs, cancellation)
    /\ UNCHANGED <<initialization, fields, io, ending>>

-----------------------------------------------------------------------------
(* OnMessage.  WebView2 raises no event while a handler has not returned, so *)
(* nothing is received while a paste it asked for waits for its answer.      *)
Receives == ~drained /\ \A i \in DOMAIN questions : questions[i] # "message"

(* The renderer acknowledges the chunks in order, by their ids; OnMessage    *)
(* takes the id of the last chunk posted only.                               *)
CurrentAny == TRUE                                             \* faulty variant
CurrentIsNext == Len(rendering) = 2                            \* faulty variant
Current == Len(rendering) = 1

Acknowledge ==
    /\ Receives /\ rendering # <<>>
    /\ rendering' = Tail(rendering)
    /\ acknowledged' = (acknowledged \/ Current)
    /\ UNCHANGED <<input, size, remote, questions, runs, fields, browser, ending>>

(* A modal dialog disables the window that owns it.                          *)
Usable == window = "open" /\ questions = <<>>

Full == Len(input) = InputCapacity

Queue(what) ==
    IF session = 0 \/ cancellation = 0 THEN UNCHANGED <<input, runs>>
    ELSE IF runs[cancellation].cancelled THEN UNCHANGED <<input, runs>>
    ELSE IF Full THEN runs' = Cancelled(runs, cancellation) /\ UNCHANGED input
    ELSE input' = Append(input, [to |-> session, what |-> what]) /\ UNCHANGED runs

Type ==
    /\ Receives
    /\ Queue(Typed)
    /\ UNCHANGED <<rendering, acknowledged, size, remote, questions, fields, browser, ending>>

(* SetSize, of a ready message, and of a resize message, which queues it.    *)
ReceiveReady(newSize) ==
    /\ Receives
    /\ size' = newSize
    /\ UNCHANGED <<runs, input, rendering, acknowledged, remote, questions, fields, browser,
                   ending>>

ResizeWithSession(newSize) ==                                  \* faulty variant
    /\ size' = IF session # 0 THEN newSize ELSE size
    /\ Queue(newSize)
Resize(newSize) == size' = newSize /\ Queue(newSize)

ReceiveResize(newSize) ==
    /\ Receives
    /\ Resize(newSize)
    /\ UNCHANGED <<rendering, acknowledged, remote, questions, fields, browser, ending>>

(* Paste, asked for by a message or by the toolbar.  Several lines are asked *)
(* about in a modal dialog, during which the dispatcher goes on, so that a   *)
(* message may ask for another paste; the last question is answered first.   *)
Paste(source) ==
    /\ \/ session = 0 /\ UNCHANGED <<input, runs, questions>>
       \/ session # 0 /\ Queue(Typed) /\ UNCHANGED questions
       \/ session # 0 /\ questions' = Append(questions, source) /\ UNCHANGED <<input, runs>>
    /\ UNCHANGED <<rendering, acknowledged, size, remote, fields, browser, ending>>

PasteButton == Usable /\ Paste("toolbar")
ReceivePaste == Receives /\ Paste("message")

AnswerPaste ==
    /\ questions # <<>>
    /\ questions' = SubSeq(questions, 1, Len(questions) - 1)
    /\ Queue(Typed) \/ UNCHANGED <<input, runs>>
    /\ UNCHANGED <<rendering, acknowledged, size, remote, fields, browser, ending>>

-----------------------------------------------------------------------------
(* StopAsync and its callers.                                                *)
Loaded == running # 0
StopSkipsCancelled ==                                          \* faulty variant
    Loaded /\ runs[running].phase # "ended" /\ ~runs[running].cancelled
StopWaits == Loaded /\ runs[running].phase # "ended"
Wait(kind) ==
    /\ stops' = Append(stops, [kind |-> kind, stopping |-> cancellation, task |-> running])
    /\ runs' = Cancelled(runs, cancellation)

MayReconnect == ~closing /\ ~restarting /\ ~requiresReopen

Reconnect ==
    /\ Usable /\ MayReconnect /\ Unused # {}
    /\ IF StopWaits
       THEN /\ Len(stops) < MaxStops
            /\ Wait("reconnect") /\ restarting' = TRUE
            /\ UNCHANGED <<input, running, cancellation, browser>>
       ELSE StartRun /\ UNCHANGED <<stops, restarting>>
    /\ UNCHANGED <<session, open, rendering, acknowledged, size, remote, questions, closing,
                   closeTask, drained, window>>

Disconnect ==
    /\ Usable /\ Loaded
    /\ IF StopWaits
       THEN Len(stops) < MaxStops /\ Wait("disconnect") /\ UNCHANGED cancellation
       ELSE cancellation' = 0 /\ UNCHANGED <<stops, runs>>
    /\ UNCHANGED <<running, session, open, restarting, io, browser, closing, closeTask,
                   drained, window>>

(* The rest of StopAsync once its run has ended.                             *)
ReleasedAlways(stop) == 0                                      \* faulty variant
Released(stop) == IF cancellation = stop.stopping THEN 0 ELSE cancellation

Resumes(kind) ==
    /\ stops # <<>> /\ Head(stops).kind = kind
    /\ runs[Head(stops).task].phase = "ended"
    /\ stops' = Tail(stops)

MayStartAlways == TRUE                                         \* faulty variant
MayStart == ~closing

ResumeReconnect ==
    /\ Resumes("reconnect")
    /\ restarting' = FALSE
    /\ IF MayStart /\ Unused # {} THEN StartRun
       ELSE cancellation' = Released(Head(stops)) /\ UNCHANGED <<runs, running, input, browser>>
    /\ UNCHANGED <<session, open, rendering, acknowledged, size, remote, questions, closing,
                   closeTask, drained, window>>

ResumeDisconnect ==
    /\ Resumes("disconnect")
    /\ cancellation' = Released(Head(stops))
    /\ UNCHANGED <<runs, running, session, open, restarting, io, browser, closing, closeTask,
                   drained, window>>

-----------------------------------------------------------------------------
(* CloseCoreAsync, called in the Closing event of the window or, when the    *)
(* application shuts down, outside of it.  What follows its last await       *)
(* disposes the browser and calls Close, which throws inside the event (a    *)
(* rule of WPF): the event has cancelled that closing, and the window stays. *)
Ended(insideEvent) ==
    /\ drained' = TRUE
    /\ IF insideEvent THEN closeTask' = "faulted" /\ UNCHANGED window
       ELSE closeTask' = "closed" /\ window' = "shut"

AfterStop(insideEvent) ==
    IF initialization = "running" THEN closeTask' = "initializing" /\ UNCHANGED <<drained, window>>
    ELSE Ended(insideEvent)

CloseSession(insideEvent) ==
    /\ window = "open" /\ Loaded /\ closeTask = "none" /\ (insideEvent => Usable)
    /\ closing' = TRUE
    /\ IF StopWaits
       THEN Wait("close") /\ closeTask' = "stopping" /\ UNCHANGED <<cancellation, drained, window>>
       ELSE cancellation' = 0 /\ AfterStop(insideEvent) /\ UNCHANGED <<stops, runs>>
    /\ UNCHANGED <<running, session, open, restarting, io, browser>>

ResumeClose ==
    /\ Resumes("close")
    /\ cancellation' = Released(Head(stops))
    /\ AfterStop(FALSE)
    /\ UNCHANGED <<runs, running, session, open, restarting, io, browser, closing>>

CloseInitialized ==
    /\ closeTask = "initializing" /\ initialization # "running"
    /\ Ended(FALSE)
    /\ UNCHANGED <<runs, fields, io, browser, stops, closing>>

(* Another attempt to close a window that is drained but still there.        *)
CloseAgain ==
    /\ Usable /\ drained
    /\ window' = "shut"
    /\ UNCHANGED <<runs, fields, io, browser, stops, closing, closeTask, drained>>

-----------------------------------------------------------------------------
Proceeds(r) ==
    \/ Prepared(r) \/ Connected(r) \/ Started(r) \/ Output(r) \/ Acknowledged(r)
    \/ Interrupted(r) \/ SessionDisposed(r) \/ Drained(r)
RunStep(r) == Proceeds(r) \/ Fails(r)
WriterStep(r) == WriterTakes(r) \/ WriterSent(r) \/ WriterEnds(r)
Resume == ResumeReconnect \/ ResumeDisconnect \/ ResumeClose

Next ==
    \/ \E r \in Runs : RunStep(r) \/ WriterStep(r)
    \/ InitializationEnds \/ RendererFails \/ Acknowledge \/ Type
    \/ \E newSize \in Sizes : ReceiveReady(newSize) \/ ReceiveResize(newSize)
    \/ PasteButton \/ ReceivePaste \/ AnswerPaste
    \/ Reconnect \/ Disconnect \/ Resume
    \/ \E insideEvent \in BOOLEAN : CloseSession(insideEvent)
    \/ CloseInitialized \/ CloseAgain

Spec == Init /\ [][Next]_vars

(* The dispatcher runs what is ready, a cancelled await ends, the browser's  *)
(* initialization ends (its last wait has a timeout).  Nothing is assumed of *)
(* the server, the renderer, the acknowledgement watchdog or the user.       *)
Fairness ==
    /\ \A r \in Runs : /\ WF_vars(runs[r].cancelled /\ Proceeds(r))
                       /\ WF_vars(runs[r].cancelled /\ (WriterSent(r) \/ WriterEnds(r)))
    /\ WF_vars(InitializationEnds) /\ WF_vars(Resume) /\ WF_vars(CloseInitialized)

FairSpec == Spec /\ Fairness

-----------------------------------------------------------------------------
(* The window never has two SSH sessions, and none that the session field    *)
(* has lost, so that the finally block of some run will dispose it.          *)
OneSession == open \subseteq {session}

(* Once the window is drained nothing runs, nothing is open and no later     *)
(* await starts anything.                                                    *)
DrainedIsQuiet == drained => open = {} /\ \A r \in Runs : ~Live(r)

(* Disconnect, closing and the renderer's failure cancel the token of the    *)
(* run that is going on: the cancellation field holds it, unless it has been *)
(* cancelled before.                                                         *)
StopReachesRun == \A r \in Runs : Live(r) /\ ~runs[r].cancelled => cancellation = r

(* A run has one chunk at most at the renderer that is not acknowledged,     *)
(* although acknowledgements of an earlier run's chunks may still come.      *)
OneChunkInFlight ==
    \A i, j \in 1..Len(rendering) : rendering[i] = rendering[j] => i = j

(* What was queued for one session is never sent to the next.                *)
InputToOwnSession == \A r \in Runs : runs[r].item.to \in {0, r}

(* Every stop ends, whatever the renderer and the server do not do: a run     *)
(* that was cancelled, and a window that closes with all that it waits for.  *)
(* (What is cancelled or closing stays so.)                                  *)
StopsEnd == []<>( /\ \A r \in Runs : runs[r].cancelled => runs[r].phase = "ended"
                  /\ closing => closeTask \in {"closed", "faulted"} )

(* Closing the window succeeds, as the documentation has the user do after a *)
(* failed initialization.                                                    *)
CloseSucceeds == closeTask # "faulted"

(* What the user sees of the runs: the last one, as far as it has come.      *)
Stage == [unused |-> "off", preparing |-> "connecting", connecting |-> "connecting",
          starting |-> "connected", reading |-> "connected", posting |-> "connected",
          disposing |-> "leaving", draining |-> "leaving", ended |-> "off"]

StageOfLast == IF running = 0 THEN "off" ELSE Stage[runs[running].phase]
Told == running # 0 /\ runs[running].cancelled

Terminal == INSTANCE TerminalContract
            WITH connection <- running, stage <- StageOfLast, told <- Told, shut <- drained

(* The runs, their tokens, finally blocks and write loops, the stops and the *)
(* closing are one terminal: a connection begins only when the one before it  *)
(* has ended and its session is disposed, the token of one that leaves is    *)
(* cancelled by then, before its session is disposed, and once the window is *)
(* drained none begins (TerminalContract).                                   *)
Contract == Terminal!Spec

(* No run starts in a terminal that has to be reopened.                      *)
NoRunAfterFailure == [][requiresReopen => running' = running]_vars
=============================================================================
