----------------------------- MODULE TerminalBridge -----------------------------
(***************************************************************************)
(* TerminalWindow with the page it shows, terminal.js and the xterm.js it    *)
(* drives: the renderer that TerminalWindow takes for an arbitrary           *)
(* environment becomes a second process, and the two share nothing but       *)
(* the messages WebView2 carries, in order, each way.  A step of the page is *)
(* one of its event handlers.  The page does not hear of connections: a      *)
(* chunk of an old one may still be in any queue when the next one starts.   *)
(* Copying, and the clipboard escape sequence that terminal.js swallows,     *)
(* change nothing that is modelled.                                          *)
(***************************************************************************)
EXTENDS TerminalWindow

CONSTANT PageMessages   (* bound: messages of user and layout that wait *)

ASSUME BridgeAssumption == PageMessages \in Nat \ {0} /\ Sizes \subseteq Nat

VARIABLES
    page,           (* absent or loaded                                       *)
    toPage,         (* posted by the window, not yet received                 *)
    writes,         (* xterm's write buffer: the runs of the chunks in it     *)
    fromPage,       (* posted by the page, not yet received                   *)
    pageSize,       (* the size of the page's terminal                        *)
    ready           (* the window has received the page's ready message       *)

channels == <<toPage, writes, fromPage>>
pageVars == <<page, pageSize, channels, ready>>

ToPage(type, r) == [type |-> type, run |-> r]
FromPage(type, value) == [type |-> type, value |-> value]

Posted == {ToPage(type, r) : type \in {"reset", "output"}, r \in Runs}
Received == [type : {"ready", "resize"}, value : Sizes]
            \cup [type : {"input", "paste"}, value : {Typed}]
            \cup [type : {"ack"}, value : Runs]

BridgeTypeOK ==
    /\ TypeOK
    /\ page \in {"absent", "loaded"} /\ pageSize \in Sizes /\ ready \in BOOLEAN
    /\ toPage \in Seq(Posted) /\ writes \in Seq(Runs) /\ fromPage \in Seq(Received)

BridgeInit ==
    /\ Init
    /\ page = "absent" /\ toPage = <<>> /\ writes = <<>> /\ fromPage = <<>>
    /\ pageSize = FirstSize /\ ready = FALSE

-----------------------------------------------------------------------------
(* The window, whose steps post to the page or leave it alone.               *)

Posts(message) ==
    /\ toPage' = Append(toPage, message)
    /\ UNCHANGED <<page, pageSize, writes, fromPage, ready>>

PostReset(r) == Prepared(r) /\ Posts(ToPage("reset", r))

(* A run that finds the page ready posts its reset in the step that starts   *)
(* it.                                                                       *)
Restart ==
    /\ Reconnect \/ ResumeReconnect
    /\ IF running' # running /\ initialization = "ready" THEN Posts(ToPage("reset", running'))
       ELSE UNCHANGED pageVars

PostOutput(r) == Output(r) /\ Posts(ToPage("output", r))

Silent(r) ==
    \/ Connected(r) \/ Started(r) \/ Acknowledged(r) \/ Interrupted(r)
    \/ SessionDisposed(r) \/ Drained(r) \/ Fails(r) \/ WriterStep(r)

WindowStep ==
    /\ \/ \E r \in Runs : Silent(r)
       \/ PasteButton \/ AnswerPaste \/ Disconnect \/ ResumeDisconnect \/ ResumeClose
       \/ \E insideEvent \in BOOLEAN : CloseSession(insideEvent)
       \/ CloseInitialized \/ CloseAgain
    /\ UNCHANGED pageVars

(* The initialization succeeds by the ready message; it fails at any await.  *)
Initializes ==
    /\ InitializationEnds /\ (initialization' = "ready" => ready)
    /\ UNCHANGED pageVars

(* ProcessFailed is raised for the renderer and for the processes that help  *)
(* it: the page may go on, and may not.                                      *)
ProcessFails == RendererFails /\ UNCHANGED pageVars

ReceiveFrom(message) ==
    \/ message.type = "ready" /\ ReceiveReady(message.value) /\ ready' = TRUE
    \/ message.type = "resize" /\ ReceiveResize(message.value) /\ UNCHANGED ready
    \/ message.type = "input" /\ Type /\ UNCHANGED ready
    \/ message.type = "paste" /\ ReceivePaste /\ UNCHANGED ready
    \/ message.type = "ack" /\ Acknowledge /\ UNCHANGED ready

OnMessage ==
    /\ fromPage # <<>>
    /\ ReceiveFrom(Head(fromPage))
    /\ fromPage' = Tail(fromPage)
    /\ UNCHANGED <<page, pageSize, toPage, writes>>

-----------------------------------------------------------------------------
(* The page.                                                                 *)
Alive == page = "loaded" /\ ~drained
Room == Len(fromPage) < PageMessages

(* What fit proposes is the size the window gives the page, which may be     *)
(* another at any time (Sizes bounds how many there are: each is a number of *)
(* its own).  A size that is new is posted by onResize.                      *)
NewSizes == {newSize \in Sizes : newSize > pageSize /\ Room}
FitsSilently(newSize) == <<>>                                  \* faulty variant
Fits(newSize) == IF newSize = pageSize THEN <<>> ELSE <<FromPage("resize", newSize)>>

(* The script runs once, and a fit that changes the size posts before it.    *)
Load ==
    /\ initialization = "running" /\ page = "absent"
    /\ page' = "loaded"
    /\ \E newSize \in Sizes :
          /\ pageSize' = newSize
          /\ fromPage' = Append(Fits(newSize), FromPage("ready", newSize))
    /\ UNCHANGED <<toPage, writes, ready>>

(* Reset clears the screen, not the write buffer, and fits.                  *)
ResetDropsWrites == <<>>                                       \* faulty variant
AfterReset == writes

ReceiveReset ==
    /\ toPage # <<>> /\ Head(toPage).type = "reset"
    /\ toPage' = Tail(toPage) /\ writes' = AfterReset
    /\ \E newSize \in {pageSize} \cup NewSizes :
          pageSize' = newSize /\ fromPage' = fromPage \o Fits(newSize)
    /\ UNCHANGED <<page, ready>>

ReceiveOutput ==
    /\ toPage # <<>> /\ Head(toPage).type = "output"
    /\ toPage' = Tail(toPage) /\ writes' = Append(writes, Head(toPage).run)
    /\ UNCHANGED <<page, pageSize, fromPage, ready>>

(* The next chunk is parsed, its queries answered as if typed, and its       *)
(* callback posts the acknowledgement.                                       *)
Answers == {<<>>} \cup IF Room THEN {<<FromPage("input", Typed)>>} ELSE {}

Parse ==
    /\ writes # <<>>
    /\ writes' = Tail(writes)
    /\ \E answer \in Answers :
          fromPage' = fromPage \o answer \o <<FromPage("ack", Head(writes))>>
    /\ UNCHANGED <<page, pageSize, toPage, ready>>

ObserveResize ==
    /\ \E newSize \in NewSizes :
          pageSize' = newSize /\ fromPage' = fromPage \o Fits(newSize)
    /\ UNCHANGED <<page, toPage, writes, ready>>

(* Keys are input, but for the shortcut of paste.                            *)
PressKey ==
    /\ Room /\ Usable
    /\ \E type \in {"input", "paste"} : fromPage' = Append(fromPage, FromPage(type, Typed))
    /\ UNCHANGED <<page, pageSize, toPage, writes, ready>>

PageStep ==
    /\ \/ Load
       \/ Alive /\ (ReceiveReset \/ ReceiveOutput \/ Parse \/ ObserveResize \/ PressKey)
    /\ UNCHANGED vars

-----------------------------------------------------------------------------
bridgeVars == <<vars, pageVars>>

BridgeNext ==
    \/ \E r \in Runs : PostReset(r) \/ PostOutput(r)
    \/ Restart \/ WindowStep \/ Initializes \/ ProcessFails \/ OnMessage \/ PageStep

(* The page's events and the window's are handled, until a process of the    *)
(* browser has failed; nothing is assumed of the user.                       *)
Works == Alive /\ ~requiresReopen

BridgeFairness ==
    /\ Fairness
    /\ WF_bridgeVars(OnMessage)
    /\ WF_bridgeVars(Works /\ (ReceiveReset \/ ReceiveOutput) /\ UNCHANGED vars)
    /\ WF_bridgeVars(Works /\ Parse /\ UNCHANGED vars)
    /\ \A r \in Runs : WF_vars(Acknowledged(r))

BridgeSpec == BridgeInit /\ [][BridgeNext]_bridgeVars /\ BridgeFairness

-----------------------------------------------------------------------------
(* The run of the chunk at every place between the window and its renderer,  *)
(* the oldest chunk first; 0 where another message is.                       *)
Pipe == [i \in DOMAIN fromPage |-> IF fromPage[i].type = "ack" THEN fromPage[i].value ELSE 0]
        \o writes
        \o [i \in DOMAIN toPage |-> IF toPage[i].type = "output" THEN toPage[i].run ELSE 0]

(* A sequence is what a pipe holds besides zeros, in the order of the pipe.  *)
Filled(pipe) == {p \in DOMAIN pipe : pipe[p] # 0}
Places(at, pipe, s) ==
    /\ \A i, j \in DOMAIN s : i < j => at[i] < at[j]
    /\ \A p \in Filled(pipe) : \E i \in DOMAIN s : at[i] = p
    /\ \A i \in DOMAIN s : s[i] = pipe[at[i]]
Holds(pipe, s) == \E at \in [DOMAIN s -> Filled(pipe)] : Places(at, pipe, s)

(* The page loses no chunk, repeats none and keeps their order, across       *)
(* resets: what the window takes for being rendered is what the queues hold, *)
(* so its test of the last id is a test of the last chunk.                   *)
ChunksAreKept == Holds(Pipe, rendering)

(* A session whose messages have all been sent has the size of the page,     *)
(* whenever the page was resized: before the session, while it was           *)
(* connecting, or behind a question about a paste.                           *)
Settled(r) ==
    /\ runs[r].phase \in {"reading", "posting"} /\ ~runs[r].cancelled
    /\ input = <<>> /\ runs[r].writer = "idle"
    /\ \A i \in DOMAIN fromPage : fromPage[i].type \notin {"ready", "resize"}

SizeFollows == \A r \in Runs : Settled(r) => remote = pageSize

(* Output that waits for its acknowledgement goes on, whatever else is in    *)
(* the queues, unless a question of the window's keeps messages waiting or a *)
(* process of the browser has failed.                                        *)
OutputProceeds ==
    []<>(~Receives \/ requiresReopen \/ \A r \in Runs : runs[r].phase # "posting")
=============================================================================
