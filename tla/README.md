# MythLab: TLA+ models, checks and proofs

MythLab is a WPF program that keeps an inventory of devices on the local
network, checks whether they answer, wakes them, stores credentials and opens
SSH terminals. This directory holds TLA+ modules of its stateful parts, TLC
configurations that check them on small instances, and TLAPS proofs of the
safety results that matter most for any number of devices, scans, windows, keys
and bytes. Source paths below are relative to `src/MythLab.*` in the repository;
`PROJECT.json` maps every definition to its lines.

## 1. Inventory of the system

| Component | State | Operations | Talks to | Hard behaviour | Correct when |
|---|---|---|---|---|---|
| Device rules (`Core/Devices`, `Core/Monitoring/StatusObservation.cs`) | none | validate, match, compare targets, merge an edit, qualify an observation | used by all below | which part of a record survives which change | evidence (state, last check, *Verified*) is only kept for the target it is about |
| Device repository (`Infrastructure/Storage/SqliteDeviceRepository.cs`) | devices table, one gate, one connection per call | save, apply observation, delete, list | editors, activity, discovery | stale copies saved or observed later; two processes on one folder | unique addresses, newest observation wins, edits are never overwritten |
| Wake workflow (`Infrastructure/WakeOnLan`) | one call's phase, packets sent, deadline | check, send bursts, poll, time out, cancel | status check, UDP sockets | cancellation against send, answer against deadline | only Offline -> packets -> Online verifies; whole bursts; it ends |
| Device activity (`App/ViewModels/DeviceActivityViewModel.cs`, `ShellViewModel.cs`, cards) | cards, generations, current sweep, waking dictionary, shutdown token | sweep, wake, cancel, edit, add, delete, reload, stop | repository, status, wake workflow, dialogs | every await of these interleaves with every other; overlapping reloads; shutdown in the middle | cards show only what was observed of them and follow the store; nothing runs after the drain |
| Credential save (`Core/Credentials/CredentialSaveService.cs`, `SqliteConnections.cs`, `WindowsCredentialStore.cs`) | metadata rows, Windows secrets, one gate | save with compensation, delete with restoration | connections view | a store that fails before or after taking effect, crash between the two | both halves change or neither, or the user is told |
| SSH trust (`Infrastructure/Ssh/SshSessionService.cs`, `KnownHostsStore.cs`) | known-hosts file, attempts under way | evaluate, review, reconnect, authenticate, trust, remove | terminal windows, user prompt | two windows review at once, server changes its key, removal under a connection | one key per host, no unaccepted key gets anywhere |
| Terminal output (`SshTerminalSession.cs`, `BoundedTerminalOutput.cs`) | ShellStream buffer, bounded channel, two draining threads | receive, drain, read, close, dispose | SSH.NET's receive worker, terminal window | backpressure on a worker that the disposal must join | order, nothing lost at the end, bounded, always released |
| Terminal window (`App/Views/TerminalWindow.cs`, `App/TerminalAssets/terminal.js` over the vendored `xterm.js` and `addon-fit.js`) | run, token source, session, input channel, browser initialization, closing flags; the page's write buffer and size; message queues both ways | reconnect, disconnect, close, type, paste, resize, write, acknowledge | session, WebView2, main window | stops overlap at every await; messages of one connection wait while the next begins; renderer fails or never acknowledges | one session, every stop reaches its run and ends, no chunk lost or acknowledged for another, the size arrives |
| Connections view (`ConnectionsViewModel*.cs`) | lists of profiles, credentials, hosts, external tools | load, edit, delete, connect, launch | credential save, trust, terminals | overlapping loads | lists follow the stores |
| Network discovery (`Infrastructure/Discovery`, `DiscoveryViewModel.cs`) | scan and its generation, evidence per address, rows posted and shown, native ARP slots | scan, cancel, merge evidence, show a row, add a device | probes, dispatcher, repository, shell | late progress, evidence in parts, native calls that outlive their scan | no evidence lost, no slot leaked, no late row |
| Device status check (`Infrastructure/Monitoring`) | none between calls | check addresses in turn within a budget | sockets, DNS | division of the budget, cancellation | an answer is about the configured target |
| Shutdown (`MainWindow.xaml.cs`, `App.xaml.cs`) | close flags | wait for commands, stop terminals, activity, scan, dispose | all of the above | order, failures, deferred close | nothing uses what was disposed |
| External connections (`Core/Connections`, `WindowsConnectionLauncher.cs`) | none | validate, wait for the device, launch | status, wake | cancellation of the wait | launched once, only when ready |
| Portable data and settings (`AppPaths.cs`, `PortableDataSetup.cs`, `SettingsStore.cs`) | files | migrate, replace | startup | crash between copies | old or new data, never half |
| Wake packets and routing (`MagicPacket.cs`, `WakeContracts.cs`, `MacAddress.cs`) | none | parse, build, choose interface and broadcast | wake workflow | boundaries of masks | right address |
| Dialogs, views, theme, diagnostics | presentation only | | | | |

Interactions: view models call the repository and the services by `await` on
the UI thread; the repository serves one call at a time behind a gate; services
report by return values, exceptions or `IProgress`; terminals run one SSH
session each, whose output comes from SSH.NET's receive worker. Nothing else is
shared, except the data folder between two processes.

## 2. Modules

| Module | Models | Notes |
|---|---|---|
| `DeviceRules` | `Device`, `DeviceRules`, `DeviceTargets`, the editor's and the repository's merges, `DiscoveredDevice.ToDevice` | operators only; EXTENDed by the next ones |
| `InventoryContract` | what `IDeviceRepository` promises whoever calls it: each call adds, replaces, observes or deletes one device, and what each may change | abstract specification |
| `DeviceRepository` | every transaction on the devices table, with the editors and observers that call it from copies of any age | `SingleInstance` says whether one process (the shell's busy flag) or several edit; implements `InventoryContract` (`Contract`) |
| `WakeContract` | what one wake promises: look, send, end with an outcome | abstract specification |
| `WakeDevice` | `WakeDeviceService.WakeAsync` over `WakeOnLanService.SendAsync`, packet by packet | implements `WakeContract` (INSTANCE ... WITH, property `Contract`) |
| `DeviceActivity` | the UI thread: cards, sweeps, wakes, commands, reloads, shutdown, with repository commits split from the arrival of their results | composes `DeviceRules` with the repository's transactions; implements `InventoryContract` (`Contract`), so that the two modules agree on the store; one wake is the few steps that `WakeContract` allows |
| `CredentialSave` | saves with compensation and deletions over two stores that may fail before or after taking effect; crashes | |
| `SshTrust` | known-hosts file, attempts, review, re-keying, removal, a server that changes its key | |
| `OutputContract` | what `ITerminalSession.ReadAsync` promises: the bytes the server sent, in order, and an end | abstract specification |
| `TerminalOutput` | `SshTerminalSession` and `BoundedTerminalOutput`, thread by thread | implements `OutputContract` (`Contract`) |
| `TerminalContract` | what a terminal window promises: connections one after the other, each told to stop when it leaves at the latest and its session disposed before it ends, and none once the window is shut | abstract specification |
| `TerminalWindow` | one `TerminalWindow`, await by await, over a renderer that may do anything | implements `TerminalContract` (INSTANCE ... WITH, `Contract`) |
| `TerminalBridge` | the same window with its page: `terminal.js`, what it drives of `xterm.js` and `addon-fit.js`, and the messages between the two | EXTENDS `TerminalWindow` and implements it |
| `DiscoveryScan` | the scans of the discovery view, one after the other, with the engine's merging and the process-wide slots of native calls | |
| `*Proofs` | theorems: `DeviceRepositoryProofs`, `DeviceActivityProofs`, `WakeDeviceProofs`, `CredentialSaveProofs`, `SshTrustProofs`, `TerminalOutputProofs`, `DiscoveryScanProofs`, and `TerminalProofs` about window and bridge | |
| `MC*` | instances for TLC | forms, hosts and devices of the runs |

### How state and actions correspond to the code

* **DeviceRepository.** `store` is the table (normalised records), `allocated`
  the GUIDs ever stored. An editor holds the copy its dialog was opened with;
  an observer the copy its check or wake began with, and later the answer.
  `Save` is all of `SaveAsync`: the merge with the row as it is now, the
  validation, the duplicate check over the merged record and the write.
  `ApplyObservation` is the whole transaction. `observed` and `witnessed` are
  history: what checks really saw, and which wakes were seen to succeed.
  Addresses, names and times are members of small sets; case-folding of host
  names is the constant function `CaseFold`, since normalisation matters to
  matching.
* **WakeDevice.** `pc` is the await the call is at; `gaps` records the pause
  before each packet. The clock is two events: a delay passes, the deadline
  fires (only after `CancelAfter` armed it).
* **DeviceActivity.** A step is what runs between two awaits on the UI thread.
  The commit of a repository call (`CommitCheck`, `CommitWake`, `ReadList`) is a
  step of its own; its result goes to `inbox`, in the order the gate served the
  calls, and `ResumeCheck`, `ResumeWake` and `ShowList` take it from there.
  A card's `Generation` is only compared with the value read at the start, so
  an operation carries whether they are still equal (`fresh`).
  `enlisted` is the set `operations` of the code: a sweep or wake joins it as it
  begins and leaves it as it ends, and `StopDone` waits for the list, not for
  what really runs.
  `Synchronized` is all of `Synchronize`: new cards, removed cards, and the reset
  of cards whose target changed.
* **CredentialSave.** A save goes through the phases of `SaveAsync`; each store
  call may succeed, throw without effect, or throw after the effect. `reported`
  are the credentials for which the user was told that the stores may disagree
  (or that a crash cut short). `rows` is the list on screen, used by deletion;
  `RowsMayLag` lets it be older than the store.
* **SshTrust.** A connection is one call of `ConnectAsync`: `known` are the
  records it read when the attempt began, `reviewed` the key the user accepted.
* **TerminalOutput.** `shell` is the ShellStream's buffer, `drain` where each of
  the two threads is in `Drain`. `Receive` is an event raised on the receive
  worker, which is why none comes while the worker is in `Drain`.
* **TerminalWindow.** A *run* is one call of `RunAsync`, named by a number, with
  its token and input channel. The fields `cancellation`, `session`, `running`
  hold such numbers, so that the code's use of the *field* where it means its
  own token can be told from the token itself. `stops` are the `StopAsync`
  calls that await a run, resumed in order. `questions` are the paste dialogs
  that are open. `remote` is the size the session was last told, `size` the one
  the window knows. Chunk ids are abstracted: the renderer acknowledges in
  order, so the head of `rendering` has the current id exactly when it is the
  only element (`ChunksAreKept` checks that the page makes this true).
* **TerminalBridge.** `toPage` and `fromPage` are the two message queues of
  WebView2, `writes` is xterm's write buffer, whose callbacks acknowledge. A
  step of the page is one of its event handlers. WebView2 raises no event while
  a handler has not returned, so the acknowledgements wait behind a paste
  dialog that a message opened, and the two-minute watchdog may then fire.
* **DiscoveryScan.** A step is what runs between two awaits. `at` is the await
  of each address, `part` what its check has collected, `results` the merged
  devices, `posts` the rows on their way through the dispatcher (first in, first
  out, so that the end of the command comes behind the progress) and `rows` the
  screen. `calls` are the native ARP calls, which outlive the scan that made
  them. `seen` is history: what the network answered in this scan.

## 3. Runs

Each run ends within the five minutes it is given, most in one or two. Bounds
are constants of the cfg.

| Run | Question | Bounds and why they are enough |
|---|---|---|
| `repository_observe` | Do answers of any age, against a dialog and deletions, keep evidence true, the last check monotone and edits intact? | one device, two hosts, two wake settings, two instants, two observers with two answers each, one dialog: two observers are needed for a late answer after a newer one, two settings to change the target and back |
| `repository_instances` | With two processes, are addresses unique, and does *Verified* stay tied to MAC and wake settings? | two devices, two stale dialogs, one observer; forms that collide by host name up to case and by MAC |
| `wake_device` | Does every schedule of a wake keep its contract, and how late may a packet leave after a cancellation? | two packets, two retries: a pause inside, between and after bursts |
| `activity_edits` | Is anything stale shown, is a card written by two operations, is *Verified* earned, is the drain complete? | one wakeable device moved between two hosts and deleted, a clock of two instants |
| `activity_reloads` | Do the cards end up as the store, with overlapping and failing reloads? | two devices, one found by a scan, two reloads in flight |
| `activity_liveness` | Does the shutdown finish, does Waking pass? | one device, one instant |
| `credential_save` | Is a save all or nothing under every failure, does every secret stay with its metadata, and do saves end? | one credential, two values, both kinds, two callers, one deletion, crashes |
| `ssh_trust` | Can two windows and a server that changes its key store two keys, use one never accepted, or change a session's key? | one server, two keys, two windows |
| `terminal_output` | Are bytes kept in order and complete, buffers bounded, blocked threads released? | seven bytes, reads of 3, items of 2, room for two items, one byte per read: every chunk boundary falls inside another |
| `terminal_window` | Do reconnects, disconnects, closings, pastes, resizes and failures look like one terminal, whose connections follow one another and end, with messages of the old connection in every queue of the page? | two connections, two waiting stops, one queued input, two sizes, one waiting message of user or layout: what a queue may hold of an old connection is there when the next begins |
| `discovery_scan` | Is evidence lost or shown for another scan, is a native slot lost, does every scan end? | a remote address and the own one, two at a time, two MACs, one native slot, three scans: a call of the first may hold the slot that the third needs |
| `terminal_close` (violation) | Does closing a terminal whose run has ended succeed? | one connection |

Properties are stated and commented at the end of each module. Every property
of a passing run has a mutant (a definition marked *faulty variant*, changed as
a plausible bug would change the code) that violates it. Every module
that is run has a type invariant; it is a theorem (section 4), so no run lists it.

`CHECK_DEADLOCK FALSE` is set where the modelled thing really stops: a GUID is
used once, so a repository may run out of devices; a wake ends; a drained
application stops; a disposed session and a closed window stop; no scan is
started after the last of the bound. `ssh_trust` and `credential_save` keep the
check.

### Fairness, and why the code justifies it

* `DeviceActivity`: the monitor loop, probes, wakes, reloads and the dispatcher
  go on; nothing is assumed of the user.
* `CredentialSave`: the stores answer (or throw); strong fairness on entering the
  gate, as `SemaphoreSlim` serves waiters in turn. That a waiting save is
  cancelled is not assumed.
* `TerminalOutput`: threads are scheduled, and for `Delivered` the terminal keeps
  reading. `Released` does not need the reader: a disposal ends with a reader
  that never reads again.
* `TerminalWindow`: the dispatcher runs what is ready, a *cancelled* await ends,
  the browser's initialization ends (its last wait has a timeout of 20 s).
  Nothing is assumed of server, acknowledgement watchdog or user.
* `TerminalBridge`: besides, WebView2 delivers its messages and the page handles
  and parses what it has until a process of the browser fails. `OutputProceeds`
  is therefore conditional: it asks nothing while a question keeps messages
  waiting, or once `requiresReopen` says that the browser failed. `StopsEnd` has
  no such condition.
* `DiscoveryScan`: awaits with a timeout return, pool and dispatcher go on, and
  `SemaphoreSlim` serves waiters in turn (strong fairness on taking a slot).
  Nothing is assumed of native ARP calls, which nothing can interrupt:
  `CancelledScansEnd` holds although none may ever return, `ScansEnd` is
  conditional on their returning.

## 4. What is proved

All proofs are checked by tlapm without assumptions other than the named
ASSUMEs on the constants, for every value of these. Each invariant was checked
by TLC on the small instances before it was proved.

`DeviceRepositoryProofs` (any numbers of devices, dialogs, observers, forms;
one process or several unless said):

* `TypeCorrect`: types, and every stored record passed validation.
* `AddressesUnique`: no two stored devices match. Inductive with the type
  invariant; the step follows from `StoreSteps` (every step that changes a
  record is a save, an observation, or a deletion) and from `Duplicate` being
  evaluated over the *merged* record in the same transaction.
* `LastCheckedNeverGoesBack`: an action property; the merge keeps the newer
  observation and `Accepts` refuses an older one.
* `VerifiedKeepsEvidence`: with several processes *Verified* is still evidence
  about MAC and wake settings. The stored state alone is not inductive, as a
  dialog or an observer may carry *Verified* or a wake in its copy:
  `MacEvidenceInv` adds that every copy in an editor and every qualified
  answer of an observer is backed by a witnessed wake.
* `EvidenceOfOwnTarget` and `StatusIsOfOwnTarget`: with a single process, states
  and *Verified* are evidence about exactly the stored target;
  `TargetEvidenceInv` adds that a dialog's copy differs from the row at most in
  what observations change, which the shell's busy flag gives.
* `ObservationsNeverEdit`: an action property, with no invariant but types.
* `RepositoryImplements`: the repository keeps `InventoryContract`. The table is
  the only variable of the contract, so no mapping is needed: the initial state
  is an initial state of the contract, and by `StoreSteps` a step on the table is
  `Add` or `Replace` (a save: the merge gives the record that `Replace` asks
  for, `MergedReplaces`), `Observe` or `Delete`.

`DeviceActivityProofs` (any number of devices, forms, batches and reloads):

* `TypeCorrect` (`Types`): types, validity of what is stored, and that no check
  outlives its sweep and no operation is left without its result in the queue.
* `ShownIsCurrent`: nothing stale is shown. `ShownInv` adds that an operation
  that is still *fresh* has the target of its card, so that what it may show is
  about the card.
* `StopLeavesNothing`: `DrainedIsQuiet`, inductive with the types and
  `ListedInv`: `StopAsync` looks at its list only, so every sweep and wake that
  runs must be on it.
* `OneWriter`: one operation at most may write to a card, and one that offers
  Wake has none. A card is replaced when a reload drops its device, so the
  proof has to know that it does not come back: `PresenceInv` says which
  devices the reloads on their way contain. Ids are never used again and the
  gate serves in order, so that what was dropped is gone for good, and
  `WriterInv` counts the operations per card. It assumes that no reload fails:
  a failed one leaves the card of a deleted device on screen (section 5).
* `VerifiedWasSeen`: *Verified* is stored only for what a wake was seen to do;
  `VerifiedInv`, on top of `PresenceInv` and under the same assumption, adds
  the copies of editors, which are of a stored record or of a new id.
* `CardsAgree`: once every reload was shown and the latest did not fail, cards
  and store have the same devices and the same configuration. No assumption
  on failing reloads. `FollowInv` says at which place in the queue the cards
  begin to agree: the last list in it, after which every answer on its way
  brings what its transaction stored.
* `ActivityImplements`: the store under the live inventory keeps the same
  contract, with its transactions split from the arrival of their results. What
  follows from a step of the contract alone (`ContractUnique`,
  `ContractAdvances`) then holds of the live inventory: no two stored devices
  name the same machine (`AddressesRemainUnique`), and the last check of an
  unchanged target never goes back, although the clock may be set back
  (`LastCheckNeverGoesBack`). `UniqueAssumption` says that the inventory at
  startup was stored by such a repository.
* `OutcomesAreAwaited`: each stored outcome on its way is taken, once, by the
  wake that awaits it, whatever fails.
* `WakingIsTransient`: *Waking* stays on a card only while its wake runs, or
  until the reload that is on its way. It has to be shown that the transaction
  never refuses an outcome as out of date and that the reload does come.
  `TimeInv`: nothing that is stored or being checked is younger than a wake that
  may still write. `TrackInv`: once the list of a command was read, all that
  comes after it is of stored targets, so that an editor opens only when no card
  shows a target that is stored no more. `WakingInv`, on top of these: a card
  that shows *Waking* without a wake has a target that the store has no more.
  Two assumptions, and both are needed: the clock goes forward (section 5; the
  inventory at startup is then not of the future, `PastAssumption`), and
  no reload fails (after a failed one an edit may bring the old target back, so
  that the refused wake is on the screen again as if it were about it).

`WakeDeviceProofs` (any number of packets and retries): `TypeCorrect`;
`CancelStopsPackets` (one packet at most leaves after a cancellation);
`WakeImplements` (every step of a wake is a step of `WakeContract` or
stutters), by `WakeInv`: how the packets sent relate to burst and phase, what
answers the outcome rests on, and when a late packet is still possible.

`CredentialSaveProofs` (any number of credentials, values and callers):
`TypeCorrect` and `AllOrNothing` by `StoresInv` (who is past the gate, what the
stores held when it entered, and what has been written since); `SecretsFit` by
`PairInv`, under the assumption that the list on screen follows the store
(`~RowsMayLag`; see section 5 for when it does not).

`SshTrustProofs` (any numbers of servers, keys and windows): `TypeCorrect`;
`FileHasOneKeyPerHost`; `KeysAreAccepted` by `AcceptedInv` (the records a
connection has read, the key it reviewed and the one it goes on with are all
accepted); `SessionsKeepTheirKey` by `SessionInv` (the key of a session is in the
snapshot it was evaluated against, or was reviewed).

`TerminalOutputProofs` (any sizes and any number of bytes): `TypeCorrect`;
`ReadsInOrder` by `OrderInv`, which says of each place a byte can be in (read,
left over, in the channel, with the thread inside the gate, in the ShellStream)
that it goes on where the one before it ends, the last two only until the
channel is completed, as an abandoned write loses bytes; `BuffersBounded` by
`WorkerInv` (the receive worker is in Drain or has left the buffer empty);
`EndIsComplete` by both and `EndInv`. `OutputImplements`: each step is one of
`OutputContract`, where what the server sent, what the reads returned, how the
reading ended and whether the session is disposed are all there is. It needs
the parts above and `SentInv` (nothing the terminal can still read was not
sent), as `OrderInv` says no more of what waits in the ShellStream and in Drain
once the channel is completed, while the server may go on sending.

`TerminalProofs` (any numbers of connections, stops, messages and sizes):

* `OneSessionHolds`, `StopsReachTheRun`, `OneChunkHolds`, `InputReachesOwnSession`,
  `DrainedStaysQuiet`, `TypeCorrect`: all by one invariant, `WindowInv`. Its
  parts need each other: that a stop finds its run (`StopReachesRun`) needs that
  one run at most is live (`RunsInv`), which needs that a reconnect waits for
  the right one (`StopInv`), and closing needs both (`CloseInv`).
* `WindowImplements`: each step is one of `TerminalContract`, where a connection
  is the last run, its stage is the await that run is at, it was told when its
  token is cancelled, and the terminal is shut when the window is drained. The
  write loops, the queues, the stops that wait and the fields that hold tokens
  are not there. Beyond `WindowInv` the mapping needs that runs are numbered in
  their order (`Numbered`: a run that starts is the *next* connection) and that
  the session of the field is open (`FieldIsOpen`: the finally block disposes
  what there is). That the token of one that leaves is cancelled by then, whether a stop
  did it or the finally block it enters, rests on `StopReachesRun`: the finally
  block cancels the token of the *field*, which is the run's own or was
  cancelled before (`FinishMaps`).
* `BridgeImplements`: every behaviour of window and page is one of
  `TerminalWindow`, and so of `TerminalContract`; what is proved of the window for
  an arbitrary renderer holds with the real page (`WindowHoldsWithPage`,
  `BridgeTypeCorrect`).
* `SizeArrives`: by `SizesInv`, which says where the page's size is while it is
  not yet the session's: in a message, in the field, or queued as input.
* `ChunksKept`: what the window takes for being rendered is what the queues
  hold, chunk by chunk. `ChunksAreKept` is inductive with the types and with
  the page loading into an empty queue. The two queues and the write buffer are
  one sequence (`Pipe`), in which other messages come and go between the chunks;
  a step of the page that moves a chunk from one to the next leaves it as it is.
  `AcknowledgementsMatch` follows: the acknowledgement that comes is of the chunk
  that `Acknowledge` removes.

`DiscoveryScanProofs` (any range, MACs and caps): `TypeCorrect`;
`CallsWithinCap` by `CallsInv` (slots and calls make up one budget);
`RowsComplete` by `RowsInv` (evidence that was seen is in the part of its
address, in the results, posted or shown, of this scan and of no other).

Only model-checked: all liveness (`WF_` and `SF_` formulas, leads-to), as ENABLED
and fairness are outside the prover's reach. Induction over data is too; where
a property counts or orders the members of a sequence, it is stated by the
places they are at, as `ChunksAreKept` is. Every safety property of a passing run
is a theorem. Conversely the two refinements of `InventoryContract` and what
follows from it for the live inventory are theorems that no run states: TLC
would try every device as the one that a step writes, and takes too long on the
instances of the runs. On smaller ones it agrees.

## 5. Where code and documentation disagree

Checked by a run:

* `terminal_close`: when nothing is left to wait for, `CloseCoreAsync` runs to its
  `Close()` inside the Closing event, where WPF throws. This is the case for
  every terminal whose session has ended before it is closed.

Stated in the modules and reproduced by changing one cfg:

* `WakingMeansInProgress` fails in `MCDeviceActivity_edits.cfg` with
  `ClockMayStep = TRUE`: times are wall-clock; when the clock is set back during
  a wake the outcome is older than the stored check, is dropped
  (`DeviceActivityViewModel.cs:117`), and the card keeps *Waking*.
* `VerifiedWasWitnessed` fails in `MCDeviceActivity_edits.cfg` with
  `ListMayFail = TRUE`: a device deleted while a failed reload leaves its card is
  saved again by the insert path of `SaveAsync`, as *Verified* for whatever host
  the dialog now has (ARCHITECTURE.md:33).
* `SecretsMatchMetadata` fails in `MCCredentialSave.cfg` with `RowsMayLag = TRUE`:
  a failed deletion puts back the row on screen, which may be older than the
  store (`ConnectionsViewModel.cs:113`, ARCHITECTURE.md:106).
* `RemovedStaysRemoved` of `SshTrust` fails in `MCSshTrust.cfg`: a record removed
  while a connection authenticates is written back without a new approval
  (`SshSessionService.cs:76`, SSH.md:22).
* `SeenAtOwnAddress` of `DeviceRepository` fails in `MCDeviceRepository_observe.cfg`
  with `Forms <- ScanForms` and `Ips = {ip1, ip2}`: a scanned device whose address
  the user changes before the first save keeps the state and last-seen time of
  the scanned address (`DiscoveryModels.cs:26-33`, ARCHITECTURE.md:37).
* `NoRunAfterFailure` of `TerminalWindow` fails as a PROPERTY of
  `MCTerminalBridge.cfg`: a reconnect that waits for the old run does not look at
  `requiresReopen` again (`TerminalWindow.cs:163`, ARCHITECTURE.md:114).

Seen while modelling, and left as the code has it:

* `xterm.reset()` clears the screen and not the write buffer, so chunks of an old
  session parsed after it are drawn on the screen of the new one, and the
  answers of the terminal to queries among them go to the new session. A paste
  question opened under the old session may be confirmed into the new one, and
  so may input that was on its way. `InputToOwnSession` is about the window's
  queue, which the reconnect does replace.
* A scan cancelled after the engine has finished but before the view resumes says
  "Scan complete" while rows that were posted are dropped. `RowsTellAll` leaves
  cancelled scans out.
* The metadata of a credential, captured before a trust review, is used with a
  secret read after it (`SshSessionService.cs:25-38`).

## 6. Assumptions and limits of the models

* Results of repository calls reach the UI thread in the order the gate served
  the calls. The code releases the gate just before the task completes; that
  window is not modelled.
* A SQLite statement or native credential call that fails in a deletion had no
  effect; in a save both cases are modelled.
* `BeginTransaction` takes the database's write lock (the comment at
  `SqliteDeviceRepository.cs:75` says so), so a transaction is one step. That a
  check belongs to the transaction of its write is therefore an assumption of
  the model, not a result.
* An await that is cancelled ends, a blocked write of the terminal included; the
  disposal of a session, on a thread of its own, ends. `ConnectAsync` waits for the user while a trust
  prompt is shown; the prompt is assumed to be dismissed.
* `Window.Close` inside the same window's Closing event throws (WPF); SSH.NET
  raises shell events on its receive worker and joins it on disposal.
* The `Loaded` event of a terminal comes before any input to its window.
* Sizes are numbers in the order they come, not columns and rows. A page that
  finishes loading after its initialization was given up is left out, as is the
  clipboard: copying, a clipboard sequence of the remote side, and a selection
  too long for one message change nothing that is modelled.
* Of the vendored scripts only what `terminal.js` drives is modelled: the write
  buffer with its callbacks, `reset` and the fitting to a new size.
* Discovery: unusable and foreign cache entries, vendor names, the times of
  evidence, progress counts and the *Managed* labels are left out. The own
  address and interface are constants.
* `PageMessages`, `MaxScans`, `MaxNow`, `MaxLists`, `MaxAnswers`, `MaxRuns`,
  `MaxStops` and `MaxBytes` bound what the environment does, each in a guard.

## 7. Not modelled, and the plan

Done, in this order: device rules and repository, wake, activity, credentials,
trust, terminal output and window; the page of the terminal and the refinement
of the window by it; discovery; proofs of the safety properties of all of them;
the abstract terminal and the proof that the window implements it.

What a further step would take, most important first:

1. `Shutdown`: composition of terminals, activity, scan and disposal, with
   the exceptions one part may throw at the next.
2. `ConnectionsView`: overlapping loads (which may double rows), and
   `CredentialSave` with `SshTrust` for the credential that changes during a
   review.
3. `ExternalLaunch`, `StatusBudget`, `PortableData`, `WakeRouting` (pure operators
   against reference definitions).

Not modelled, and why: *External connections* keep no state and wait for one
status answer; *Portable data and settings* are file copies at startup, before
anything runs concurrently; *Wake packets and routing* are pure functions over
addresses and bytes; *Dialogs and views* hand over forms, which enter the models
as user input; *Diagnostics* is logging. Partly modelled: of *Device rules* the
normalisation of text is abstracted; of the *Device repository* and
*Credential save* the schema migration and the profiles with their foreign keys
are left out; of *Device activity* the settings, the filter and the profile
cards; of *SSH trust* the authentication itself; of the *Connections view* only
deletion of credentials and removal of trusted hosts are there; of *Network
discovery* the choice of an interface and its range is left out; of the *Device
status check* the division of its budget; of *Shutdown* only the drain of device
activity is there.

Hazards that no property covers yet are listed with the reason in
`PROJECT.json`: a crash between the secret and its metadata
(`CredentialSaveService.cs:45`, for which the code keeps no journal), a trust
record removed under a connection (`SshSessionService.cs:76`, section 5), the
overlapping loads of the connections view (`ConnectionsViewModel.cs:47`), and the
result of a commit that overtakes another's on its way to the UI thread
(`DeviceActivityViewModel.cs:117`, section 6). Some hazards are covered in part,
and their notes say what is left: the reload after a discovery
(`ShellViewModel.cs:154`) may meet a repository that the shutdown has disposed.
