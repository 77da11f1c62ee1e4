# TLA+ models of golc

golc is a lighting controller: a show (fixtures, scenes, chases, tempo) kept in
one `.golc` SQLite file, a playback engine that turns the active scene into
frames, an Art-Net daemon that sends the frames to fixtures and takes manual
overrides, an HTTP API with an event stream, a desktop app that supervises the
daemon, scripts run in Deno, MIDI control, and the tooling of its own
development. This directory models the parts whose correctness depends on order:
of goroutines, of processes sharing the file, of messages, of crashes, of
commands.

## Inventory

| Component | State it keeps | Operations | What is hard | Correct when |
|---|---|---|---|---|
| Playback engine (`internal/playback`) | active plan, pending plan, last state, frame, position (atomic pointers); epoch and last bar | tick, StageEdit, SwitchScene, Start, Stop | ticks against staging goroutines without a lock; late ticks; loops of different length | only valid plans play; a staged plan is taken at a bar; nothing is blanked |
| Show store (`internal/show` store, recovery) | `show_meta`, `show_state`, `recovery_points` | Load, Save, Detect/Accept/Discard recovery points | crash between the two transactions of Save; several processes | the file loads; committed edits survive; interrupted work, and only that, is offered |
| Migration (`show/migrate.go`, `backup.go`) | the file, its backups, a temporary copy | migrate, back up | crash around the rename; another process on the file | a loadable file at every point, with the show in it |
| Show contents (`command`, `programming`, `scene`, `pool`, `deployment`, `substitution`, `operatorsurface`, `deskmidi`) | objects of a dozen kinds and the references among them; impact plans | more than fifty authoring commands | deletes that cascade; plans applied later than reviewed | the active scene compiles; no delete is refused; references resolve |
| Mutation pipeline (`internal/api`) | idempotency entries, keys, audit log, the mutation mutex | mutate, dry run, batch, mint and revoke | checks apart from the save; retries; another process | no lost update within the daemon; one effect per key; a true audit log |
| Event stream (`api/events.go`) | sequence, ring buffer, subscriber channels | publish, subscribe, the SSE loop | fan-out outside the lock; full channels; reconnects; restarts | no client has a gap it is not told of |
| Output safety (`artnet` safety, desk; `wails` safety, hotkey) | blackout, stop-all, revoke, masters, desk overrides; the status shown | safety, master and desk requests; the tick's transform; hotkeys; the poll | atomics read one by one while handlers change them | blackout wins and takes effect; masters stand as set |
| Worker and daemon (`artnet` worker, daemon, health) | targets, the worker, its senders, send goroutines, health | configure, enable, disable, tick, send, shut down | a worker is replaced while its sends are in flight | one live send per target; silence after a disable; no leak |
| Desktop process (`wails/app.go`, `interfacemgr.go`) | the supervised daemon, the chosen interface and show | start, switch show, switch interface, shut down | two switches, a closing window, a daemon that dies | one daemon, on the current choice; none left behind |
| Desktop feeds (`script/events.go`, `wails/events.go`, the log panel) | channels, staged events, the log and its backlog | publish, forward, flush, log, seed | overflow, late events, start and stop | events in order, gaps told, lines once |
| Script supervision (`internal/script`) | the registry of runs, deadlines, outcomes | run, debug, stop | stop, deadline, memory watch and the script's own end at once | one true outcome; a stopped script is quiet |
| MIDI (`internal/midi`, `svc_midi.go`) | takeover and learn state, copies of the mappings | dispatch, learn, remove, select | learn sessions of seconds; stale copies | one control per key; no jump before pick-up |
| Fixture library (`svc_fixturelibrary.go`) | the directory, staged previews, the catalogue | search, preview, commit, discard | overlapping calls; files that change | what is committed was shown; the directory loads |
| Traceability (`internal/trace`, `command/linear.go`) | map, journals, plans; the remote objects | preview, apply, migrate | lost answers, hand edits, crash between writes | one remote object per entity of which no answer was lost |
| Project configuration (`internal/projectconfig`) | committed keys, references, layers | check, resolve, set | cycles, precedence, two writers | the top layer wins; the file stays readable |
| Bootstrap and build (`internal/bootstrap`) | installs, caches, manifests, lock files | bootstrap, tools update, build | death half-way, damaged caches | what is recorded is true |

How they meet: a command or an API mutation is Load, one edit, Save on the store;
each API mutation publishes an event; the daemon owns one engine and one worker,
and the worker reads the engine's published frame through an atomic pointer; IPC
requests reach the daemon on one goroutine per connection; the desktop starts and
replaces the daemon, and shows what the event feeds push; scripts and MIDI act
through the same commands.

## Modules

| Module | Models | Notes |
|---|---|---|
| `MusicalClock` | `clock.go`, `crossedBarBoundary` | operators; the epoch is kept as the musical distance from it ("phase") |
| `PlaybackEngine` | `engine.go`, with `compile.go`, `evaluate.go`, scene activation | one action per atomic load or store that can interleave |
| `LateTick` | the tick as a function, on two engines side by side | compares a late engine with an on-time one |
| `ShowStore` | `store.go`, `recovery.go` | one action per transaction or query; crash and failure actions |
| `ShowMigration` | `migrate.go`, `backup.go` | extends `ShowStore`: the other processes run between any two steps |
| `ShowRegister` | what the store promises its readers | abstract; `ShowMigration` implements it |
| `ShowState` | the contents of a show, Save's scrubbing and validation | extended by the two modules of commands |
| `PatchCommands`, `ProgrammingCommands` | the authoring commands | a command is one step; `ShowAuthoring` composes them |
| `MutationPipeline` | `internal/api` but the stream | one action per stretch between lock, file and answer |
| `EventStream` | `events.go` | the critical section of publish, and each offer after it, are steps |
| `DesktopFeeds` | the script bus, its forwarding, the pusher, the log panel | publisher, channel, stage and window are separate |
| `OutputSafety` | `safety.go`, `desk.go`, the transform in the tick, the daemon's handlers, the panel, hotkeys, status poll | every atomic load and store is a step |
| `OutputWorker` | `worker.go`, `daemon.go`, `health.go`, `ipc` Serve | worker generations, send goroutines, the mutex of the daemon |
| `FixtureLibrary` | the library service and the directory the daemon loads | each file operation is a step |
| `DesktopApp` | `app.go`, `interfacemgr.go`, the daemon's start and stop | two desktop processes, daemons, interfaces |
| `ScriptSession` | `session.go` and what acts on a run | host, child, watch, deadline, stop |
| `MidiControl` | `svc_midi.go`, `internal/midi` | dispatch goroutine and frontend calls |
| `LinearSync` | `internal/trace`, `command/linear.go` | the remote and the planning files change around it |
| `ProjectConfig` | `internal/projectconfig` | both resolvers and the writer |
| `Bootstrap` | `internal/bootstrap`, `build.go`, `tools.go` | a stage is one or two steps; death between any two |
| `ShowProofs` | - | theorems about the engine and late ticks, about the file, alone and with migrations, the refinement, and the authoring commands |
| `LinearSyncProofs` | - | theorems about the Linear commands |
| `ApiProofs` | - | theorems about `EventStream` and `MutationPipeline` |
| `OutputSafetyProofs`, `OutputWorkerProofs`, `ScriptSessionProofs` | - | theorems about the module of the name; `OutputWorkerProofs` also holds those about `FixtureLibrary`, as `MCOutputWorker` runs the two |
| `DesktopProofs` | - | theorems about `DesktopApp`, `MidiControl` and `DesktopFeeds` |
| `ToolingProofs` | - | theorems about `Bootstrap` and `ProjectConfig` |
| `MC...` | - | instances for TLC |

Four MC modules put more than one system in a run: `MCPlaybackEngine` (the engine;
late ticks), `MCEventStream` (the API's stream; script feed; log),
`MCOutputWorker` (worker; library searches; library imports) and `MCLinearSync`
(traceability; configuration layers; references among keys). These share no state
in the program, so their product would only multiply states: a variable `part`,
chosen at the start, says which of them a behaviour is of.

What the data became.

* A `show.State` in the engine is its active scene and the rest of its contents;
  contents may fail to compile. A plan is what it was compiled from, and a frame
  is its plan and position: `Evaluate` is a pure function of the two.
* Time is in steps of `1/Res` of a bar. The code's epoch arithmetic is on floats;
  the model's is exact, so rounding at a bar line is outside it. `Cycle` is a
  common multiple of the loops, after which phases repeat.
* In the store a State is its revision and the set of edits in it, so that lost
  updates can be seen. A checksum is the identity of its blob. A transaction that
  fails before anything is written is `Refuse`.
* In `ShowState` an object has an identity, a kind, a name and what it refers to;
  attribute values are one value, since no command looks at them beyond its own
  range check. A usage error, a missing name and a refused Save change nothing and
  are not steps. Ranges of addresses are real ranges, in small universes.
* The file of `MutationPipeline` is its revision and the names of its pools; "pool
  create" stands for every mutating route, which all pass through `mutate`.
* An event of the API is the run of the daemon that issued it, and its sequence
  number; what a client knows is history. An event of a script is its place among
  those the desktop's channel took.
* Levels of the output are 0 and 1 (lit or dark); a MIDI fader has three positions,
  the middle one the marker of a new fader.
* An archive is its hash, and content that is no archive's is `Altered`; sources and
  lock files are versions. A fixture file is its stable key and whether it decodes.
* A plan for Linear is equal to another exactly if its hash is. A configuration key
  is declared as a literal or as a reference.

## Runs

Deadlock is not checked in the runs whose calls are bounded: when the bound is used
up, the model stops though the program would not. The fairness and the liveness
properties below say what must not stop.

Where a system has several invariants of one idea they are checked as one, a
conjunction of named parts, each with its own comment in the module. The type
invariant of a module is the first part of such a conjunction.

| Run | Instance | Properties and their parts |
|---|---|---|
| `Playback` | one stager, three calls, two scenes with loops of two and three bars, two tempos, contents that do not compile; stalls up to a loop less a bar | `EngineInvariant` (`OnlyValidPlans`, `LastBarIsCurrent`, `PublishedTogether`, `LastStateIsLatest`); `NeverBlanked`; a staged plan is taken (`PendingDrains`); a late tick ends where on-time ones would (`LateEqualsOnTime`) |
| `Store` | two processes, three edits, two faults, a recovery, a migration, prune to three | the file always loads (`StoreInvariant`, with `FileLoads`); `CommittedEditsSurvive`; the interrupted work and nothing else is on offer (`RecoveryOffers`: `CleanCloseOffersNothing`, `OnlyInterruptedOffered`, `InterruptedStaysOffered`); `MigrationKeepsShow`; `IsARegister` |
| `Authoring` | shows with one object of every kind in use, two commands and a plan | `SavedShowIsWhole` (`ActiveSceneCompiles`, `InstancesHaveMembers`, `StartsDistinct`); `DeleteNeverRefused`; plans apply as reviewed and once (`AppliedAsReviewed`) |
| `Mutation` | two requests, two keys, another process, a crash | `AnswersAreTrue` (`AnsweredEditsSurvive`, `IfMatchHonoured`, `BatchAllOrNothing`, `RefusedLeaveNothing`, `AuditTellsTheTruth`); `RetriesReplay`; `EveryRequestIsAnswered` |
| `Events` | one publisher, one client, two drops, a restart, a buffer of two of four events; two script runs, a channel of two and a stage of one; two loggers, four lines, a backlog of two | `BufferIsLatest`; `DeliveredOnceInOrder` (`NoSilentGapIfKeepingUp`, `QueuedOnceInOrder`); `FeedsAreTruthful` (`TerminalIsLast`, `GapsAreTold`, `LinesOnce`, `NoLineLost`); `StreamsEnd` (`RevokedIsClosed`, `SilentOnceStopped`, `EndsReachTheWindow`) |
| `Safety` | a scene plays, two fixtures, one handler with two requests, a hotkey press | a flag held through a tick darkens its frame (`HeldFlagIsDark`); `RequestsStand` (`MastersAsSet`, `RevokeIsPrompt`); `ReachesTheOutput` (`BlackoutTakesEffect`, `DeskReleaseTakesEffect`, `StatusCatchesUp`, `HotkeyDarkens`) |
| `Worker` | two handlers, two replacements, one error (a dial, an encoding or a write), two frame changes; two library calls three times, one trouble | `ServedByOne` (`OneLiveSend`, `DisabledIsSilent`, `OneWorkerTicks`); a dark frame reaches connected targets (`DarkReachesTargets`); `LibraryIsSound` (`CommittedAsShown`, `LibraryLoads`, `ReplacesOnlyWhenAsked`, `NoStrays`, `FetchedOnce`); `WaitersAreServed` (`ShutdownDrains`, `CallsAnswered`) |
| `Script` | two runs of a script (one with a debugger), one stop | `OutcomesAreTrue` (`KilledIsTerminated`, `StopTellsTheOutcome`); `LiveRunIsFindable`; `RunsAndStopsEnd` (`RunsEnd`, `StopsReturn`, `StoppedIsQuiet`) |
| `Midi` | two callers, two requests, two messages, one edit elsewhere or one failing load of the driver's | `MappingsAgree` (`OneMappingPerKey`, `DispatchesOnSavedMappings`, `FeedbackIsLatest`); `LearnsAndTakesOver` (`LearnKeepsEdits`, `MessagesPlayAgain`, `NoJumpPastMarker`) |
| `Desktop` | two desktop processes, three daemons, two callers, one fault (a daemon or an interface fails, or a switch meets a startup, or a shutdown one of the two) | `DaemonsAreCurrent` (`SupervisedDaemonIsCurrent`, `ReplacementFindsNoPredecessor`, `NoOrphan`); `SwitchesSettle` (`FailedSwitchReverts`, `SwitchesEnd`, `LossIsNoticed`) |
| `Linear` | two entities, two plan files, five commands, a fault, a hand edit; three keys, two setters | `AppliesAreRight` (`OneObjectPerEntity`, `LinksAreOwn`, `JournalNeedsMap`, `CleanApplyCompletes`); `EndsKeepingHandEdits` (`HandEditsSurvive`, `CommandsEnd`); `ResolvesAsDeclared` (`RefsReachLiteral`, `TopLayerWins`, `ResolvesToAllowed`, `ExplainAgrees`); `SetsAreLocal` (`SetTouchesOneKey`, `SetLeavesReadable`) |
| `Tools` | two tools, two versions, one of them without its executable, three commands, one fault, one edit | `LeftInOrder` (`RunsOnPinnedTools`, `SignedCacheIsWarm`, `FreshIsBuilt`, `SuccessIsCurrent`); `FailuresAreUndone` (`LocksAsFound`, `OnlyDeathLitters`, `InstallsStay`); `BootstrapSettles` (`CleanBootstrapSucceeds`, `CommandsEnd`) |

Every property has a fault that breaks it: an operator `Fault...` beside the
definition it stands for, which is what a plausible slip in that code would be.

### Bounds

Every bound is a constant with `Max` in its name, a set, or `KeepPoints`,
`Capacity`, `Res`, `Cycle`, `Burst`, `Rate`, `Retries`, `...Limit`, `Buffer`. They are
small, and chosen so that the boundary is crossed: more events than the ring
buffer holds and a drop on each side of its edge; more interrupted Saves than the
prune keeps; loops of different length, so that a last bar can be out of the range
of the next plan; lags that skip a bar; a channel and a stage that overflow; more
log lines than the backlog retains; two of whatever races: processes on the file,
handlers at the daemon, callers of the frontend, setters of a key. `Authoring` starts
from shows with everything in use, because two commands from an empty show would
reach nothing worth deleting. `MaxLive` is 1 in `Script` since a second run of a name
replaces the first in the registry (see below). Where an instance has one stager or
one publisher, the safety properties that do not depend on the number are proved
for every number, and those that need a single one for every size of the rest (see Proofs).

### Fairness

* The engine: the ticker fires until the context is cancelled, and a tick or a
  staging call that began ends (`WF` on the tick, `WF` on each staging call).
  Nobody must call or stop.
* The event stream: publish and a connection's loop run on; Go's `select` chooses
  among ready cases at random, so the revocation ticker is not starved (`WF`). The
  desktop's forwarder and the pusher's ticker run on in the same way.
* The worker: tickers fire and goroutines end, a write by its deadline (`WF`).
  `sync.Mutex` hands itself to a waiter after a millisecond of starvation, so every
  step that needs it is strongly fair (`SF`); so is the mutation mutex of the API.
* Output safety: the tick, the status poll and a hotkey press under way are fair; nobody
  must press or send.
* Scripts: the host's goroutines, the memory watch's ticker and the stop run on, and
  the deadline fires (`WF`), but not on behalf of a script that already finished: a
  finished run has to end without it. The child itself need never do anything.
* Commands of the tooling, calls of the desktop and of the library: a call that
  began runs on (`WF`); faults, edits and people are never obliged to act.

### Refinement

`ShowRegister` says what a reader of a show file may rely on: it sees nothing or one
whole State, and a State comes to be seen only after it was drafted, one revision on
from a State seen or drafted, with at most one edit more. The mapping takes the row
of `show_state` for what is seen, and for the drafts the recovery points, the
backups, the temporary copy and what each process holds in memory. `IsARegister`
is checked by `Store` with all processes overlapping, crashing and recovering, and a
migration among them. Two migrations at once share one temporary file and can swap
in half a copy: the register allows that step only once they have crossed.

### Conditions the properties need

Several properties are stated under a condition, because without it the code does
not keep them. Each condition is a place to look at; where a comment of the code
says otherwise it is quoted.

* An edit that StageEdit stores between the tick's load of `pendingPlan` and its
  store of nil was accepted and is never played (engine.go:178, against 193: "stages
  the result as pendingPlan for adoption at the next bar-boundary crossing"). No
  property says that every accepted edit plays.
* `PendingDrains` is of engines that play and of loops of at least two bars. An
  engine built without an active scene never adopts a plan: tick returns before it
  looks at the pending one. In a loop of one bar, which scene.go:141 calls valid, the
  wrapped bar never changes, so the boundary is never seen.
* `LastStateIsLatest` is of a single stager. Two calls of StageEdit can interleave
  their two stores, and `lastState` is then not the state of the plan.
* `LateEqualsOnTime` is checked at one tempo and for stalls shorter than a loop.
  A tempo change takes effect at the tick that notices it, and a stall of a whole
  loop lands on the bar that `lastBar` holds.
* `CommittedEditsSurvive` and the parts of `RecoveryOffers` are of commands that do not
  overlap (`overlapped`). Save writes the revision after the one it loaded and
  compares nothing, so overlapping commands lose edits, can move the revision back,
  and leave points on offer that no interruption left. AcceptRecoveryPoint checks on
  one connection and saves on another, so it can overwrite what was saved in between
  (recovery.go:13: "MUST NOT ... silently overwrite"). A Save between the two queries
  of a Load reads as a checksum mismatch.
* `CleanCloseOffersNothing` and `CommittedEditsSurvive` exclude an accept that was
  itself interrupted (`acceptCut`): its point is two revisions ahead of the file.
* `NoSilentGapIfKeepingUp` and `QueuedOnceInOrder` exclude a client whose channel was
  full (the event it lost is behind its id) or that holds an id of an earlier run:
  once the new run reaches that number the id is taken for its own (events.go:264,
  against 460). They are checked with one publisher: two can deliver in the other
  order than they numbered, and a reconnect then skips the earlier event.
* `StartsDistinct` is of start addresses. Channels may overlap: an instance does not
  record its width, and `NextFreeAddress` takes those there to be as wide as the one it
  places, so a fixture of one channel fits inside one of two (impact.go:52: "REMAINING
  GAP ... two differently-sized fixtures can still be packed too closely together",
  against deployment/model.go:156: "rather than ever returning a colliding address").
* `DeleteNeverRefused` holds because every delete detaches the layers that refer to its
  object (programming.go:999 and 1534: it "never fails with
  GOLC_SCENE_LAYER_DANGLING_REFERENCE; it just detaches that scene's layer instead").
  Four comments of the desktop's service say the opposite of the same routes
  (svc_programming.go:205, 225, 266, 311: the object "currently referenced by an enabled
  scene layer's Ref is rejected by the route's own whole-State validation
  (GOLC_SCENE_LAYER_DANGLING_REFERENCE), leaving the show unchanged"); no delete is.
* `HeldFlagIsDark` asks for one flag throughout the tick: blackout and stop-all are
  loaded one after the other, and an exchange between the loads is seen as neither.
* `BlackoutTakesEffect` is checked while a scene plays. With an idle engine and the
  desk released, the tick returns before anything is encoded and what was lit stays
  lit (worker.go:349, against safety.go:101).
* While the engine is idle nothing is encoded, and a frame that does not encode is not
  sent, so neither is the blackout in it. `DarkReachesTargets` is about targets whose dial
  worked, and about the frames after encodings and writes stopped failing.
* `ShutdownDrains` does not say that `Run` awaits the requests in flight, for it does not:
  daemon.go:215 promises "a clean shutdown with no goroutine leak", but Serve and Run
  return (daemon.go:302-306) while a connection's goroutine may still wait for the
  mutex, and start a worker after the last one was stopped. Such goroutines end because
  their context is cancelled, later than Run.
* `MastersAsSet` excuses requests that overlap: the masters are loaded, copied and
  stored without a lock.
* The health of a target can be stale: a send of the replaced worker records its own
  copy of the target, Enabled included, after Configure refreshed it (health.go:217,
  against 154). No property rests on it.
* `AnsweredEditsSurvive` and `IfMatchHonoured` excuse saves of another process, which
  the mutation mutex does not know.
* "script run" saves the show it loaded before the run: whatever was saved meanwhile
  is undone (scriptrun.go:185, against scriptstop.go:48 "always idempotent"). The
  model does it; no property forbids it. A second run of a name makes the first
  unfindable, and a stop before `cancel` is set shortens nothing (session.go:787,
  against 754).
* `TerminalIsLast` excuses a run that returned without waiting for its stderr;
  `LinesOnce` a line that was logged and not yet pushed when the backlog was read,
  which is shown twice (AppLogStream.tsx:37 says the overlap is removed).
* `OneObjectPerEntity` excuses an entity (`lost`) whose create went unanswered, whose
  apply died before it wrote the map, or that was missing from the planning files when the
  map was written. Such an entity may get a second object at the next apply: the client
  cannot search (linear.go:860 always answers that nothing was found). Three comments promise
  otherwise: trace/apply/engine.go:5 ("a timeout after a create that actually succeeded
  remotely is detected instead of retried into a duplicate") and 129 ("found and treated
  as achieved instead of retried into a duplicate"), and apply/model.go:93 (what is pending
  "is always safe to retry ... from a fresh or resumed apply"). In each of these cases the
  journal has no word of the object that was made. `CleanApplyCompletes` excuses a
  plan with such an entity: added again, it is as an older plan has it, whose
  journal still says it was achieved, and the map has no link for what hangs on it.
* `HandEditsSurvive` excuses an edit that the preview saw, which the reviewed plan
  replaces, and one made after the apply's own last read of the object. Against the second
  apply/model.go:57 promises an update "guarded by expectedUpdatedAt"; the client takes that
  argument and drops it (command/linear.go:895-908), so an edit made between the read and
  the update is overwritten unseen.
* `ResolvesToAllowed` excuses references, which `golc check` follows and the running
  program does not; `ExplainAgrees` the user file and the environment, which "config
  explain" does not read. `SetTouchesOneKey` asks that the file is still the one that
  was read.
* `LocksAsFound` excuses `go.sum` when `go.mod` changed too: the restore of the first
  returns before the second. It and the others of `FailuresAreUndone` are of commands that do
  not fail in undoing (`UndoFails`): a lock file that cannot be put back stays changed
  (engine.go:848, 859 and 875, engine_frontend.go:86, engine_linear.go:72: "restoration
  failed"), and a failing move back of an install is ignored (archive.go:474), so that the tool is
  in the backup directory only. `InstallsStay` allows just that. `SignedCacheIsWarm`, `FreshIsBuilt` and
  `SuccessIsCurrent` excuse files edited while they are being read and built.
* `DispatchesOnSavedMappings` and `LearnKeepsEdits` excuse another save in the window
  between a call's own load, save and copy; there a removed mapping comes back.
* `NoOrphan`, `ReplacementFindsNoPredecessor` and `SupervisedDaemonIsCurrent` excuse a
  window closed during a switch or during the startup, and a switch made while the startup
  still looks for a daemon (`torn`): none of them waits for the other
  (app.go:275 and 570 look at neither), and the daemon launched there may stay.
* `FailedSwitchReverts` is of switches that fail. app.go:645 says that one to "an index that
  no longer resolves to a live NIC" is never reachable and is rolled back; but the daemon
  starts all the same (daemon.go:227: "a degraded health state (D-05), not a fatal daemon
  error") and answers, so such a switch is reported done and the app stays on the dead
  interface. The model does the same.
* `CommittedAsShown` and `LibraryLoads` excuse a picked file that changes between the
  two readings of its preview; `ReplacesOnlyWhenAsked` a definition that appears
  between the look and the rename.

* `CleanBootstrapSucceeds` allows the refusal of an archive without the executable its tool
  is run by (`Bare`), which comes after the install was swapped in (engine.go:629).
* `MigrationKeepsShow` takes what a dead process left in a `-wal` file to be in the show
  already: the model has no pages. The removal of the side files is a step after the
  rename, and a crash may come between.

## Proofs

Each theorem holds for every value of the constants under the modules' named
assumptions, which TLC evaluates in every run that extends the module. Besides
the types of the constants these ask for: two recovery points kept at least
(`KeepPoints`; the code keeps five), a schema version above zero, a file name that stands for
none (`NoFile`), finitely many handlers, targets and calls, and values for a free lock, for no
definition and for no name that are none of theirs (`None` is no surface, key or caller), finitely many
configuration keys, the empty text none of them (they are the concerns' declared names), at
least one show and one interface, finitely many runs of scripts, and of a bootstrap that each
stage is there once, the Go modules' and the frontend's among them (`bootstrapEngine.run`), no tool
has a stage's name, and an entity of the plan hangs on one of a kind further up (`parentKindRules`).
Three theorems have a hypothesis of their own, named in their statement; the instance
that TLC checks satisfies each of them.

* `ShowProofs`, of the engine: each part of `EngineInvariant`, and `NeverBlanked`, for any
  show, any loops and tempos and any number of stagers. The inductive invariant adds what is true in the middle of a
  tick or a call: the tick holds a plan while it adopts (`TickHasPlan`), a stager
  holds a state that compiles (`StagersHoldCompiled`), after the frame's store the
  frame belongs to the position about to be stored (`HalfPublished`), and there is a
  frame whenever there is a plan (`FrameWithPlan`). `LastStateIsLatest` has an invariant
  of its own (`StoresAgree`): between its two stores the only stager still holds the
  state of the staged plan.
  `LateCatchesUp` proves `LateEqualsOnTime` for any resolution, loops and plans, if
  stalls are short (`StallsAreShort`: one tempo, a stall of at most a loop less a bar).
  Its invariant `LateInv` says that the on-time engine is what the late one makes of the lag in
  one go. The arithmetic lemmas behind it (`WrapBar`, `BarsPassed`, `CrossesOnce`) say that a phase
  may be wrapped before or after it is advanced, and that within such a stall the bar index
  changes exactly if a bar line was passed.
* `ShowProofs`, of the show file: `StoreInvariant`, its types and `FileLoads`, for any number of processes and
  faults. The addition is `LoadsSaved`: a process that has read a checksum is
  working on a file that was saved.
  With migrations among the other calls the same is proved, where every copy a migration
  may still swap in has to load too (`CopiesLoad`); `IsARegister`, the refinement of `ShowRegister`, action by
  action, where what is drafted only grows except at a prune, a rename or a restart, and two migrations on one
  temporary file have crossed (`CrossInv`); `MigrationKeepsShow`, from what a
  migration without overlap finds in the temporary file at each of its steps (`SoloMigration`); and
  `CommittedEditsSurvive` and `RecoveryOffers`. For these two the invariant relates the file, the
  points and the one call under way: what that call read is what the file holds (`FreshReads`), a point ahead of
  the file was left by an interruption (`AheadIsInterrupted`), and prune never drops the last
  interrupted one (`LastIsKept`, which is where keeping two matters).
* `ShowProofs`, of what is in the file: `SavedShowIsWhole`, `DeleteNeverRefused` and
  `AppliedAsReviewed`, for any rig, names, additions and number of saves, if a session
  starts from shows that were saved (`ShowsAssumption`, which TLC evaluates for the
  shows of its run). The invariant has three parts.
  - The show is as Save writes it (`SavedShow`): it passed the tests, no selection
    dangles, and it is as commands leave it by themselves (`Tidy`: one object per id, the
    list of scenes names every scene, an instance has its deployment, pool and member, no
    start address twice). There is one lemma per kind of edit, each for a state with the
    fields that such an edit changes; `SaveWritesSaved` then says that scrubbing keeps what the edit kept.
    Each delete has a lemma (`PoolDeletePasses` and so on) that goes through the tests
    one by one. (The model keeps a scene apart from its place in the list, which in the
    code is one slice; that none lacks its place is part of `Tidy`.)
  - A plan file's digest is that of a plan for a request that could be made (`PlansSound`),
    however its text was edited.
  - The plans that were applied are on disk, each was made at the revision it was
    applied at, and no two were applied at one revision (`HistorySound`). A fresh plan has the current
    revision, and each save moves past it.
  The step that took most is "pool apply" (`ApplicationIsTidy`). That its new instances
  get addresses of their own is `ProposedAreFree`: each search sees the proposals before it. It is about a recursive
  function, so it is proved from a least counterexample (`LeastNumber`), as is that the search
  has a first address to choose (`FirstAddress`).
* `ApiProofs`: the two modules of `internal/api`.
  - `AnswersAreTrue`, for any number of requests and keys, with the other process,
    restarts and crashes. One handler is inside (`OneInside`), and what it loaded is all that
    any request wrote except what the other process overwrote (`FileIsWritten`, `StageOf`): so its save
    undoes nothing. `RetriesReplay` is proved when a key stands for one request
    (`OneRequestPerKey`: requests that carry a key are the same request), which is what a key means;
    without it a client that reuses a key for something else is answered with the entry it
    finds. Its invariant: entries are of applied requests, and what was applied with a key
    is remembered until something is forgotten (`EntriesAreApplied`, `AppliedAreKept`).
  - `BufferIsLatest`, for any capacity and any number of
    publishers and clients. The addition is the bound on the buffer's length; the
    lemma `NewestIsSuffix` says what the trim keeps. `DeliveredOnceInOrder` is proved with one publisher at
    a time (`OnePublisher`; with two it is false, see above), for any number of clients, drops and restarts:
    the client's channel and outbox are the run of events up to the last it was offered
    (`QueueRuns`), what is before that it knows unless it is about to be resynchronised
    (`KnowsBefore`), and its id says where it stands (`IdIsPlace`).
* `OutputSafetyProofs`: `RequestsStand` and `HeldFlagIsDark`. A handler between load and store
  of the masters holds a copy that is current unless requests overlapped (`OneSetsMasters`); the automations
  carried out since a revoke and those still admitted are together no more than the handlers
  (`RevokeCounts`); a tick that is past the loads has seen the flag that was held (`HeldIsSeen`).
* `OutputWorkerProofs`: `ServedByOne`, for any number of targets, connections and replacements. Only the
  latest worker has open senders, and none while it is replaced (`OldAreClosed`); a send under way is of a
  worker that had the target enabled (`SendsAreOwn`); with the lock free the worker runs what the map says
  (`ConfigIsCurrent`).
  And of the fixture library `LibraryIsSound`, for any number of calls, fixtures and files, searches
  and imports at once (`LibrarySpec`). The invariant says what a call knows at each place (`CallOf`: a
  preview has its file to itself until it is shown, a commit or discard is about one that was
  shown), and what stands under a token (`TokenOf`: what is staged is what was shown, and the
  registry names it, but for a call that is about to say so or to clear it away). That no two
  previews share a number rests on `PathsLeft`: every number taken is a call that was made.
* `ScriptSessionProofs`: `OutcomesAreTrue`, `LiveRunIsFindable` and `StoppedIsQuiet` (a part of
  `RunsAndStopsEnd`), for any number of runs, stops and names and any scripts. What carries them
  is who may kill: a child that was killed belongs to a run with a reason recorded or a context
  that is over, until the run is judged (`FitsOf`); a run whose name was not taken stays
  registered (`FoundOf`); and a stop that answered has seen its run over (`StopOf`).
* `DesktopProofs`: three modules around the window.
  - `DaemonsAreCurrent` and `FailedSwitchReverts` (the interface given back and, of a process that was not
    torn, its daemon on it), for any number of desktop processes, daemons,
    shows, interfaces and callers. The invariant says who holds a daemon: one goroutine of a
    process is at work unless a switch met the startup or a shutdown one of the two (`Exclusive`); every daemon
    that a process which was not so torn spawned is held by it or by that goroutine and is on the show and interface chosen
    (`Held`); a process that was replaced only ends and has no daemon (`Chain`).
  - `MappingsAgree`, `NoJumpPastMarker` and `LearnKeepsEdits`, for any surfaces, keys, callers and
    messages. A call between its load and its save differs from the show only by what it
    is about, unless somebody saved since (`UpToDate`); every copy of a mapping, in the show, in the
    service or in a call, has an identifier of one key (`Identified`), which is why an armed
    fader stays one fader; the mappings dispatched on are the show's, or a call is about to
    make them so (`CopySettles`).
  - `FeedsAreTruthful` and `SilentOnceStopped`, for any runs, loggers, lines and sizes of the channel,
    the stages and the backlog. The events the window was sent or told of, those staged and those in the
    channel are what the channel took, in that order (`InSequence`); the goroutines of a run
    take turns (`WritersInTurn`), so that its end comes last (`EndsInTurn`). Of the log, a line is staged once
    and shown once unless it was counted twice (`StagedOnce`, `ShownOnce`), and the lines
    nobody will see are no more than the panel was told (`LostAreTold`). How many events a pushed
    batch stands for is a recursive function (`Counted`); what is proved about it rests on a least counterexample.

* `ToolingProofs`: the project's own tooling.
  - `LeftInOrder`, `FailuresAreUndone` and `CleanBootstrapSucceeds` (a part of `BootstrapSettles`), for any
    tools, stages, archives, edits, failures, deaths and damage. `BootInv` says what a command has at hand at
    each place and what that makes of the disk: a signature was written after its modules were downloaded
    (`Warm`); a manifest is taken away before what it is of is touched and written after it was built
    (`Wiped`, `Recorded`), and is of no later sources than these (`ManifestIsPast`, by counting versions,
    `VersionsCounted`); an install that was there is there or moved aside for one step
    (`InstallsKept`); the lock files are as found, or the command holds what it found
    (`LocksKept`); each kind of litter belongs to a place (`LitterIsOwn`).
    A command whose undoing fails ends in an outcome of its own ("unrestored"), for which
    only `InstallsStay` promises anything.
  - `ResolvesAsDeclared` and `SetsAreLocal`, for any keys, texts, files, environment and setters. The
    first holds in every state with the declared types. For three of its parts the
    proofs compute the list of layers for each set of them that speaks (`AnswersOf`); for
    `RefsReachLiteral` they show that the search, which skips the keys it has followed, finds what the chains of all
    lengths find: two chains from a key to a literal are the same chain (`PathsAgree`), one that
    repeats a key never ends (`PathsAreSimple`), and the recursion follows the paths because each step leaves
    one key less (`FollowIsSearch`, a least counterexample). `SetsAreLocal` needs
    that the file a "config set" has read could be read and its value is allowed
    (`SetsChecked`). Proving `TopLayerWins` showed a locked key whose
    variable is set in the environment: the code refuses it (resolve.go:247), and so does the model.
* `LinearSyncProofs`: `AppliesAreRight` and `HandEditsSurvive` (a part of `EndsKeepingHandEdits`), for any
  entities and parents, plan files, commands, faults and edits. `LinearInv` relates four things. What a
  plan, a journal, the map or the command links an entity to was created for it (`Own`), and stays so
  because objects only grow (`Grows`). An object that was not lost is in the map or known to the
  apply that made it (`Recorded`). The map is as the command read it until the command
  writes it (`MapAsRead`), so that the guard on freshness says that a plan is about the map of
  the moment. And an apply nobody disturbed knows where its objects are and finds the ones
  it did not come to yet as the plan saw them (`CleanKnows`). That parents come first rests
  on the order of the operations (`OperationsSorted`): the place of an entity is how many sort before it.
  The attempt to prove `CleanApplyCompletes` without its second excuse is what showed that it needs it.

Only model-checked: all liveness, which needs fairness and `ENABLED`. Every invariant that a run checks
is a theorem; of the properties that mix safety and liveness the safety parts are, as named above.
Every module with a safety property that a run checks has a theorem about it.

## Plan

1. Done: engine, store, event stream, output safety, worker; first theorems.
2. Done: migration and the register it implements, the authoring commands, the
   mutation pipeline, scripts, MIDI, the desktop process and its feeds, the fixture
   library, traceability, configuration, bootstrap.
3. Done: the proofs above.
4. Done: configuration, bootstrap, traceability and the authoring commands proved.

## Not modelled

* Details of modelled code that its properties do not see, left out on the safe side (the
  model then does more than the code): the refusal of `build` when the pinned Go or Node is
  missing (build.go:252, 405), and the check of a configuration key's concern
  (local.go:291). The two cases of compile.go:133 in which a chase step has no selection
  cannot come of any command. A module that the Go graph lacks (engine.go:899) counts as a
  fault of the download. writeAtomicFile's second attempt, which removes the file it
  is to replace first (engine.go:1048), is not split.
* The encoding of Art-Net packets, the decoding of fixture documents, attribute
  values, blend curves, redaction, strict JSON: functions of their input, without
  order or failure that a state machine would show.
* The undo history (`programming/history.go`): no command or service constructs it.
* Parsing and dispatch of commands, the desktop bindings that forward to them, the
  frontend beyond the log panel, code and document generation, CI.
* Type checking and starting of Deno, Windows job objects: external. `ScriptSession`
  models that they may fail.
* Failures of the daemon's subsystems to start, and a failing Accept: the process
  ends, and its context is the caller's.
