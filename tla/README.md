# TouchUILaunch: specifications and proofs

TLA+ models of TouchUILaunch, TLC configurations that check them on small
instances, and TLAPS proofs for every value of the constants. Paths are
relative to the repository (`src/` in `PROJECT.json`). Short names used below:
`TS` = `games/zzz/include/touch_state.hpp`, `PL` = `games/zzz/src/payload.cpp`,
`BL` = `games/zzz/include/button_layout_patch.hpp`, `LA` =
`launcher/src/launcher.cpp`, `GH` = `launcher/include/game.hpp`, `EL` =
`common/windows/include/elevation.hpp`, `MR` =
`common/process/include/mobile_runtime.hpp`, `GT` / `GP` =
`games/gi/include/gi_touch.hpp` / `gi_touch_plan.hpp`, `PE` =
`common/binary/include/pe_image.hpp`.

1. [The system](#1-the-system)
2. [The modules](#2-the-modules)
3. [The runs](#3-the-runs)
4. [Fairness and deadlock](#4-fairness-and-deadlock)
5. [The proofs](#5-the-proofs)
6. [What the code does not keep](#6-what-the-code-does-not-keep)
7. [Limits of the models](#7-limits-of-the-models)
8. [Plan](#8-plan)

## 1. The system

TouchUILaunch is a Windows launcher (`TouchUILaunch.exe`) that starts a game
with its mobile user interface. For GI and SR it patches the suspended child;
WW gets command line arguments; ZZZ runs first and then gets a DLL
(`TouchUILaunch.dll`, the *payload*) that hooks the engine's input callbacks,
forces the game's UI layout and may patch two code gates.

| Component | State it keeps | Operations | Hard behaviour | Correct when | Status |
| --- | --- | --- | --- | --- | --- |
| Launcher (LA, GH, EL) | launch mutex, owned child, remote path, logging event, exit code | check, elevate, lock, recheck, create, set up or inject, release, terminate | several launchers, elevation, kills, timeouts, order of destructors | one launched game; the exit code tells its fate; nothing freed or closed too early | `Launcher` |
| `touch::State` (TS) | contacts, snapshot, finger counter, frame id | down, move, up, cancel_all, begin_frame, clear | any order of messages and frames; capacity | every finger begins, continues and ends once, in frames that do not change | `TouchState`, refining `TouchContract` |
| Payload bridge (PL 60-68, 158-252, 293-361) | contacts, active keys, event source, snapshot, `enabled`, `ui_fault`, `game_window`, slots | window procedure, three hooks, worker loop | three threads, flags read outside the input lock | streams never mix; one answer per frame from the hooks; a conflict or fault disables for good | `TouchBridge` |
| UI override (PL 111-157) | changed provider and its saved override, touch registration | maintain_ui | notifications inside a setter, faults, providers replaced by the game | Mobile while enabled; the game's value given back afterwards | `UiOverride` |
| `ButtonLayoutPatch` (BL, PL 318-357) | ownership, pending protection and pending flush of each site, conflict | install, restore, finish, intact | any system call fails, another writer at any moment, shared pages | what was changed is tracked until it is back; others' words are kept | `ButtonLayoutPatch` |
| Icall table hooks (PL 80-84, 276-292, 326-345) | saved originals, `hooks_ready`, `reported_conflict` | install_icalls, exchange_slot, release | the table has three slots exchanged one by one; rivals; retries | the calls reach Unity; a partial set is never announced | `IcallHooks` |
| Command line (LA 95-154, EL) | options read so far, the line for the elevated process | parse, validate, quote, relaunch | the line is split again by another program's runtime | the elevated process reads the same command | `CommandLine` |
| Process helpers (MR, `load_library.asm`) | remote blocks, contexts, threads started in the child | bootstrap, load_library, install_gi, install_sr, destructors | waits that time out while the thread runs on; failure after the first write | no block freed while a thread may use it; only a complete child is resumed | `OwnedChild`, `RemoteSetup`, `ChildSetup` (partly) |
| GI touch patch (GT, GP) | helper allocation, windows patched and opened | validate, prepare, apply, verify, release | failure between two windows; code changed meanwhile | patched completely or terminated; written only if all is as expected | `GiTouch`, `ChildSetup` (partly) |
| Retained GI stub (`gi_stubs.asm`) | `state`, `outcome`, the hooked function | entry, restore, publish, call, select | several threads entering before the bytes are back | the original once per call, the setters once at all, nobody waits for ever | `GiStub`, `ChildSetup` (partly) |
| SR adapter and worker (`sr_mobile.hpp`, `sr_stubs.asm`) | the UI word, `started` | a store every 500 ms | the game's own stores; start observed by polling | the word is mobile in the end, and before the child runs | `RemoteSetup` |
| Binary helpers (PE, readers, patterns) | sections and bytes of an image | construct, view, find | 32-bit table entries from outside, matches at edges | views lie in the bytes there are; every match is found | `PeImage` (partly) |
| Resolvers and ZZZ discovery | none | combining searches, decoding instructions | none: sequential functions of a binary's bytes | the right address or none | not modelled |
| Launcher diagnostics, WW arguments, tests and tools, hde64 | none other parts read | output, one constant, development code, vendored code | none | | not modelled |

How they interact: the launcher creates the game process, and for ZZZ loads the
payload with a remote thread; two named events connect them (one asks for a log,
the other tells that the payload has started). In the game the payload's worker
thread installs the hooks, the window procedure and the layout patch, then polls
every 200 ms. Its window procedure turns WM_TOUCH and WM_POINTER into calls of
`touch::State` and calls maintain_ui from a timer; the engine's thread calls the
hooks, which take a snapshot once per frame. These three threads share the
contacts under the input lock and a few atomics without it.

## 2. The modules

Every definition that stands for code is listed with its lines under `map` in
`PROJECT.json`. A definition named after a mutant comment ("Mutant: ...") is a
plausible bug of the code, used to show that a property would notice it; no
specification uses one.

**ContactOps** holds the data of `touch::State` and what each member function
does to a collection of contacts. The vector is a function from finger numbers
to contacts: fingers are appended in increasing order and erased stably, so the
vector's order is the order of the numbers. A position is a model value, since
a phase only asks whether it changed; the arithmetic on coordinates is left out.

**TouchState** has one action per member function. A call is one step because
every caller holds the input lock. **TouchContract** says what the game may rely
on, without contacts, keys or flags: only the touches of the current frame, the
fingers that can no longer begin, and the frame id; `Advance` is what a new frame
does to the first two. TouchState maps to it with `view <- snapshot` and
`used <- UsedFingers`, and so does TouchBridge, which has no frame ids.

**TouchBridge** composes the contacts with the three threads. A critical section
is one step; every read or write of a flag outside the lock is a step of its
own, so that `record_input` is split between its test of `enabled` and the lock,
and the worker between reading `ui_fault`, reading `game_window` and storing
`enabled` (PL 323). `win`, `worker` and `game` say where the threads are. The game
calls through a slot: `CallTouches` finds in it our hook, Unity's function or a
competing writer's, which may chain to our hook. `HookCall` is the critical
section of hooked_count and hooked_touch, which do the same up to the part of the
snapshot they return; the slot may be given back between the call and the
section, and between two calls of a frame. hooked_supported reads `enabled`, then
the contacts, then asks Unity, in steps of their own. Giving a slot back may fail
(`Unwritable`). Time is the Boolean `quiet` (250 ms without input) and a frame is
a Boolean "the snapshot belongs to this frame". `answer`, `mixed` (Unity was asked
after the bridge had answered in this frame) and `idleFrames` are history
variables for the properties.

**UiOverride** models maintain_ui call by call on the window thread, with the
game's own changes between its calls and inside the setter's notifications, and
the worker beside it: it reads the health of the bridge, stores `enabled` later
(PL 323; `found` is what it read) and disables when its loop notices a fault, a
window that is gone, or a conflict. `gameValue` and `owner` are history
variables: the value the game last chose for a provider, and whose value it has.

**ButtonLayoutPatch** takes one step per system call: read word, read region,
open, exchange, flush, query, reprotect. Each may fail, and another writer may
act between any two. `pc` says where install, restore and the worker's loop are.

**IcallHooks** takes one step per read, exchange and undo of one slot. A
function is "unresolved", "unity", "hook" or "rival"; whom the bridge's and the
rival's functions call is `original` and `rivalSaved`. `Validate` may refuse a try
although the three originals are there, for the three other pointers it checks.

**Payload** runs IcallHooks, then UiOverride, in the order of worker(): a behaviour
follows the table all the way, or up to an installation nobody disturbed and from
there the override. They share only `enabled`; following both at once would
multiply their states and add no interaction.

**Launcher** gives each command an original and an elevated process. A place
(`pc`) is a step of `wmain`, `relaunch` or a destructor; the destructors run
in reverse order of construction, which is why a failing launcher goes through
"terminate" and "wait_exit" before "unlock_failed". The payload's side of the
startup protocol (opening the log event, publishing the started event) is
`PayloadOpensLog` and `PayloadPublishes`. Every exception of `wmain` ends in the
one code "failed" (2 in the code, LA 224): that of a process that has lost sight
of its elevated child too. `Terminate` may be refused by Windows, which the code
does not notice (`refused`). All commands are for one game.

**OwnedChild** is the suspended child and the launcher's place (`pc`, named for
its next call). A `require` that fails goes to "unwind", where the destructors of
the set-up run, then to "terminate", where `~Child` does. **RemoteSetup** is
`mobile::initialize` over it, one step per system call on a remote block or
thread: the loader's block and the block of the game's code, the three threads
the launcher starts, the SR worker, and `install_gi` with its handler, which may
fail too. A wait returns because its thread ended or throws because the time is
over, whatever the thread does afterwards. **GiStub** extends it with the game's
threads in the hook that `install_gi` wrote; a step is one instruction or call
that other threads can see. **GiTouch** is `gi::initialize`: the plan found in
the file, found again in the child, validated twice and written window by window
(`write_code` call by call), while another process may change windows until the
last look. **ChildSetup** composes the four, with the destructors in `Unwind`.

**CommandLine** reads the two argument loops of `wmain` word by word, validates,
and encodes the arguments for an elevated copy; `SplitLine` is the C runtime's
rule for splitting a line (external). Only the extra text of `--args` is made of
characters (backslash, quote, blank, letter), because the quoting depends on
them; all other words are whole. The loops over characters, arguments and words
are recursive functions of their round (`Quoting`, `Lines`, `Splitting`,
`Scanning`). **PeImage** has the acceptance of a section table, `view` and
`find`; its fields are numbers below `Word` (2^32 in the code), their sums are
wider, as in the code. `Search` is the loop of `find` over one section, a
recursive function of the place where it goes on, and `Searches` the loop over
sections. **Preflight** is the order in which `wmain` uses both: the command,
then its image.

**MC...** modules only define values for constants and symmetry sets. IcallHooks,
Payload and ChildSetup need neither and are run directly. **...Proofs** modules hold
theorems; GiTouch, GiStub, RemoteSetup and OwnedChild are proved about in
ChildSetupProofs, CommandLine and PeImage in PreflightProofs.

## 3. The runs

| Run (cfg) | What it explores | Bounds | Distinct states |
| --- | --- | --- | --- |
| `touch_state` (MCTouchState) | every order of the member functions; the refinement of TouchContract | 3 keys, 2 positions, capacity 2, 4 downs, 2 frame ids | 28,022 |
| `bridge` (MCBridge) | safety of the three threads | one Windows id through both sources, capacity 2, 2 downs, calls through two slots, a writer on the count slot, which may refuse to be given back | 4,550,872 |
| `bridge_live` (MCBridgeLive) | taps begin, disabling is final, ended contacts drain, touch stays supported | one id of one source, capacity 1, 1 down, calls through the count and the supported slot, a writer on the touch slot | 199,428 |
| `bridge_late_contact` (MCBridgeLateContact) | violation, see section 6 | both sources, capacity 1, 1 down | |
| `bridge_mixed_frame` (MCBridgeMixedFrame) | violation, see section 6 | the same; calls through the count and the touch slot, a writer on the supported slot | |
| `layout` (MCLayout) | patching and restoring with faults and another writer | 2 sites on a page each, 3 attempts, 2 faults, 2 foreign changes | 300,662 |
| `layout_stranded` (MCLayoutStranded) | violation, see section 6 | 2 sites on one page, 1 fault, nobody else | |
| `payload` (MCPayload) | the icall table: install, undo, retry, conflict, release; then the layout override: forcing and giving back | 3 slots, 3 attempts, 3 disturbances; 2 providers, 3 values, 2 faults, 3 game steps | 629,601 |
| `hooks_self_call` (MCHooksSelfCall) | violation, see section 6 | 2 attempts, 2 disturbances | |
| `launcher` (MCLauncher) | two commands at once | 2 commands with their relaunches, 1 kill, GI, WW and ZZZ | 972,670 |
| `child_setup` (MCChildSetup) | a child set up in each of the three ways, then let go or terminated | 3 windows, 2 threads with 2 calls each, 2 polls | 16,203 |
| `preflight` (MCPreflight) | commands and their relaunch; images viewed and searched | commands of 4 words, texts of 4 characters, tables of 2 sections, images of 6 bytes | 180,468 |

What they show, and why the bounds reach the interesting cases:

* `touch_state`: three keys compete for two places, so a down is dropped at
  capacity while another ends; two positions tell Moved from Stationary; four
  downs reuse both a key and a place; two ids distinguish "same frame" from
  "another one". `SnapshotFits` (the array of `begin_frame` has no check of its
  own), `OneLiveContactPerKey`, `TerminalIsFinal` and `ImplementsContract` hold.
* `bridge`: one finger sent as both WM_TOUCH and WM_POINTER is the case for
  which `event_source` exists. Faults, destruction, focus loss, lost releases,
  a frame of zero size and a competing writer all occur.
  `OneAnswerPerFrame`: the calls of a frame that reach a hook are given one
  answer, whatever the other threads do between them and through whichever slots
  they come; of calls that pass the hooks it says nothing (section 6).
  `EchoWindow`: after the last touch the bridge answers exactly two more frames.
  `OneEventStream` and `LiveKeysAreActive` relate contacts, keys and sources.
  `AtMostOneLateContact` is what remains true of the conflict path. One contested
  slot suffices: the three releases are alike, and the loop looks at all three.
* `bridge_live`: `DisabledForGood` covers the worker's first store of `enabled`
  (PL 323), computed from flags read earlier: a fault in between is undone by
  it, and only the loop's own check makes disabling final. `TapBegins`: a finger
  that was accepted is shown to the game as begun, however short the tap.
  `ShownTouchesAreSupported`: hooked_supported leaves the answer to Unity only
  when no touch is shown, although it reads `enabled` and the contacts one after
  the other; a call made after its slot was given back asks Unity at once, touches
  shown or not. One source is enough: what tells the two apart is in `bridge`.
  The count slot may refuse to be given back, so contacts drain after a conflict.
* `layout`: two faults hit two different calls of one restoration and one retry
  remains; two foreign changes let a rival set and reset. `ForeignWordsKept`,
  `ReplacedWordsAreTracked`, `OpenPagesAreTracked`, `CleanWhenDone`,
  `AbandonedOnlyToOthers`, `OriginalCodeReturns`.
* `payload`: `OneDisturbanceIsHarmless` is the strongest bound that holds (two
  disturbances can close a circle of calls, section 6). The code tries 600
  times; three tries include a first, a repeated and a last one. Two providers are
  needed for "the game replaced the one we changed", three values for "none",
  Mobile and another.
* `launcher`: two commands are what the mutex and the second running check are
  for; each may become two processes. SR takes GI's path and is left out of the
  instance, not of the model. The one kill may hit at any place, holding the
  mutex included. `OneLaunchedGame`. `ExitCodeIsTheGamesFate`: a process that fails
  leaves no game of its own behind, unless Windows refused to end it; a command
  that ends with 0 has let a complete game go, and a canceled one has created none.
  Of a command's elevated process "failed" says nothing: the command may have lost
  sight of it (EL 61-67) while its game runs. `LoaderPathStays` (the path outlives a
  timed out LoadLibrary thread) and `LoggingAsAsked` (the log event outlives the payload's opening it).
* `child_setup`: every call may fail and every wait may end early, so no fault
  bound is needed. Two polls let the worker start before, between and after
  them; three windows give a first, a middle and a last one; two threads may
  meet at every instruction of the stub, and each calls again when the hook is
  gone. `ThreadsKeepTheirMemory`, `ResumedChildIsComplete`,
  `WrittenOnlyAsAWhole`, `HookIsOneShot`. `NobodyWaitsForEver`: the set-up ends
  with a resumed child or one Windows was asked to terminate, even if the loader thread
  hangs, and every call of the hooked function returns, also after a failed flush or protection call. `UiStateComesBack`: the
  SR word is mobile again after each store of the game.
* `preflight`: four characters hold two backslashes before a quote and before
  the end, which is where quoting goes wrong; `RelaunchKeepsTheCommand` compares
  what both processes read. Two sections touch, overlap, are empty or end at the
  largest number (`ViewsAreBacked`: what `view` returns lies in the file, and in
  one section that contains the address). Patterns with their longest fixed run
  at either end, and overlapping matches, are searched in every image of six
  bytes (`FindIsExact`, against the definition of a match).

Type invariants, `SnapshotMatchesContacts` and `PendingAreNewest` are not among
the properties of the runs: they are parts of the inductive invariants of section
5. Each property of each passing run has a mutant in `PROJECT.json` that breaks it.

## 4. Fairness and deadlock

* `TouchBridge!Fairness`: WF of the worker (a loop with Sleep), of a window
  procedure that has begun a message and of a hook that was called (they return),
  SF of a frame with a visible size, and SF of a call, through a slot that is ours,
  that makes the snapshot current. The last two are strong because a call under way
  interrupts them and a frame disables the call: Unity polls touches every frame.
  Nothing is assumed of the user's messages, faults, destruction or the rival.
* `ButtonLayoutPatch!LiveSpec`: WF of the worker and SF of the retry. The code
  retries only when a second has passed (PL 347), which `SkipRestore` leaves
  open each time; the loop comes round every 200 ms, so a second does pass.
* `Payload!LiveSpec`: once the override is followed, WF of maintain_ui, a 250 ms
  timer, while the window lives, and WF of the worker's loop noticing a fault or a
  window that is gone, which it polls for every 200 ms. Of the table only safety is
  claimed.
* `ChildSetup!LiveSpec`: WF of the launcher (its calls return or time out), WF of
  each thread inside the hook, the original function's return included, and WF
  of the SR worker. Nothing is assumed of the loader thread, of the
  initialization thread, or of the game calling the function or storing its
  layout.
* `Launcher` and `Preflight` have no fairness: only safety is claimed.
* `CHECK_DEADLOCK FALSE` in `MCPayload` and `MCHooksSelfCall`: the worker may give
  up after its attempts and the process has nothing more to do; or the window may
  be gone and the bounds used up. In `MCChildSetup`: a terminated child
  has no more steps. In `MCPreflight`: a command has been read, or an image
  searched, and that is all. Everywhere else deadlock is checked.

## 5. The proofs

All theorems hold for every value of the constants that satisfies the named
assumptions (`CapacityAssumption`, `KeysAssumption`, ...), which TLC evaluates.

* **TouchStateProofs.** `IInv` = TypeOK, SnapshotFits, OneLiveContactPerKey,
  SnapshotMatchesContacts, PendingAreNewest; `Invariance` shows it inductive.
  SnapshotFits needs the capacity test of `down`, and PendingAreNewest and
  SnapshotMatchesContacts are what the refinement needs: a finger appearing in
  a new frame must be newer than all used ones. From it: `TypeCorrect`,
  `SnapshotInBounds`, `KeysAreUnambiguous`, `EndsAsItFirstEnded`
  (TerminalIsFinal) and `Implementation` (ImplementsContract: Init and each
  action maps to the contract's Init, NewFrame, Reset or a stutter). The lemmas
  on the operators of ContactOps come first (what each one ends, erases or
  marks).
* **TouchBridgeProofs.** `IInv` = Typed, LiveKeysAreActive, OneSource,
  ConflictIsFinal, LateIsAlone. OneSource says that all active keys belong to
  `event_source`, which with LiveKeysAreActive gives OneEventStream.
  ConflictIsFinal says that after `conflict_disable` nothing enables the bridge
  again (the initial store is behind the worker), and LateIsAlone that the one
  contact that slipped through excludes a message in flight. Theorems
  `LiveTouchesAreKnown`, `StreamsNeverMix`, `LateContactBound`, and with the
  remaining variables `BridgeTypes` (TypeOK).

  `FrameInv` = EchoBook, AnswerBook, ShownHeld, AskedUnheld is about what the game
  is shown.
  EchoBook ties the countdown of echoed frames to the number of frames without
  touches; ShownHeld says that a shown touch still has its contact, so that the
  next frame finds either touches or contacts to end; AnswerBook says that what
  a hook answered in this frame is what it would answer again; AskedUnheld that
  hooked_supported asks Unity only when nothing is shown, which follows from
  ShownHeld when it finds no contact and stays true until it returns. Only the game's
  own thread changes what is shown (`FramesAreTheGames`). Theorems
  `FrameInvariance`, `EchoLastsTwoFrames` (EchoWindow), `ShownIsSupported`
  (ShownTouchesAreSupported) and `AnswersRepeat` (OneAnswerPerFrame).

  `BridgeKeepsContract` says that the bridge keeps the promise of `touch::State`
  through all three threads: no step changes the shown touches or the used
  fingers but the preparation of a new frame, and that is `TouchContract!Advance`
  on them. The bridge has no frame ids, so `snapshotCurrent` takes their
  place: it turns true in such a step. It rests on `FeedInv`: Agree (the snapshot
  shows exactly the contacts that have begun, where they were last seen, and a
  contact is marked when its end is being shown), Newest (fingers not yet shown
  are newer than all shown ones) and the capacity. Cancellations by the worker
  and messages in between keep it because they end or add contacts, and touch
  neither marks nor shown positions (`InputSteps`). It is a theorem only, and not
  a property of a run.
* **ButtonLayoutPatchProofs.** `IInv` adds to TypeOK: SiteInHand (what is known
  of a site in the middle of a call), InstallingInOrder, SavedIsOriginal,
  AbandonedInConflict, ReplacedWordsAreTracked, OpenPagesAreTracked. Theorems
  `WordsTracked`, `PagesTracked`, `CleanRestoration` for any number of sites and
  any placement on pages; `NothingStranded` (AbandonedOnlyToOthers) for an
  injective `PageOf` only, which is needed: section 6. `OthersWordsStay`
  (ForeignWordsKept) is an action property: the only writes are the two
  exchanges, and each of them expects a word of the patch's own.
* **IcallHooksProofs.** None of the four safety properties is inductive. `Held`
  is the set of slots that the worker, by its place, has exchanged and not given
  back; `IInv` = TypeOK, Phases (place, attempts and announcements), RivalsKnown
  (each rival is one disturbance), HeldPassBridge (a held slot has the bridge in
  front or a rival that calls it), HooksAreHeld, RivalsAreCalled, OneAtMost.
  HooksAreHeld is the heart: if Windows refused nothing, or at most one thing
  went wrong at all, the bridge's function is in held slots only and is never
  read as an original. A try that begins then finds none of its own hooks, so no
  chain of calls can come back to it; with two disturbances it can (section 6).
  OneAtMost follows a single disturbance through reading, exchanging, undoing
  and releasing. Theorems `HooksInvariance`, `HooksTyped`,
  `RivalsStayCalledHolds`, `ReadyMeansAllHookedHolds`, `ConflictReleasesAllHolds`,
  `OneDisturbanceIsHarmlessHolds`, for any number of tries and disturbances.
* **UiOverrideProofs.** `IInv` = TypeOK, CallsStopAtFault, NothingBeforeStore,
  UnforcedIsTheGames (what is not Mobile is the game's own value while the
  bridge may still claim a provider), SavedIsTheGames (the remembered provider
  was changed by the bridge and the saved value is the one the game gave it).
  Theorems `OverrideInvariance`, `GamesValueReturns` (RestoresTheGamesValue).
* **LauncherProofs.** `Guarded` = TypeOK (with "the mutex is owned exactly by
  the process between taking it and unwinding"), ChildrenWait (an elevated
  process does not exist before its original asks, so asking never disturbs a
  mutex owner), NoGameYet (a process has no game before it creates one, and
  when it is about to, no launched game is alive), OneLaunchedGame. TypeOK is
  not inductive without ChildrenWait, OneLaunchedGame not without NoGameYet:
  the check under the mutex stays true until Create, because only the mutex
  owner creates and all other steps only end games. Theorems
  `LauncherInvariance`, `LauncherTypes`, `NeverTwoGames`.

  `Books` says of every process what its place means, in four parts that are
  inductive together with `Guarded`. LoaderBook: no loader before it is started,
  and a written path while it runs. LogBook: the logging event is held from its
  creation to the end of the wait, so a payload that opened its log meanwhile
  did as the command asked. GameBook: the state of the game by the place of its
  launcher (suspended or gone until resumed, ended or refused to end before a
  failure is reported, complete before it is released). FateBook: an exit code
  tells the state of the process's own game, or is the "ok" of the elevated
  process, and only the original has a child. Theorems `BooksInvariance`,
  `PathOutlivesLoader` (LoaderPathStays), `LogsAsAsked` (LoggingAsAsked) and
  `ExitCodesTell` (ExitCodeIsTheGamesFate), for any number of commands.
* **ChildSetupProofs.** `IInv` = Windows, Apart, Hook; `SetupInvariance` shows it
  inductive. Windows says that before the last look nothing is written and from
  then on nothing differs. Apart says that nobody runs in a suspended child and
  that the launcher does nothing to one that is not. Hook ties each thread to its
  place: whoever restores has won the exchange alone, nobody is past the wait
  while the bytes are not back, a thread behind the original has run it as often
  as it was called. `Ready` says what each place of the set-up relies on (which
  block is mapped, written and retained, whether the worker has started, which
  windows are patched); `SetupReady` shows it inductive with `IInv`. Theorems
  `PlanIsWrittenAsAWhole`, `HookRunsOnce`, `MemoryOutlivesThreads`,
  `ResumedComplete`, for any number of windows, threads, calls and polls.
* **PreflightProofs**, the image. `IInv` = an image that was not refused is one
  of `Images`, an open one was accepted, ViewsAreBacked and FindIsExact. The
  argument is `OneHolder`: as the constructor adds 32-bit fields without wrapping,
  an address lies in at most one accepted section; what `view` takes from the
  first section that covers a place (`SectionCovers`) is therefore what the table
  puts there, and lies in the file or the module (`ViewBacked`).

  For `find`: the longest run of fixed bytes lies in the rule (`AnchorFacts`), so
  every match has its first byte and all of it where the loop looks
  (`MatchHasAnchor`); from each place on the loop lists the matches that are
  left, each once (`LoopStep`, `SearchLists`, backwards from the end of the
  section); no address is found in two sections (`FoundOnce`, by OneHolder); and
  within a section `matches` compares the bytes a loader puts at each address
  (`MatchStands`). Theorems `ImageInvariance`, `ViewsStayInside` (ViewsAreBacked)
  and `SearchIsExact` (FindIsExact), for every table, width of the fields, image,
  file, content and rule.

  Assumed are `SizesAssumption`; `ImagesAssumption`: what the C++ types and
  `Section` give, numbers below `Word` and a size that is at least the raw size;
  and `RulesAssumption`: a mask as long as the bytes (`find` requires it) and zeros
  where no byte is fixed, which the generator of the patterns writes
  (`docs/DEVELOPMENT.md`) and without which `matches` could never hold.
* **PreflightProofs**, the command line. `LineSplitsBack`: what `parameters`
  writes is split into the arguments it was written for, for any number of
  arguments of any characters. Its heart is `NextRoundIsRead`: after each round
  of the quoting, the splitter that has read the text so far has the characters
  so far, but for the backslashes the quoting still holds back.

  `CommandInv` = Understands, ReadsAgain. RelaunchKeepsTheCommand speaks of the
  end only; to get there one must know, of the launcher the user started, that
  the words it has forwarded are a command which says what its options hold
  (each option once, each value behind its option, a path already canonical:
  `Says`), and that both loops agree on which words are values; and of the
  elevated one, that its words are those and the marker, and that it has
  understood them as far as it has read (`Told`), so that nothing can be refused
  half way. Theorems `CommandInvariance` and `CommandSurvivesRelaunch`
  (RelaunchKeepsTheCommand). Of the commands it assumes that words are sequences
  of strings (`CommandsAssumption`).

  Both need induction over data. The library's induction theorems take an
  operator as a parameter, which the provers cannot instantiate; `SetInduction` is
  induction for a set of numbers, proved from the pigeonhole principle for finite
  sets, and `Recursion` shows from it that a function with given steps exists,
  which is what the CHOOSE behind a recursive definition needs.

With these, every safety invariant and action property that a run checks is a
theorem. Only model-checked is liveness, which is out of the prover's reach:
TapBegins, DisabledForGood, EndedContactsDrain, OriginalCodeReturns,
ChangedProvidersAreGivenBack, MobileWhileEnabled, RegistrationIsTakenBack,
NobodyWaitsForEver and UiStateComesBack.

## 6. What the code does not keep

Four statements of the repository's docs, comments or tests fail in a run; each
is a `findings` entry with the quoted line.

1. `bridge_late_contact`: record_input tests `enabled` before it takes the input
   lock (PL 206-207). The worker may disable and cancel in between; the input
   then adds a live contact whose release is ignored. `docs/ZZZ_INTERNALS.md`
   says a conflict cancels contacts. At most one contact slips through (proved).
2. `bridge_mixed_frame`: after a conflict the worker gives the slots back one by one
   (PL 336-338), without the input lock, maybe while touches are shown. A frame
   whose count the bridge has answered then asks Unity for the touches. PL 179 and
   `docs/ZZZ_INTERNALS.md` say that the two sources are never mixed. What holds is
   OneAnswerPerFrame, for the calls that reach a hook (proved). In the same way a
   restored "supported" slot lets Unity say "no" while touches are shown.
3. `layout_stranded`: with both sites on one page, one failed VirtualProtect
   while closing the page after the later site makes restore take the still
   open page for another owner's, at the earlier site, and give that site up
   although its word is still the replacement.
4. `hooks_self_call`: undoing a partial installation is not checked (PL 286-290);
   if it fails too, the next try takes the bridge's own hook for the original.

## 7. Limits of the models

* Data: positions are only compared, words are "expected", "replacement" or
  "other", and code bytes, names, log texts and coordinates are left out.
* TouchBridge has no UI calls (UiOverride has them); a UI fault is an event. One
  thread of the game calls the hooks, one call at a time, and the size of the
  screen changes between frames only.
* UiOverride: when the game writes its own Mobile over the bridge's Mobile, no
  code could tell them apart, and RestoresTheGamesValue excepts this case. A
  provider replaced and later reinstated by the game is forgotten by the code,
  and modelled so ("forgotten"). The game taking back its own touch registration
  is not modelled.
* ButtonLayoutPatch: finish() queries and protects in two calls (BL 76, 80); a
  protection another writer sets in between is overwritten. No code can close
  that gap, so it is listed as a hazard without a property. The plan is taken as
  valid; the restore() of a worker that
  dies of an exception is left out; the other writer never writes the patch's
  own replacement word.
* Launcher: one session of Windows and one game (the mutex is a Local one, the
  process list is not, so two sessions are not excluded from each other; listed
  as a hazard without a property). A process being terminated is listed until it
  is gone. GI's and SR's set-up is one step that may fail
  there, and ChildSetup is its detail. Terminate closes the
  event handle in the same step. That locals are destroyed in reverse order is
  followed, but no property depends on it: a game is listed until it is gone, so
  the next launcher would find it without the mutex too. The command is given
  there; how it is read and passed on is CommandLine's.

* ChildSetup: the "legacy" way is the retained GI adapter, which the launcher does
  not offer any more and which `common/process/mobile_tests.cpp` runs; that its
  child is resumed when the adapter returns is what the test does. The sixteen
  bytes of the hooked function are fetched as one (listed as a hazard). Another
  process changes windows only until the last look: between that and the write
  of a window no code could notice it. `capture`, `mapped_module`, `remote_api`
  and `range` are calls that succeed or fail, and a resolver's answer is the
  plan or an exception. `validate_plan` reads all windows in one step. The launcher's
  last act is to ask for the child's termination; what Windows answers is not
  looked at.
* CommandLine: paths and names are whole words, a canonical path is marked as
  such, and the user grants the elevation or refuses it.
* PeImage: the DOS and NT headers are taken as valid; slot(), relative() and
  the instruction predicates are left out.
* Not modelled: the legacy GI/SR resolver and ZZZ discovery (sequential
  decisions over instruction bytes, for which the only reference definition is
  the code itself), logging, the tests and tools, and the vendored decoder.

## 8. Plan

Done, in this order: TouchState with TouchContract, TouchBridge,
ButtonLayoutPatch, IcallHooks, UiOverride, Launcher, and their proofs;
ChildSetup (with RemoteSetup, GiStub, GiTouch) and its proofs; Preflight (with
CommandLine, PeImage).

Proofs done after the models: safety of IcallHooks, the Books of Launcher,
ForeignWordsKept, EchoWindow and its companions, ViewsAreBacked, TouchBridge
as an implementation of TouchContract's frames, RelaunchKeepsTheCommand and
FindIsExact.

Next, in order of what is at stake:

1. Launcher's set-up step refined by ChildSetup: "let go complete, or terminated"
   is what Launcher assumes of it and ChildSetup proves.
2. Launcher: every command ends (liveness of the waits), two sessions.
3. `replacement_word` and the validity of the layout plan, relative displacements
   and the encoding of the calls into the joystick helper.
4. IcallHooks with rivals that hook more than once; how long frames can stay mixed
   after a conflict.
