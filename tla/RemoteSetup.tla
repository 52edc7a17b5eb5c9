---------------------------- MODULE RemoteSetup ----------------------------
(***************************************************************************)
(* mobile::initialize (common/process/include/mobile_runtime.hpp): remote  *)
(* blocks of code and context in the suspended child, the threads started  *)
(* in it, the SR worker (sr_stubs.asm), the loader (load_library.asm) and  *)
(* the installation of the GI initialization hook.                         *)
(***************************************************************************)
EXTENDS OwnedChild

CONSTANT MaxPolls      \* 100 in install_sr
ASSUME MaxPollsAssumption == MaxPolls \in Nat

VARIABLES
  block,     \* the two RemoteBlocks a set-up may use
  remote,    \* the threads created in the child
  uiState,   \* SR's UI state word
  started,   \* SrContext::started
  polls,     \* rounds of install_sr's loop
  target     \* GI's initialization function: its bytes and its page

remoteVars == <<block, remote, uiState, started, polls, target>>

Blocks == {"loader", "ui"}
NoBlock == [mem |-> "none", code |-> FALSE, context |-> FALSE, retained |-> FALSE]

RemoteTypeOK ==
  /\ block \in [Blocks -> [mem : {"none", "RW", "RX", "freed"}, code : BOOLEAN,
                           context : BOOLEAN, retained : BOOLEAN]]
  /\ remote \in [init : {"none", "running", "ended"},
                 loader : {"none", "running", "ended"},
                 worker : {"none", "write", "mark", "sleep"}]
  /\ uiState \in {"mobile", "other"}
  /\ started \in BOOLEAN
  /\ polls \in 0 .. MaxPolls
  /\ target \in [bytes : {"original", "jump", "torn"}, prot : {"RX", "RWX"}]

RemoteInit ==
  /\ block = [b \in Blocks |-> NoBlock]
  /\ remote = [init |-> "none", loader |-> "none", worker |-> "none"]
  /\ uiState = "other"
  /\ started = FALSE
  /\ polls = 0
  /\ target = [bytes |-> "original", prot |-> "RX"]

\* A thread can run in the block: all that was meant to be there is there.
Fit(b) == block[b].mem = "RX" /\ block[b].code /\ block[b].context

-----------------------------------------------------------------------------
(* bootstrap and load_library.                                             *)

\* One call of RemoteBlock or write() on a block.
Prepare(b, from, to, field, value) ==
  /\ Proceed(from, to)
  /\ block' = [block EXCEPT ![b][field] = value]
  /\ UNCHANGED <<remote, uiState, started, polls, target>>

StartThread(thread, place) == remote' = [remote EXCEPT ![thread] = place]

Bootstrap ==
  /\ Proceed("bootstrap", "bootstrap_wait")
  /\ StartThread("init", "running")
  /\ UNCHANGED <<block, uiState, started, polls, target>>

\* A GI main image without a section of its own for il2cpp needs UserAssembly.
Bootstrapped ==
  /\ remote.init = "ended"
  /\ \/ Proceed("bootstrap_wait", "load")
     \/ kind = "legacy" /\ Proceed("bootstrap_wait", "resolve")
  /\ UNCHANGED remoteVars

PrepareLoader ==
  \/ Prepare("loader", "load", "load_code", "mem", "RW")
  \/ Prepare("loader", "load_code", "load_context", "code", TRUE)
  \/ Prepare("loader", "load_context", "load_protect", "context", TRUE)
  \/ Prepare("loader", "load_protect", "load_start", "mem", "RX")

\* Mutant: the block is retained only after the wait.
StartLoaderUnretained ==
  /\ Proceed("load_start", "load_wait")
  /\ StartThread("loader", "running")
  /\ UNCHANGED <<block, uiState, started, polls, target>>

\* From here on a time-out leaves the block to the thread.
StartLoader ==
  /\ Proceed("load_start", "load_wait")
  /\ StartThread("loader", "running")
  /\ block' = [block EXCEPT !.loader.retained = TRUE]
  /\ UNCHANGED <<uiState, started, polls, target>>

LoaderWaited ==
  /\ remote.loader = "ended"
  /\ Prepare("loader", "load_wait", "load_check", "retained", FALSE)

\* The module's address is read back, then the block's destructor runs.
LoaderChecked ==
  /\ Proceed("load_check", "resolve")
  /\ block' = [block EXCEPT !.loader.mem =
                 IF block.loader.retained THEN @ ELSE "freed"]
  /\ UNCHANGED <<remote, uiState, started, polls, target>>

\* capture() and the resolver, which only read.
Resolve == Proceed("resolve", "ui") /\ UNCHANGED remoteVars

-----------------------------------------------------------------------------
(* install_sr and install_gi.                                              *)

\* SR's context is complete before the code becomes executable, GI's is
\* written later, inside the try.
PrepareUi ==
  \/ Prepare("ui", "ui", "ui_code", "mem", "RW")
  \/ kind = "SR" /\ Prepare("ui", "ui_code", "ui_context", "code", TRUE)
  \/ kind = "SR" /\ Prepare("ui", "ui_context", "ui_protect", "context", TRUE)
  \/ kind = "SR" /\ Prepare("ui", "ui_protect", "worker_start", "mem", "RX")
  \/ kind = "legacy" /\ Prepare("ui", "ui_code", "ui_protect", "code", TRUE)
  \/ kind = "legacy" /\ Prepare("ui", "ui_protect", "target_open", "mem", "RX")

StartWorker ==
  /\ Proceed("worker_start", "worker_poll")
  /\ StartThread("worker", "write")
  /\ block' = [block EXCEPT !.ui.retained = TRUE]
  /\ UNCHANGED <<uiState, started, polls, target>>

\* Mutant: the thread's creation is taken for its start.
WorkerSeenUnread == Proceed("worker_poll", "resume") /\ UNCHANGED remoteVars

WorkerSeen ==
  /\ started
  /\ polls < MaxPolls
  /\ Proceed("worker_poll", "resume")
  /\ UNCHANGED remoteVars

\* Ten milliseconds later the context is read again.
WorkerPolled ==
  /\ ~started
  /\ polls < MaxPolls
  /\ Proceed("worker_poll", "worker_poll")
  /\ polls' = polls + 1
  /\ UNCHANGED <<block, remote, uiState, started, target>>

OpenTarget ==
  /\ Proceed("target_open", "gi_context")
  /\ target' = [target EXCEPT !.prot = "RWX"]
  /\ UNCHANGED <<block, remote, uiState, started, polls>>

WriteContext == Prepare("ui", "gi_context", "jump", "context", TRUE)

\* The block belongs to the child before the first byte of the jump does.
WriteJump ==
  /\ \/ Proceed("jump", "jump_flush") /\ target' = [target EXCEPT !.bytes = "jump"]
     \/ /\ Proceed("jump", "undo")
        /\ \E left \in {"original", "torn"} : target' = [target EXCEPT !.bytes = left]
  /\ block' = [block EXCEPT !.ui.retained = TRUE]
  /\ UNCHANGED <<remote, uiState, started, polls>>

FlushJump == Proceed("jump_flush", "resume") /\ UNCHANGED remoteVars

\* A failure inside the try goes to its handler.
CatchInstall ==
  /\ pc \in {"gi_context", "jump_flush"}
  /\ Proceed(pc, "undo")
  /\ UNCHANGED remoteVars

\* The handler writes the bytes and the protection back, then rethrows.  Both
\* calls may fail; nobody looks.
Undo(written, protected) ==
  /\ Proceed("undo", "unwind")
  /\ target' = [bytes |-> IF written THEN "original" ELSE target.bytes,
                prot |-> IF protected THEN "RX" ELSE target.prot]
  /\ UNCHANGED <<block, remote, uiState, started, polls>>

-----------------------------------------------------------------------------
(* The threads in the child, while it lives.                               *)

InitThreadEnds ==
  /\ remote.init = "running"
  /\ StartThread("init", "ended")
  /\ UNCHANGED <<owned, block, uiState, started, polls, target>>

\* LoadLibraryW has returned, its result is in the context.
LoaderEnds ==
  /\ remote.loader = "running"
  /\ StartThread("loader", "ended")
  /\ UNCHANGED <<owned, block, uiState, started, polls, target>>

WorkerWrites ==
  /\ remote.worker = "write"
  /\ uiState' = "mobile"
  /\ StartThread("worker", "mark")
  /\ UNCHANGED <<owned, block, started, polls, target>>

WorkerMarks ==
  /\ remote.worker = "mark"
  /\ started' = TRUE
  /\ StartThread("worker", "sleep")
  /\ UNCHANGED <<owned, block, uiState, polls, target>>

\* Mutant: the loop ends on `started` in place of `stop`.
WorkerWakesUnstarted ==
  /\ remote.worker = "sleep" /\ ~started
  /\ StartThread("worker", "write")
  /\ UNCHANGED <<owned, block, uiState, started, polls, target>>

\* Half a second is over; `stop` is never set.
WorkerWakes ==
  /\ remote.worker = "sleep"
  /\ StartThread("worker", "write")
  /\ UNCHANGED <<owned, block, uiState, started, polls, target>>

Worker == child # "dead" /\ (WorkerWrites \/ WorkerMarks \/ WorkerWakes)

RemoteThread == child # "dead" /\ (InitThreadEnds \/ LoaderEnds)

\* The game stores a layout of its own choice.
GameSetsUi ==
  /\ child = "running" /\ kind = "SR"
  /\ uiState' = "other"
  /\ UNCHANGED <<owned, block, remote, started, polls, target>>

-----------------------------------------------------------------------------
\* Mutant: INFINITE for the wait for the loader.
RemoteCallsWaitingForEver ==
  {"bootstrap", "bootstrap_wait", "load", "load_code", "load_context",
   "load_protect", "load_start", "load_check", "resolve", "ui", "ui_code",
   "ui_context", "ui_protect", "worker_start", "worker_poll", "target_open"}

\* Where a failing call, or a wait that is over, changes nothing and throws.
RemoteCalls ==
  {"bootstrap", "bootstrap_wait", "load", "load_code", "load_context",
   "load_protect", "load_start", "load_wait", "load_check", "resolve", "ui",
   "ui_code", "ui_context", "ui_protect", "worker_start", "worker_poll",
   "target_open"}

RemoteCallFails == pc \in RemoteCalls /\ Throw /\ UNCHANGED remoteVars

RemoteStep ==
  \/ Bootstrap \/ Bootstrapped
  \/ PrepareLoader \/ StartLoader \/ LoaderWaited \/ LoaderChecked
  \/ Resolve \/ PrepareUi
  \/ StartWorker \/ WorkerSeen \/ WorkerPolled
  \/ OpenTarget \/ WriteContext \/ WriteJump \/ FlushJump \/ CatchInstall
  \/ \E written, protected \in BOOLEAN : Undo(written, protected)
  \/ RemoteCallFails

\* What the destructors leave of the blocks.
FreedBlocks ==
  [b \in Blocks |-> IF block[b].mem \in {"RW", "RX"} /\ ~block[b].retained
                    THEN [block[b] EXCEPT !.mem = "freed"] ELSE block[b]]
=============================================================================
