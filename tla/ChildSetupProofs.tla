-------------------------- MODULE ChildSetupProofs --------------------------
(***************************************************************************)
(* Proofs about the set-up of a child, for any number of windows, threads, *)
(* calls and polls: what is written of the GI plan, and what the threads   *)
(* do that run through the one-shot hook.                                  *)
(***************************************************************************)
EXTENDS ChildSetup, TLAPS

\* Where initialize() may still find a window changed, and where it writes.
Early == {"snapshot", "validate", "helper", "helper_code", "helper_protect", "apply"}
Late == {"open", "write", "flush", "close", "close_failed", "verify", "release"}

Untouched == \A s \in Sites : site[s] \in {"expected", "foreign"}
NoForeign == \A s \in Sites : site[s] # "foreign"

\* No window is written before the last look, and from there on none differs.
Windows ==
  /\ site \in [Sites -> {"expected", "foreign", "torn", "patched"}]
  /\ pc \in Early => Untouched
  /\ pc \in Late => NoForeign
  /\ WrittenOnlyAsAWhole

Asleep ==
  /\ \A t \in Threads : at[t] = "idle" /\ ran[t] = calls[t]
  /\ first = {} /\ state = 0 /\ setters = 0

\* Nobody runs in a suspended child, and the launcher is through with a child
\* that is not suspended any more.
Apart ==
  /\ child = "suspended" => Asleep
  /\ child # "suspended" => pc \in {"released", "ended"}

Winning == {"restore", "flush", "protect", "publish"}
Choosing == {"objects", "set_ui", "set_input"}

\* What is known of a thread by the place where it is.
Placed(t) ==
  /\ at[t] \in Winning => t \in first /\ state = 1
  /\ at[t] \in Winning \ {"restore"} => target.bytes = "original"
  /\ at[t] = "call" => state = 2
  /\ at[t] \in Choosing => t \in first
  /\ t \in first => state # 0 /\ at[t] # "enter"

\* Once it has run the original, a thread has run it as often as it was called.
Counted(t) ==
  IF at[t] \in Choosing \cup {"idle"} THEN ran[t] = calls[t] ELSE ran[t] + 1 = calls[t]

\* Only the winner of the exchange calls setters, one after the other.
Chosen ==
  /\ state = 0 => setters = 0
  /\ \A t \in first :
       /\ at[t] \notin {"idle", "set_input"} => setters = 0
       /\ at[t] = "set_input" => setters = 1
  /\ setters <= 2

StubTyped ==
  /\ at \in [Threads -> Places]
  /\ calls \in [Threads -> Nat]
  /\ ran \in [Threads -> Nat]
  /\ first \subseteq Threads
  /\ state \in 0 .. 2
  /\ setters \in Nat
  /\ target \in [bytes : {"original", "jump", "torn"}, prot : {"RX", "RWX"}]

Hook ==
  /\ StubTyped
  /\ \A t \in Threads : Placed(t)
  /\ \A t \in Threads : Counted(t)
  /\ \A t, u \in first : t = u
  /\ state = 2 => target.bytes = "original"
  /\ Chosen

IInv == Windows /\ Apart /\ Hook

-----------------------------------------------------------------------------
\* A suspended child satisfies all that is said of the hook.
LEMMA AsleepIsHooked == ASSUME StubTyped, Asleep PROVE Hook
BY DEF StubTyped, Asleep, Hook, Placed, Counted, Chosen, Winning, Choosing

\* The invariant holds when the child has been created.
LEMMA InitHolds == Init => IInv
<1> SUFFICES ASSUME Init PROVE IInv
  OBVIOUS
<1>1. Windows
  BY DEF Init, OwnedInit, TouchInit, Windows, Early, Late, Untouched, NoForeign,
         WrittenOnlyAsAWhole
<1>2. Apart
  BY DEF Init, OwnedInit, StubInit, Apart, Asleep
<1>3. StubTyped
  BY DEF Init, StubInit, RemoteInit, StubTyped, Places
<1>4. Asleep
  BY DEF Init, StubInit, Asleep
<1> QED
  BY <1>1, <1>2, <1>3, <1>4, AsleepIsHooked DEF IInv

-----------------------------------------------------------------------------
(* The windows.                                                            *)

\* A step that leaves the windows alone and moves to none of their places.
LEMMA WindowsElsewhere ==
  ASSUME Windows, UNCHANGED site, pc' \notin Early \cup Late
  PROVE  Windows'
BY DEF Windows, Untouched, NoForeign, WrittenOnlyAsAWhole

\* A step of apply_plan that brings nothing foreign in.
LEMMA WindowsApplied ==
  ASSUME site' \in [Sites -> {"expected", "foreign", "torn", "patched"}],
         NoForeign', pc' \notin Early
  PROVE  Windows'
BY DEF Windows, NoForeign, WrittenOnlyAsAWhole

\* The calls of mobile::initialize are not about windows.
LEMMA RemoteElsewhere == RemoteStep => pc' \notin Early \cup Late
<1> SUFFICES ASSUME RemoteStep PROVE pc' \notin Early \cup Late
  OBVIOUS
<1>1. CASE Bootstrap \/ Bootstrapped \/ StartLoader \/ LoaderChecked \/ Resolve
  BY <1>1 DEF Bootstrap, Bootstrapped, StartLoader, LoaderChecked, Resolve, Proceed,
              Early, Late
<1>2. CASE PrepareLoader \/ LoaderWaited \/ PrepareUi \/ WriteContext
  BY <1>2 DEF PrepareLoader, LoaderWaited, PrepareUi, WriteContext, Prepare, Proceed,
              Early, Late
<1>3. CASE StartWorker \/ WorkerSeen \/ WorkerPolled \/ OpenTarget \/ WriteJump \/ FlushJump
  BY <1>3 DEF StartWorker, WorkerSeen, WorkerPolled, OpenTarget, WriteJump, FlushJump,
              Proceed, Early, Late
<1>4. CASE CatchInstall \/ (\E written, protected \in BOOLEAN : Undo(written, protected))
  BY <1>4 DEF CatchInstall, Undo, Proceed, Early, Late
<1>5. CASE RemoteCallFails
  BY <1>5 DEF RemoteCallFails, Throw, Early, Late
<1> QED
  BY <1>1, <1>2, <1>3, <1>4, <1>5 DEF RemoteStep

\* The calls of gi::initialize write only behind the last look.
LEMMA TouchKeepsWindows == ASSUME Windows, TouchStep PROVE Windows'
<1>1. CASE Snapshot \/ Validate \/ AllocateHelper \/ WriteHelper \/ ProtectHelper
  <2>1. UNCHANGED site /\ pc \in Early /\ pc' \in Early
    BY <1>1 DEF Snapshot, Validate, AllocateHelper, WriteHelper, ProtectHelper, Proceed,
                touchVars, Early
  <2>2. Untouched'
    BY <2>1 DEF Windows, Untouched
  <2> QED
    BY <2>1, <2>2 DEF Windows, Early, Late, Untouched, WrittenOnlyAsAWhole
<1>2. CASE Apply
  BY <1>2, WindowsApplied DEF Apply, AsExpected, Proceed, touchVars, Windows, NoForeign,
                              Early
<1>3. CASE OpenSite \/ FlushSite \/ VerifySite \/ ReleaseHelper
  <2>1. UNCHANGED site /\ pc \in Late /\ pc' \notin Early
    BY <1>3 DEF OpenSite, FlushSite, VerifySite, ReleaseHelper, Proceed, touchVars,
                Early, Late
  <2> QED
    BY <2>1, WindowsApplied DEF Windows, NoForeign
<1>4. CASE CloseSite
  <2>1. UNCHANGED site /\ pc \in Late /\ pc' \notin Early
    BY <1>4 DEF CloseSite, Proceed, Throw, Early, Late
  <2> QED
    BY <2>1, WindowsApplied DEF Windows, NoForeign
<1>5. CASE WriteSite
  <2>1. /\ pc \in Late /\ pc' \notin Early
        /\ \E left \in {"expected", "torn", "patched"} :
             site' = [site EXCEPT ![next] = left]
    BY <1>5 DEF WriteSite, Proceed, Early, Late
  <2>2. NoForeign
    BY <2>1 DEF Windows
  <2> QED
    BY <2>1, <2>2, WindowsApplied DEF Windows, NoForeign
<1>6. CASE TouchCallFails
  BY <1>6, WindowsElsewhere DEF TouchCallFails, Throw, touchVars, Early, Late
<1> QED
  BY <1>1, <1>2, <1>3, <1>4, <1>5, <1>6 DEF TouchStep

\* Another process changes windows only before the last look.
LEMMA ForeignKeepsWindows == ASSUME Windows, ForeignSite PROVE Windows'
<1>1. pc \in Early /\ pc' = pc
  BY DEF ForeignSite, TouchCalls, Early, owned
<1>2. PICK s \in Sites : site' = [site EXCEPT ![s] = "foreign"]
  BY DEF ForeignSite
<1>3. Untouched
  BY <1>1 DEF Windows
<1>4. Untouched'
  BY <1>2, <1>3 DEF Untouched, Windows
<1>5. site' \in [Sites -> {"expected", "foreign", "torn", "patched"}]
  BY <1>2 DEF Windows
<1> QED
  BY <1>1, <1>4, <1>5 DEF Windows, Early, Late, Untouched, WrittenOnlyAsAWhole

\* Every step keeps what is known of the windows.
LEMMA WindowsKept == ASSUME Windows, [Next]_vars PROVE Windows'
<1>1. CASE UNCHANGED <<owned, site>>
  BY <1>1 DEF owned, Windows, Untouched, NoForeign, WrittenOnlyAsAWhole
<1>2. CASE RemoteStep /\ UNCHANGED touchVars
  BY <1>2, RemoteElsewhere, WindowsElsewhere DEF touchVars
<1>3. CASE TouchStep
  BY <1>3, TouchKeepsWindows
<1>4. CASE Unwind \/ OwnedStep
  BY <1>4, WindowsElsewhere DEF Unwind, Unwound, OwnedStep, Resume, ResumeFails, Terminate,
     Proceed, Throw, touchVars, Early, Late
<1>5. CASE ChildThreads
  <2>1. UNCHANGED <<owned, site>>
    BY <1>5 DEF ChildThreads, RemoteThread, InitThreadEnds, LoaderEnds, Worker,
       WorkerWrites, WorkerMarks, WorkerWakes, GameThread, Runs, Same, GameSetsUi,
       owned, touchVars
  <2> QED
    BY <1>1, <2>1
<1>6. CASE ForeignSite
  BY <1>6, ForeignKeepsWindows
<1>7. CASE UNCHANGED vars
  BY <1>1, <1>7 DEF vars, owned, touchVars
<1> QED
  BY <1>2, <1>3, <1>4, <1>5, <1>6, <1>7 DEF Next, Launcher

-----------------------------------------------------------------------------
(* The launcher's steps, for the hook.                                     *)

\* The calls of mobile::initialize are made by a launcher not yet through.
LEMMA RemoteQuiet ==
  ASSUME StubTyped, RemoteStep
  PROVE  /\ pc \notin {"released", "ended"} /\ child' = child
         /\ target' \in [bytes : {"original", "jump", "torn"}, prot : {"RX", "RWX"}]
<1>1. CASE Bootstrap \/ Bootstrapped \/ StartLoader \/ LoaderChecked \/ Resolve
  BY <1>1 DEF Bootstrap, Bootstrapped, StartLoader, LoaderChecked, Resolve, Proceed,
              remoteVars, StubTyped
<1>2. CASE PrepareLoader \/ LoaderWaited \/ PrepareUi \/ WriteContext
  BY <1>2 DEF PrepareLoader, LoaderWaited, PrepareUi, WriteContext, Prepare, Proceed,
              StubTyped
<1>3. CASE StartWorker \/ WorkerSeen \/ WorkerPolled \/ FlushJump
  BY <1>3 DEF StartWorker, WorkerSeen, WorkerPolled, FlushJump, Proceed, remoteVars,
              StubTyped
<1>4. CASE OpenTarget
  BY <1>4 DEF OpenTarget, Proceed, StubTyped
<1>5. CASE WriteJump
  BY <1>5 DEF WriteJump, Proceed, StubTyped
<1>6. CASE CatchInstall
  BY <1>6 DEF CatchInstall, Proceed, remoteVars, StubTyped
<1>7. CASE \E written, protected \in BOOLEAN : Undo(written, protected)
  BY <1>7 DEF Undo, Proceed, StubTyped
<1>8. CASE RemoteCallFails
  BY <1>8 DEF RemoteCallFails, RemoteCalls, Throw, remoteVars, StubTyped
<1> QED
  BY <1>1, <1>2, <1>3, <1>4, <1>5, <1>6, <1>7, <1>8 DEF RemoteStep

\* The same of gi::initialize.
LEMMA TouchQuiet ==
  ASSUME TouchStep
  PROVE  pc \notin {"released", "ended"} /\ child' = child
<1>1. CASE Snapshot \/ Validate \/ AllocateHelper \/ WriteHelper \/ ProtectHelper \/ Apply
  BY <1>1 DEF Snapshot, Validate, AllocateHelper, WriteHelper, ProtectHelper, Apply, Proceed
<1>2. CASE OpenSite \/ WriteSite \/ FlushSite \/ CloseSite \/ VerifySite \/ ReleaseHelper
  BY <1>2 DEF OpenSite, WriteSite, FlushSite, CloseSite, VerifySite, ReleaseHelper, Proceed,
              Throw
<1>3. CASE TouchCallFails
  BY <1>3 DEF TouchCallFails, TouchCalls, Throw
<1> QED
  BY <1>1, <1>2, <1>3 DEF TouchStep

\* While the launcher acts the child is suspended and its threads rest.
LEMMA LauncherKeepsHook ==
  ASSUME Apart, Hook, Launcher
  PROVE  Apart' /\ Hook'
<1>1. /\ pc \notin {"released", "ended"}
      /\ child' = child \/ pc' \in {"released", "ended"}
      /\ target' \in [bytes : {"original", "jump", "torn"}, prot : {"RX", "RWX"}]
      /\ UNCHANGED stubVars
  <2>1. CASE RemoteStep /\ UNCHANGED <<stubVars, touchVars>>
    BY <2>1, RemoteQuiet DEF Hook
  <2>2. CASE TouchStep /\ UNCHANGED <<remoteVars, stubVars>>
    BY <2>2, TouchQuiet DEF remoteVars, Hook, StubTyped
  <2>3. CASE Unwind
    BY <2>3 DEF Unwind, Unwound, Proceed, Hook, StubTyped
  <2>4. CASE OwnedStep
    BY <2>4 DEF OwnedStep, Resume, ResumeFails, Throw, Terminate, remoteVars, Hook,
       StubTyped
  <2> QED
    BY <2>1, <2>2, <2>3, <2>4 DEF Launcher
<1>2. child = "suspended" /\ Asleep
  BY <1>1 DEF Apart
<1>3. StubTyped' /\ Asleep'
  BY <1>1, <1>2 DEF Hook, StubTyped, Asleep, stubVars
<1>4. Hook'
  BY <1>3, AsleepIsHooked, PTL
<1>5. Apart'
  BY <1>1, <1>2, <1>3 DEF Apart
<1> QED
  BY <1>4, <1>5

-----------------------------------------------------------------------------
(* The steps of a thread in the hook.                                      *)

\* Every step of a thread keeps what is known of the hook.
LEMMA ThreadKeepsHook ==
  ASSUME Hook, NEW t \in Threads, CallsFunction(t) \/ Runs(t)
  PROVE  Hook'
<1>1. CASE CallsFunction(t)
  <2>1. StubTyped'
    BY <1>1 DEF CallsFunction, Hook, StubTyped, Places, Go
  <2>2. \A u \in Threads : Placed(u)'
    BY <1>1 DEF CallsFunction, Hook, StubTyped, Placed, Winning, Choosing, Go
  <2>3. \A u \in Threads : Counted(u)'
    BY <1>1 DEF CallsFunction, Hook, StubTyped, Counted, Choosing, Placed, Go
  <2>4. /\ \A u, w \in first' : u = w
        /\ state' = 2 => target'.bytes = "original"
    BY <1>1 DEF CallsFunction, Hook, StubTyped, Placed, Winning, Go
  <2>5. Chosen'
    BY <1>1 DEF CallsFunction, Hook, StubTyped, Placed, Chosen, Winning, Choosing, Go
  <2> QED
    BY <2>1, <2>2, <2>3, <2>4, <2>5 DEF Hook
<1>2. CASE Enters(t)
  <2>1. StubTyped'
    BY <1>2 DEF Enters, Hook, StubTyped, Places, Go
  <2>2. \A u \in Threads : Placed(u)'
    BY <1>2 DEF Enters, Hook, StubTyped, Placed, Winning, Choosing, Go
  <2>3. \A u \in Threads : Counted(u)'
    BY <1>2 DEF Enters, Hook, StubTyped, Counted, Choosing, Placed, Go
  <2>4. /\ \A u, w \in first' : u = w
        /\ state' = 2 => target'.bytes = "original"
    BY <1>2 DEF Enters, Hook, StubTyped, Placed, Winning, Go
  <2>5. Chosen'
    BY <1>2 DEF Enters, Hook, StubTyped, Placed, Chosen, Winning, Choosing, Go
  <2> QED
    BY <2>1, <2>2, <2>3, <2>4, <2>5 DEF Hook
<1>3. CASE RestoresBytes(t)
  <2>1. StubTyped'
    BY <1>3 DEF RestoresBytes, Hook, StubTyped, Places, Go
  <2>2. \A u \in Threads : Placed(u)'
    BY <1>3 DEF RestoresBytes, Hook, StubTyped, Placed, Winning, Choosing, Go
  <2>3. \A u \in Threads : Counted(u)'
    BY <1>3 DEF RestoresBytes, Hook, StubTyped, Counted, Choosing, Placed, Go
  <2>4. /\ \A u, w \in first' : u = w
        /\ state' = 2 => target'.bytes = "original"
    BY <1>3 DEF RestoresBytes, Hook, StubTyped, Placed, Winning, Go
  <2>5. Chosen'
    BY <1>3 DEF RestoresBytes, Hook, StubTyped, Placed, Chosen, Winning, Choosing, Go
  <2> QED
    BY <2>1, <2>2, <2>3, <2>4, <2>5 DEF Hook
<1>4. CASE Flushes(t)
  <2>1. StubTyped'
    BY <1>4 DEF Flushes, Hook, StubTyped, Places, Go
  <2>2. \A u \in Threads : Placed(u)'
    BY <1>4 DEF Flushes, Hook, StubTyped, Placed, Winning, Choosing, Go
  <2>3. \A u \in Threads : Counted(u)'
    BY <1>4 DEF Flushes, Hook, StubTyped, Counted, Choosing, Placed, Go
  <2>4. /\ \A u, w \in first' : u = w
        /\ state' = 2 => target'.bytes = "original"
    BY <1>4 DEF Flushes, Hook, StubTyped, Placed, Winning, Go
  <2>5. Chosen'
    BY <1>4 DEF Flushes, Hook, StubTyped, Placed, Chosen, Winning, Choosing, Go
  <2> QED
    BY <2>1, <2>2, <2>3, <2>4, <2>5 DEF Hook
<1>5. CASE Protects(t)
  <2>1. StubTyped'
    BY <1>5 DEF Protects, Hook, StubTyped, Places, Go
  <2>2. \A u \in Threads : Placed(u)'
    BY <1>5 DEF Protects, Hook, StubTyped, Placed, Winning, Choosing, Go
  <2>3. \A u \in Threads : Counted(u)'
    BY <1>5 DEF Protects, Hook, StubTyped, Counted, Choosing, Placed, Go
  <2>4. /\ \A u, w \in first' : u = w
        /\ state' = 2 => target'.bytes = "original"
    BY <1>5 DEF Protects, Hook, StubTyped, Placed, Winning, Go
  <2>5. Chosen'
    BY <1>5 DEF Protects, Hook, StubTyped, Placed, Chosen, Winning, Choosing, Go
  <2> QED
    BY <2>1, <2>2, <2>3, <2>4, <2>5 DEF Hook
<1>6. CASE Publishes(t)
  <2>1. StubTyped'
    BY <1>6 DEF Publishes, Hook, StubTyped, Places, Go
  <2>2. \A u \in Threads : Placed(u)'
    BY <1>6 DEF Publishes, Hook, StubTyped, Placed, Winning, Choosing, Go
  <2>3. \A u \in Threads : Counted(u)'
    BY <1>6 DEF Publishes, Hook, StubTyped, Counted, Choosing, Placed, Go
  <2>4. /\ \A u, w \in first' : u = w
        /\ state' = 2 => target'.bytes = "original"
    BY <1>6 DEF Publishes, Hook, StubTyped, Placed, Winning, Go
  <2>5. Chosen'
    BY <1>6 DEF Publishes, Hook, StubTyped, Placed, Chosen, Winning, Choosing, Go
  <2> QED
    BY <2>1, <2>2, <2>3, <2>4, <2>5 DEF Hook
<1>7. CASE Waited(t)
  <2>1. StubTyped'
    BY <1>7 DEF Waited, Hook, StubTyped, Places, Go
  <2>2. \A u \in Threads : Placed(u)'
    BY <1>7 DEF Waited, Hook, StubTyped, Placed, Winning, Choosing, Go
  <2>3. \A u \in Threads : Counted(u)'
    BY <1>7 DEF Waited, Hook, StubTyped, Counted, Choosing, Placed, Go
  <2>4. /\ \A u, w \in first' : u = w
        /\ state' = 2 => target'.bytes = "original"
    BY <1>7 DEF Waited, Hook, StubTyped, Placed, Winning, Go
  <2>5. Chosen'
    BY <1>7 DEF Waited, Hook, StubTyped, Placed, Chosen, Winning, Choosing, Go
  <2> QED
    BY <2>1, <2>2, <2>3, <2>4, <2>5 DEF Hook
<1>8. CASE CallsOriginal(t)
  <2>1. StubTyped'
    BY <1>8 DEF CallsOriginal, Hook, StubTyped, Places, Go
  <2>2. \A u \in Threads : Placed(u)'
    BY <1>8 DEF CallsOriginal, Hook, StubTyped, Placed, Winning, Choosing, Go
  <2>3. \A u \in Threads : Counted(u)'
    BY <1>8 DEF CallsOriginal, Hook, StubTyped, Counted, Choosing, Placed, Go
  <2>4. /\ \A u, w \in first' : u = w
        /\ state' = 2 => target'.bytes = "original"
    BY <1>8 DEF CallsOriginal, Hook, StubTyped, Placed, Winning, Go
  <2>5. Chosen'
    BY <1>8 DEF CallsOriginal, Hook, StubTyped, Placed, Chosen, Winning, Choosing, Go
  <2> QED
    BY <2>1, <2>2, <2>3, <2>4, <2>5 DEF Hook
<1>9. CASE Returns(t)
  <2>1. StubTyped'
    BY <1>9 DEF Returns, Hook, StubTyped, Places, Go
  <2>2. \A u \in Threads : Placed(u)'
    BY <1>9 DEF Returns, Hook, StubTyped, Placed, Winning, Choosing, Go
  <2>3. \A u \in Threads : Counted(u)'
    BY <1>9 DEF Returns, Hook, StubTyped, Counted, Choosing, Placed, Go
  <2>4. /\ \A u, w \in first' : u = w
        /\ state' = 2 => target'.bytes = "original"
    BY <1>9 DEF Returns, Hook, StubTyped, Placed, Winning, Go
  <2>5. Chosen'
    BY <1>9 DEF Returns, Hook, StubTyped, Placed, Chosen, Winning, Choosing, Go
  <2> QED
    BY <2>1, <2>2, <2>3, <2>4, <2>5 DEF Hook
<1>10. CASE FindsObjects(t)
  <2>1. StubTyped'
    BY <1>10 DEF FindsObjects, Hook, StubTyped, Places, Go
  <2>2. \A u \in Threads : Placed(u)'
    BY <1>10 DEF FindsObjects, Hook, StubTyped, Placed, Winning, Choosing, Go
  <2>3. \A u \in Threads : Counted(u)'
    BY <1>10 DEF FindsObjects, Hook, StubTyped, Counted, Choosing, Placed, Go
  <2>4. /\ \A u, w \in first' : u = w
        /\ state' = 2 => target'.bytes = "original"
    BY <1>10 DEF FindsObjects, Hook, StubTyped, Placed, Winning, Go
  <2>5. Chosen'
    BY <1>10 DEF FindsObjects, Hook, StubTyped, Placed, Chosen, Winning, Choosing, Go
  <2> QED
    BY <2>1, <2>2, <2>3, <2>4, <2>5 DEF Hook
<1>11. CASE SetsUi(t)
  <2>1. StubTyped'
    BY <1>11 DEF SetsUi, Hook, StubTyped, Places, Go
  <2>2. \A u \in Threads : Placed(u)'
    BY <1>11 DEF SetsUi, Hook, StubTyped, Placed, Winning, Choosing, Go
  <2>3. \A u \in Threads : Counted(u)'
    BY <1>11 DEF SetsUi, Hook, StubTyped, Counted, Choosing, Placed, Go
  <2>4. /\ \A u, w \in first' : u = w
        /\ state' = 2 => target'.bytes = "original"
    BY <1>11 DEF SetsUi, Hook, StubTyped, Placed, Winning, Go
  <2>5. Chosen'
    BY <1>11 DEF SetsUi, Hook, StubTyped, Placed, Chosen, Winning, Choosing, Go
  <2> QED
    BY <2>1, <2>2, <2>3, <2>4, <2>5 DEF Hook
<1>12. CASE SetsInput(t)
  <2>1. StubTyped'
    BY <1>12 DEF SetsInput, Hook, StubTyped, Places, Go
  <2>2. \A u \in Threads : Placed(u)'
    BY <1>12 DEF SetsInput, Hook, StubTyped, Placed, Winning, Choosing, Go
  <2>3. \A u \in Threads : Counted(u)'
    BY <1>12 DEF SetsInput, Hook, StubTyped, Counted, Choosing, Placed, Go
  <2>4. /\ \A u, w \in first' : u = w
        /\ state' = 2 => target'.bytes = "original"
    BY <1>12 DEF SetsInput, Hook, StubTyped, Placed, Winning, Go
  <2>5. Chosen'
    BY <1>12 DEF SetsInput, Hook, StubTyped, Placed, Chosen, Winning, Choosing, Go
  <2> QED
    BY <2>1, <2>2, <2>3, <2>4, <2>5 DEF Hook
<1> QED
  BY <1>1, <1>2, <1>3, <1>4, <1>5, <1>6, <1>7, <1>8, <1>9, <1>10, <1>11,
     <1>12 DEF Runs

\* A thread runs only in a child the launcher is through with.
LEMMA ThreadAwake ==
  ASSUME Apart, NEW t \in Threads, GameThread(t)
  PROVE  Apart'
<1>1. UNCHANGED owned
  BY DEF GameThread, Runs, Same
<1>2. child # "suspended"
  BY DEF GameThread, CallsFunction, Runs, Enters, RestoresBytes, Flushes, Protects,
     Publishes, Waited, CallsOriginal, Returns, FindsObjects, SetsUi, SetsInput, Go,
     Apart, Asleep
<1> QED
  BY <1>1, <1>2 DEF owned, Apart

\* Every step keeps what is known of the hook.
LEMMA HookKept ==
  ASSUME Apart, Hook, [Next]_vars
  PROVE  Apart' /\ Hook'
<1>1. CASE UNCHANGED <<owned, stubVars, target>>
  BY <1>1 DEF owned, stubVars, Apart, Asleep, Hook, StubTyped, Placed, Counted, Chosen
<1>2. CASE Launcher
  BY <1>2, LauncherKeepsHook
<1>3. CASE \E t \in Threads : GameThread(t) /\ UNCHANGED touchVars
  <2>1. PICK t \in Threads : GameThread(t)
    BY <1>3
  <2>2. Apart'
    BY <2>1, ThreadAwake
  <2>3. Hook'
    BY <2>1, ThreadKeepsHook DEF GameThread
  <2> QED
    BY <2>2, <2>3
<1>4. CASE \/ RemoteThread /\ UNCHANGED <<stubVars, touchVars>>
           \/ Worker /\ UNCHANGED <<stubVars, touchVars>>
           \/ GameSetsUi /\ UNCHANGED <<stubVars, touchVars>>
  BY <1>1, <1>4 DEF RemoteThread, InitThreadEnds, LoaderEnds, Worker, WorkerWrites,
     WorkerMarks, WorkerWakes, GameSetsUi
<1>5. CASE ForeignSite /\ UNCHANGED <<remoteVars, stubVars>>
  BY <1>1, <1>5 DEF ForeignSite, remoteVars
<1>6. CASE UNCHANGED vars
  BY <1>1, <1>6 DEF vars, remoteVars
<1> QED
  BY <1>2, <1>3, <1>4, <1>5, <1>6 DEF Next, ChildThreads

-----------------------------------------------------------------------------
\* What is known of the windows and of the hook is inductive.
THEOREM SetupInvariance == Spec => []IInv
<1>1. Init => IInv
  BY InitHolds
<1>2. IInv /\ [Next]_vars => IInv'
  BY WindowsKept, HookKept DEF IInv
<1> QED
  BY <1>1, <1>2, PTL DEF Spec

\* apply_plan touches no window of a child in which any differs, for a plan of
\* any length and windows changed at any time before the last look.
THEOREM PlanIsWrittenAsAWhole == Spec => []WrittenOnlyAsAWhole
<1>1. IInv => WrittenOnlyAsAWhole
  BY DEF IInv, Windows
<1> QED
  BY <1>1, SetupInvariance, PTL

\* However many threads enter GI's function: the original is called only with
\* its bytes back, and the setters at most once each, after it has returned.
THEOREM HookRunsOnce == Spec => []HookIsOneShot
<1>1. IInv => HookIsOneShot
  BY DEF IInv, Hook, Placed, Counted, Chosen, Choosing, HookIsOneShot
<1> QED
  BY <1>1, SetupInvariance, PTL
-----------------------------------------------------------------------------
(* What is ready at each place of the set-up.                              *)

Loading == {"load", "load_code", "load_context", "load_protect", "load_start"}
Starting == {"bootstrap", "bootstrap_wait"} \cup Loading
Waiting == {"load_wait", "load_check"}
SrOnly == {"ui_context", "worker_start", "worker_poll"}
HookOnly == {"target_open", "gi_context", "jump", "jump_flush", "undo"}
UiPlaces == {"resolve", "ui", "ui_code", "ui_protect"} \cup SrOnly \cup HookOnly

\* Each place belongs to some of the three ways.
Ways ==
  /\ kind \in Kinds
  /\ pc \in Early \cup Late => kind = "GI"
  /\ pc \in Starting \cup Waiting \cup UiPlaces => kind # "GI"
  /\ pc \in SrOnly => kind = "SR"
  /\ pc \in HookOnly => kind = "legacy"

Records == [mem : {"none", "RW", "RX", "freed"}, code : BOOLEAN,
            context : BOOLEAN, retained : BOOLEAN]

BlocksTyped ==
  /\ block \in [Blocks -> Records]
  /\ remote \in [init : {"none", "running", "ended"},
                 loader : {"none", "running", "ended"},
                 worker : {"none", "write", "mark", "sleep"}]

\* The loader's block, from its allocation to its end.
LoaderReady ==
  /\ pc \in Starting => remote.loader = "none"
  /\ kind = "GI" \/ pc \in {"bootstrap", "bootstrap_wait", "load"} =>
       block["loader"] = NoBlock
  /\ pc \in Loading \ {"load"} => block["loader"].mem # "none"
  /\ pc \in {"load_context", "load_protect", "load_start"} => block["loader"].code
  /\ pc \in {"load_protect", "load_start"} => block["loader"].context
  /\ pc = "load_start" => block["loader"].mem = "RX"
  /\ pc = "load_check" => remote.loader = "ended" /\ ~block["loader"].retained
  /\ pc \in UiPlaces \cup {"resume"} => block["loader"].mem \in {"none", "freed"}
  /\ remote.loader = "running" => Fit("loader") /\ block["loader"].retained

\* The block the game runs in.
UiReady ==
  /\ pc \in {"ui_context", "ui_protect", "worker_start"} \cup HookOnly => block["ui"].code
  /\ pc \in {"worker_start"} \cup HookOnly => block["ui"].mem = "RX"
  /\ pc \in {"worker_start", "jump", "jump_flush"} => block["ui"].context
  /\ kind = "SR" /\ pc = "ui_protect" => block["ui"].context
  /\ remote.worker # "none" => Fit("ui") /\ block["ui"].retained
  /\ pc \in Starting \cup Waiting \cup (UiPlaces \ {"worker_poll"}) =>
       remote.worker = "none"

\* The SR worker and its launcher.
WorkerReady ==
  /\ started => remote.worker # "none"
  /\ child = "suspended" /\ (started \/ remote.worker = "mark") => uiState = "mobile"
  /\ kind = "SR" /\ pc = "resume" => started

\* The function GI's threads enter.
HookReady ==
  /\ pc \in HookOnly \ {"target_open", "undo"} => target.prot = "RWX"
  /\ pc = "jump_flush" \/ (kind = "legacy" /\ pc = "resume") =>
       target.bytes = "jump" /\ block["ui"].retained
  /\ kind = "legacy" /\ pc = "resume" => target.prot = "RWX" /\ Fit("ui")
  /\ child = "running" /\ kind = "legacy" =>
       /\ Fit("ui")
       /\ state = 0 => target.prot = "RWX"
       /\ \A t \in Threads :
            at[t] \in {"restore", "flush", "protect"} => target.prot = "RWX"
  /\ \A t \in Threads : at[t] # "idle" => child = "running" /\ kind = "legacy"

Helpers == [mem : {"none", "RW", "RX", "freed"}, owned : BOOLEAN]

\* The windows before the one apply_plan is at, and the helper they call.
PlanReady ==
  /\ helper \in Helpers
  /\ next \in Nat \ {0}
  /\ pc \in Early => next = 1
  /\ pc \in Late => \A s \in Sites : s < next => site[s] = "patched"
  /\ pc \in Late \ {"release"} => next <= NumSites
  /\ pc = "release" => next = NumSites + 1
  /\ pc \in Early \cup {"open", "verify", "release"} => open = {}
  /\ pc \in {"write", "flush", "close"} => open = {next}
  /\ pc = "apply" \/ pc \in Late => helper.mem = "RX" /\ helper.owned
  /\ pc \in {"helper_code", "helper_protect"} => helper.mem = "RW" /\ helper.owned
  /\ kind = "GI" /\ pc = "resume" =>
       /\ \A s \in Sites : site[s] = "patched"
       /\ open = {}
       /\ helper.mem = "RX" /\ ~helper.owned

Ready ==
  /\ Ways /\ BlocksTyped /\ LoaderReady /\ UiReady /\ WorkerReady /\ HookReady /\ PlanReady

\* The preparations hold when the child has been created.
LEMMA InitReady == Init => Ready
BY NumSitesAssumption DEF Init, OwnedInit, RemoteInit, StubInit, TouchInit, Ready, Ways,
   BlocksTyped, Records, LoaderReady, UiReady, WorkerReady, HookReady, PlanReady, Helpers,
   NoBlock, Blocks, Kinds, Early, Late, Loading, Starting, Waiting, SrOnly, HookOnly,
   UiPlaces

\* A block stays a block when one of its fields is set.
LEMMA FieldSet ==
  ASSUME NEW r \in Records, NEW m \in {"RW", "RX", "freed"}, NEW b \in BOOLEAN
  PROVE  /\ [r EXCEPT !.mem = m] \in Records
         /\ [r EXCEPT !.code = TRUE] \in Records
         /\ [r EXCEPT !.context = TRUE] \in Records
         /\ [r EXCEPT !.retained = b] \in Records
<1>1. [r EXCEPT !.mem = m] \in Records
  BY DEF Records
<1>2. [r EXCEPT !.code = TRUE] \in Records
  BY DEF Records
<1>3. [r EXCEPT !.context = TRUE] \in Records
  BY DEF Records
<1>4. [r EXCEPT !.retained = b] \in Records
  BY DEF Records
<1> QED
  BY <1>1, <1>2, <1>3, <1>4

\* Replacing one block by another keeps the type of both.
LEMMA BlockSet ==
  ASSUME block \in [Blocks -> Records], NEW b \in Blocks, NEW r \in Records,
         block' = [block EXCEPT ![b] = r]
  PROVE  block' \in [Blocks -> Records]
OBVIOUS

\* What one call does to a block is a change of one field.
LEMMA PreparedTyped ==
  ASSUME block \in [Blocks -> Records], NEW b \in Blocks, NEW from, NEW to,
         \/ \E m \in {"RW", "RX"} : Prepare(b, from, to, "mem", m)
         \/ Prepare(b, from, to, "code", TRUE)
         \/ Prepare(b, from, to, "context", TRUE)
         \/ Prepare(b, from, to, "retained", FALSE)
  PROVE  block' \in [Blocks -> Records]
<1>1. block[b] \in Records
  OBVIOUS
<1>2. \E r \in Records : block' = [block EXCEPT ![b] = r]
  <2>1. CASE \E m \in {"RW", "RX"} : Prepare(b, from, to, "mem", m)
    BY <1>1, <2>1, FieldSet DEF Prepare
  <2>2. CASE Prepare(b, from, to, "code", TRUE)
    BY <1>1, <2>2, FieldSet DEF Prepare
  <2>3. CASE Prepare(b, from, to, "context", TRUE)
    BY <1>1, <2>3, FieldSet DEF Prepare
  <2>4. CASE Prepare(b, from, to, "retained", FALSE)
    BY <1>1, <2>4, FieldSet DEF Prepare
  <2> QED
    BY <2>1, <2>2, <2>3, <2>4
<1> QED
  BY <1>2, BlockSet

\* The launcher's calls keep the types of blocks and threads.
LEMMA RemoteKeepsTypes ==
  ASSUME BlocksTyped, RemoteStep
  PROVE  BlocksTyped'
<1>1. CASE PrepareLoader
  <2>1. \E from, to :
          \/ \E m \in {"RW", "RX"} : Prepare("loader", from, to, "mem", m)
          \/ Prepare("loader", from, to, "code", TRUE)
          \/ Prepare("loader", from, to, "context", TRUE)
    BY <1>1 DEF PrepareLoader
  <2>2. UNCHANGED remote
    BY <2>1 DEF Prepare
  <2> QED
    BY <2>1, <2>2, PreparedTyped DEF BlocksTyped, Blocks
<1>2. CASE PrepareUi
  <2>1. \E from, to :
          \/ \E m \in {"RW", "RX"} : Prepare("ui", from, to, "mem", m)
          \/ Prepare("ui", from, to, "code", TRUE)
          \/ Prepare("ui", from, to, "context", TRUE)
    BY <1>2 DEF PrepareUi
  <2>2. UNCHANGED remote
    BY <2>1 DEF Prepare
  <2> QED
    BY <2>1, <2>2, PreparedTyped DEF BlocksTyped, Blocks
<1>3. CASE LoaderWaited
  <2>1. Prepare("loader", "load_wait", "load_check", "retained", FALSE)
    BY <1>3 DEF LoaderWaited
  <2>2. UNCHANGED remote
    BY <2>1 DEF Prepare
  <2> QED
    BY <2>1, <2>2, PreparedTyped DEF BlocksTyped, Blocks
<1>4. CASE WriteContext
  <2>1. Prepare("ui", "gi_context", "jump", "context", TRUE)
    BY <1>4 DEF WriteContext
  <2>2. UNCHANGED remote
    BY <2>1 DEF Prepare
  <2> QED
    BY <2>1, <2>2, PreparedTyped DEF BlocksTyped, Blocks
<1>5. CASE StartLoader
  <2>1. [block["loader"] EXCEPT !.retained = TRUE] \in Records
    BY FieldSet DEF BlocksTyped, Blocks
  <2>2. block' = [block EXCEPT !["loader"] = [block["loader"] EXCEPT !.retained = TRUE]]
    BY <1>5 DEF StartLoader
  <2>3. block' \in [Blocks -> Records]
    BY <2>1, <2>2, BlockSet DEF BlocksTyped, Blocks
  <2> QED
    BY <1>5, <2>3 DEF StartLoader, StartThread, BlocksTyped
<1>6. CASE StartWorker \/ WriteJump
  <2>1. [block["ui"] EXCEPT !.retained = TRUE] \in Records
    BY FieldSet DEF BlocksTyped, Blocks
  <2>2. block' = [block EXCEPT !["ui"] = [block["ui"] EXCEPT !.retained = TRUE]]
    BY <1>6 DEF StartWorker, WriteJump
  <2>3. block' \in [Blocks -> Records]
    BY <2>1, <2>2, BlockSet DEF BlocksTyped, Blocks
  <2> QED
    BY <1>6, <2>3 DEF StartWorker, WriteJump, StartThread, BlocksTyped
<1>7. CASE LoaderChecked
  BY <1>7 DEF LoaderChecked, BlocksTyped, Blocks, Records
<1>8. CASE Bootstrap
  BY <1>8 DEF Bootstrap, StartThread, BlocksTyped
<1>9. CASE \/ Bootstrapped \/ Resolve \/ WorkerSeen \/ WorkerPolled \/ OpenTarget
           \/ FlushJump \/ CatchInstall \/ RemoteCallFails
           \/ \E written, protected \in BOOLEAN : Undo(written, protected)
  BY <1>9 DEF Bootstrapped, Resolve, WorkerSeen, WorkerPolled, OpenTarget, FlushJump,
     CatchInstall, RemoteCallFails, Undo, remoteVars, BlocksTyped
<1> QED
  BY <1>1, <1>2, <1>3, <1>4, <1>5, <1>6, <1>7, <1>8, <1>9 DEF RemoteStep

\* Each call leads to a place of the same way.
LEMMA RemoteKeepsWays ==
  ASSUME Ready, Apart, StubTyped, RemoteStep, UNCHANGED stubVars
  PROVE  Ways'
<1> USE DEF Ready, Ways, Kinds, Proceed,
        remoteVars, Early, Late, Loading, Starting, Waiting, SrOnly, HookOnly, UiPlaces
<1>1. CASE Bootstrap
  BY <1>1 DEF Bootstrap, StartThread
<1>2. CASE Bootstrapped
  BY <1>2 DEF Bootstrapped
<1>3. CASE Resolve
  BY <1>3 DEF Resolve
<1>4. CASE PrepareLoader
  BY <1>4 DEF PrepareLoader, Prepare
<1>5. CASE StartLoader
  BY <1>5 DEF StartLoader, StartThread
<1>6. CASE LoaderWaited
  BY <1>6 DEF LoaderWaited, Prepare
<1>7. CASE LoaderChecked
  BY <1>7 DEF LoaderChecked
<1>8. CASE PrepareUi
  BY <1>8 DEF PrepareUi, Prepare
<1>9. CASE StartWorker
  BY <1>9 DEF StartWorker, StartThread
<1>10. CASE WorkerSeen \/ WorkerPolled
  BY <1>10 DEF WorkerSeen, WorkerPolled
<1>11. CASE OpenTarget
  BY <1>11 DEF OpenTarget
<1>12. CASE WriteContext
  BY <1>12 DEF WriteContext, Prepare
<1>13. CASE WriteJump
  BY <1>13 DEF WriteJump
<1>14. CASE FlushJump \/ CatchInstall
  BY <1>14 DEF FlushJump, CatchInstall
<1>15. CASE RemoteCallFails
  BY <1>15 DEF RemoteCallFails, RemoteCalls, Throw
<1>16. CASE \E written, protected \in BOOLEAN : Undo(written, protected)
  BY <1>16 DEF Undo
<1> QED
  BY <1>1, <1>2, <1>3, <1>4, <1>5, <1>6, <1>7, <1>8, <1>9, <1>10, <1>11, <1>12,
     <1>13, <1>14, <1>15, <1>16 DEF RemoteStep

\* The launcher's calls keep the loader's block fit for its thread.
LEMMA RemoteKeepsLoaderReady ==
  ASSUME Ready, Apart, StubTyped, RemoteStep, UNCHANGED stubVars
  PROVE  LoaderReady'
<1> USE DEF Ready, Ways, BlocksTyped, Records, LoaderReady, Blocks, NoBlock, Fit, Proceed,
        remoteVars, Early, Late, Loading, Starting, Waiting, SrOnly, HookOnly, UiPlaces
<1>1. CASE Bootstrap
  BY <1>1 DEF Bootstrap, StartThread
<1>2. CASE Bootstrapped
  <2>1. block["loader"].mem = "none" /\ UNCHANGED <<kind, block, remote>>
    BY <1>2 DEF Bootstrapped
  <2>2. pc = "bootstrap_wait" /\ pc' \in {"load", "resolve"}
    BY <1>2 DEF Bootstrapped
  <2> QED
    BY <2>1, <2>2
<1>3. CASE Resolve
  BY <1>3 DEF Resolve
<1>4. CASE PrepareLoader
  BY <1>4 DEF PrepareLoader, Prepare
<1>5. CASE StartLoader
  BY <1>5 DEF StartLoader, StartThread
<1>6. CASE LoaderWaited
  BY <1>6 DEF LoaderWaited, Prepare
<1>7. CASE LoaderChecked
  BY <1>7 DEF LoaderChecked
<1>8. CASE PrepareUi
  BY <1>8 DEF PrepareUi, Prepare
<1>9. CASE StartWorker
  BY <1>9 DEF StartWorker, StartThread
<1>10. CASE WorkerSeen \/ WorkerPolled
  BY <1>10 DEF WorkerSeen, WorkerPolled
<1>11. CASE OpenTarget
  BY <1>11 DEF OpenTarget
<1>12. CASE WriteContext
  BY <1>12 DEF WriteContext, Prepare
<1>13. CASE WriteJump
  BY <1>13 DEF WriteJump
<1>14. CASE FlushJump \/ CatchInstall
  BY <1>14 DEF FlushJump, CatchInstall
<1>15. CASE RemoteCallFails
  BY <1>15 DEF RemoteCallFails, RemoteCalls, Throw
<1>16. CASE \E written, protected \in BOOLEAN : Undo(written, protected)
  BY <1>16 DEF Undo
<1> QED
  BY <1>1, <1>2, <1>3, <1>4, <1>5, <1>6, <1>7, <1>8, <1>9, <1>10, <1>11, <1>12,
     <1>13, <1>14, <1>15, <1>16 DEF RemoteStep

\* The launcher's calls keep the game's block fit for its threads.
LEMMA RemoteKeepsUiReady ==
  ASSUME Ready, Apart, StubTyped, RemoteStep, UNCHANGED stubVars
  PROVE  UiReady'
<1> USE DEF Ready, Ways, BlocksTyped, Records, UiReady, Blocks, Fit, Proceed,
        remoteVars, Early, Late, Loading, Starting, Waiting, SrOnly, HookOnly, UiPlaces
<1>1. CASE Bootstrap
  BY <1>1 DEF Bootstrap, StartThread
<1>2. CASE Bootstrapped
  BY <1>2 DEF Bootstrapped
<1>3. CASE Resolve
  BY <1>3 DEF Resolve
<1>4. CASE PrepareLoader
  BY <1>4 DEF PrepareLoader, Prepare
<1>5. CASE StartLoader
  BY <1>5 DEF StartLoader, StartThread
<1>6. CASE LoaderWaited
  BY <1>6 DEF LoaderWaited, Prepare
<1>7. CASE LoaderChecked
  BY <1>7 DEF LoaderChecked
<1>8. CASE PrepareUi
  BY <1>8 DEF PrepareUi, Prepare
<1>9. CASE StartWorker
  BY <1>9 DEF StartWorker, StartThread
<1>10. CASE WorkerSeen \/ WorkerPolled
  BY <1>10 DEF WorkerSeen, WorkerPolled
<1>11. CASE OpenTarget
  BY <1>11 DEF OpenTarget
<1>12. CASE WriteContext
  BY <1>12 DEF WriteContext, Prepare
<1>13. CASE WriteJump
  BY <1>13 DEF WriteJump
<1>14. CASE FlushJump \/ CatchInstall
  BY <1>14 DEF FlushJump, CatchInstall
<1>15. CASE RemoteCallFails
  BY <1>15 DEF RemoteCallFails, RemoteCalls, Throw
<1>16. CASE \E written, protected \in BOOLEAN : Undo(written, protected)
  BY <1>16 DEF Undo
<1> QED
  BY <1>1, <1>2, <1>3, <1>4, <1>5, <1>6, <1>7, <1>8, <1>9, <1>10, <1>11, <1>12,
     <1>13, <1>14, <1>15, <1>16 DEF RemoteStep

\* The launcher goes on only with a worker that has started.
LEMMA RemoteKeepsWorkerReady ==
  ASSUME Ready, Apart, StubTyped, RemoteStep, UNCHANGED stubVars
  PROVE  WorkerReady'
<1> USE DEF Ready, Ways, BlocksTyped, UiReady, WorkerReady, Apart, Proceed,
        remoteVars, Early, Late, Loading, Starting, Waiting, SrOnly, HookOnly, UiPlaces
<1>1. CASE Bootstrap
  BY <1>1 DEF Bootstrap, StartThread
<1>2. CASE Bootstrapped
  BY <1>2 DEF Bootstrapped
<1>3. CASE Resolve
  BY <1>3 DEF Resolve
<1>4. CASE PrepareLoader
  BY <1>4 DEF PrepareLoader, Prepare
<1>5. CASE StartLoader
  BY <1>5 DEF StartLoader, StartThread
<1>6. CASE LoaderWaited
  BY <1>6 DEF LoaderWaited, Prepare
<1>7. CASE LoaderChecked
  BY <1>7 DEF LoaderChecked
<1>8. CASE PrepareUi
  BY <1>8 DEF PrepareUi, Prepare
<1>9. CASE StartWorker
  BY <1>9 DEF StartWorker, StartThread
<1>10. CASE WorkerSeen \/ WorkerPolled
  BY <1>10 DEF WorkerSeen, WorkerPolled
<1>11. CASE OpenTarget
  BY <1>11 DEF OpenTarget
<1>12. CASE WriteContext
  BY <1>12 DEF WriteContext, Prepare
<1>13. CASE WriteJump
  BY <1>13 DEF WriteJump
<1>14. CASE FlushJump \/ CatchInstall
  BY <1>14 DEF FlushJump, CatchInstall
<1>15. CASE RemoteCallFails
  BY <1>15 DEF RemoteCallFails, RemoteCalls, Throw
<1>16. CASE \E written, protected \in BOOLEAN : Undo(written, protected)
  BY <1>16 DEF Undo
<1> QED
  BY <1>1, <1>2, <1>3, <1>4, <1>5, <1>6, <1>7, <1>8, <1>9, <1>10, <1>11, <1>12,
     <1>13, <1>14, <1>15, <1>16 DEF RemoteStep

\* The hook is complete, and its function restorable, when the child is let go.
LEMMA RemoteKeepsHookReady ==
  ASSUME Ready, Apart, StubTyped, RemoteStep, UNCHANGED stubVars
  PROVE  HookReady'
<1> USE DEF Ready, Ways, BlocksTyped, Records, UiReady, HookReady, Blocks, Fit,
        Apart, Asleep, StubTyped, stubVars, Proceed,
        remoteVars, Early, Late, Loading, Starting, Waiting, SrOnly, HookOnly, UiPlaces
<1>1. CASE Bootstrap
  BY <1>1 DEF Bootstrap, StartThread
<1>2. CASE Bootstrapped
  BY <1>2 DEF Bootstrapped
<1>3. CASE Resolve
  BY <1>3 DEF Resolve
<1>4. CASE PrepareLoader
  BY <1>4 DEF PrepareLoader, Prepare
<1>5. CASE StartLoader
  BY <1>5 DEF StartLoader, StartThread
<1>6. CASE LoaderWaited
  BY <1>6 DEF LoaderWaited, Prepare
<1>7. CASE LoaderChecked
  BY <1>7 DEF LoaderChecked
<1>8. CASE PrepareUi
  BY <1>8 DEF PrepareUi, Prepare
<1>9. CASE StartWorker
  BY <1>9 DEF StartWorker, StartThread
<1>10. CASE WorkerSeen \/ WorkerPolled
  BY <1>10 DEF WorkerSeen, WorkerPolled
<1>11. CASE OpenTarget
  BY <1>11 DEF OpenTarget
<1>12. CASE WriteContext
  BY <1>12 DEF WriteContext, Prepare
<1>13. CASE WriteJump
  BY <1>13 DEF WriteJump
<1>14. CASE FlushJump \/ CatchInstall
  BY <1>14 DEF FlushJump, CatchInstall
<1>15. CASE RemoteCallFails
  BY <1>15 DEF RemoteCallFails, RemoteCalls, Throw
<1>16. CASE \E written, protected \in BOOLEAN : Undo(written, protected)
  BY <1>16 DEF Undo
<1> QED
  BY <1>1, <1>2, <1>3, <1>4, <1>5, <1>6, <1>7, <1>8, <1>9, <1>10, <1>11, <1>12,
     <1>13, <1>14, <1>15, <1>16 DEF RemoteStep

\* The calls of mobile::initialize keep all that is ready.
LEMMA RemoteKeepsReady ==
  ASSUME Ready, Apart, StubTyped, RemoteStep, UNCHANGED <<stubVars, touchVars>>
  PROVE  Ready'
<1>1. BlocksTyped'
  BY RemoteKeepsTypes DEF Ready
<1>2. Ways' /\ LoaderReady' /\ UiReady' /\ WorkerReady' /\ HookReady'
  BY RemoteKeepsWays, RemoteKeepsLoaderReady, RemoteKeepsUiReady, RemoteKeepsWorkerReady,
     RemoteKeepsHookReady
<1>3. kind' # "GI"
  <2>1. UNCHANGED kind
    BY DEF RemoteStep, Bootstrap, Bootstrapped, PrepareLoader, StartLoader, LoaderWaited,
       LoaderChecked, Resolve, PrepareUi, StartWorker, WorkerSeen, WorkerPolled, OpenTarget,
       WriteContext, WriteJump, FlushJump, CatchInstall, Undo, RemoteCallFails, Prepare,
       Proceed, Throw
  <2>2. pc \in Starting \cup Waiting \cup UiPlaces
    BY DEF RemoteStep, Bootstrap, Bootstrapped, PrepareLoader, StartLoader, LoaderWaited,
       LoaderChecked, Resolve, PrepareUi, StartWorker, WorkerSeen, WorkerPolled, OpenTarget,
       WriteContext, WriteJump, FlushJump, CatchInstall, Undo, RemoteCallFails, Prepare,
       Proceed, RemoteCalls, Loading, Starting, Waiting, SrOnly, HookOnly, UiPlaces
  <2> QED
    BY <2>1, <2>2 DEF Ready, Ways
<1>4. PlanReady'
  BY <1>3, RemoteElsewhere DEF Ready, PlanReady, touchVars, Early, Late
<1> QED
  BY <1>1, <1>2, <1>4 DEF Ready

-----------------------------------------------------------------------------
(* The plan.                                                               *)

\* Changing one field of the helper's allocation leaves the other.
LEMMA HelperSet ==
  ASSUME NEW h \in Helpers
  PROVE  /\ [h EXCEPT !.mem = "RX"] \in Helpers
         /\ [h EXCEPT !.mem = "RX"].mem = "RX"
         /\ h.owned => [h EXCEPT !.mem = "RX"].owned
         /\ [h EXCEPT !.mem = "freed"] \in Helpers
         /\ [h EXCEPT !.owned = FALSE] \in Helpers
         /\ [h EXCEPT !.owned = FALSE].mem = h.mem
         /\ ~[h EXCEPT !.owned = FALSE].owned
BY DEF Helpers

\* Each call of gi::initialize leaves ready what the next one needs.
LEMMA TouchKeepsPlan ==
  ASSUME Ready, Windows, TouchStep
  PROVE  PlanReady'
<1> USE NumSitesAssumption DEF Ready, Ways, PlanReady, Windows, Early, Late, Proceed, Sites,
        touchVars
<1>1. CASE Snapshot \/ Validate
  BY <1>1 DEF Snapshot, Validate
<1>2. CASE AllocateHelper
  BY <1>2 DEF AllocateHelper, Helpers
<1>3. CASE WriteHelper
  BY <1>3 DEF WriteHelper
<1>4. CASE ProtectHelper
  BY <1>4, HelperSet DEF ProtectHelper
<1>5. CASE Apply
  BY <1>5 DEF Apply
<1>6. CASE OpenSite
  BY <1>6 DEF OpenSite
<1>7. CASE WriteSite
  BY <1>7 DEF WriteSite
<1>8. CASE FlushSite
  BY <1>8 DEF FlushSite
<1>9. CASE CloseSite
  BY <1>9 DEF CloseSite, Throw
<1>10. CASE VerifySite
  BY <1>10 DEF VerifySite
<1>11. CASE ReleaseHelper
  <2>1. /\ pc = "release" /\ pc' = "resume"
        /\ UNCHANGED <<site, open, next>>
        /\ helper' = [helper EXCEPT !.owned = FALSE]
    BY <1>11 DEF ReleaseHelper
  <2>2. helper' \in Helpers
        /\ helper'.mem = "RX" /\ ~helper'.owned
    BY <2>1, HelperSet
  <2>3. \A s \in Sites : site'[s] = "patched"
    BY <2>1
  <2> QED
    BY <2>1, <2>2, <2>3
<1>12. CASE TouchCallFails
  BY <1>12 DEF TouchCallFails, Throw
<1> QED
  BY <1>1, <1>2, <1>3, <1>4, <1>5, <1>6, <1>7, <1>8, <1>9, <1>10, <1>11,
     <1>12 DEF TouchStep

\* The rest of a child that is patched stays as it was created.
LEMMA TouchKeepsReady ==
  ASSUME Ready, Windows, Apart, StubTyped, TouchStep, UNCHANGED <<remoteVars,
  stubVars>>
  PROVE  Ready'
<1>1. PlanReady'
  BY TouchKeepsPlan
<1>2. /\ UNCHANGED <<kind, child>>
      /\ pc \in Early \cup Late
      /\ pc' \in Early \cup Late \cup {"unwind", "resume"}
  BY DEF TouchStep, Snapshot, Validate, AllocateHelper, WriteHelper, ProtectHelper,
     Apply, OpenSite, WriteSite, FlushSite, CloseSite, VerifySite, ReleaseHelper,
     TouchCallFails,
     TouchCalls, Proceed, Throw, Early, Late
<1>3. kind = "GI"
  BY <1>2 DEF Ready, Ways
<1>4. Ways' /\ BlocksTyped' /\ LoaderReady'
  BY <1>2, <1>3 DEF Ready, Ways, BlocksTyped, LoaderReady, remoteVars, Fit, NoBlock,
     Early, Late, Loading, Starting, Waiting, SrOnly, HookOnly, UiPlaces
<1>5. UiReady' /\ WorkerReady' /\ HookReady'
  BY <1>2, <1>3 DEF Ready, Ways, UiReady, WorkerReady, HookReady, remoteVars, stubVars, Fit,
     Apart, Asleep, StubTyped, Early, Late, Loading, Starting, Waiting, SrOnly,
     HookOnly, UiPlaces
<1> QED
  BY <1>1, <1>4, <1>5 DEF Ready

-----------------------------------------------------------------------------
(* The end of the set-up, and the threads.                                 *)

\* The destructors free no block that a thread runs in.
LEMMA UnwindKeepsReady ==
  ASSUME Ready, Apart, StubTyped, Unwind
  PROVE  Ready'
<1> USE DEF Unwind, Unwound, Proceed, Early, Late, Loading, Starting, Waiting,
        SrOnly, HookOnly, UiPlaces
<1>1. Ways' /\ PlanReady'
  BY HelperSet DEF Ready, Ways, PlanReady, FreedHelper
<1>2. BlocksTyped'
  BY DEF Ready, BlocksTyped, FreedBlocks, Records, Blocks
<1>3. LoaderReady'
  <2>1. block["loader"] = NoBlock => block'["loader"] = NoBlock
    BY DEF FreedBlocks, Blocks, NoBlock
  <2>2. Fit("loader") /\ block["loader"].retained => block'["loader"] = block["loader"]
    BY DEF FreedBlocks, Blocks
  <2> QED
    BY <2>1, <2>2 DEF Ready, LoaderReady, Fit
<1>4. UiReady'
  BY DEF Ready, BlocksTyped, Records, UiReady, FreedBlocks, Blocks, Fit
<1>5. WorkerReady' /\ HookReady'
  BY DEF Ready, WorkerReady, HookReady, Apart, Asleep, StubTyped, stubVars
<1> QED
  BY <1>1, <1>2, <1>3, <1>4, <1>5 DEF Ready

\* Letting the child go, or terminating it, changes nothing in it.
LEMMA OwnedKeepsReady ==
  ASSUME Ready, Apart, StubTyped, OwnedStep
  PROVE  Ready'
<1> USE DEF OwnedStep, Resume, ResumeFails, Terminate, Throw, remoteVars, stubVars,
        touchVars,
        Early, Late, Loading, Starting, Waiting, SrOnly, HookOnly, UiPlaces
<1>1. Ways' /\ PlanReady' /\ BlocksTyped'
  BY DEF Ready, Ways, PlanReady, BlocksTyped
<1>2. LoaderReady' /\ UiReady'
  BY DEF Ready, LoaderReady, UiReady, Fit
<1>3. WorkerReady' /\ HookReady'
  BY DEF Ready, WorkerReady, HookReady, Apart, Asleep, StubTyped, Fit
<1> QED
  BY <1>1, <1>2, <1>3 DEF Ready

\* The threads the launcher started keep what they need.
LEMMA RemoteThreadsKeepReady ==
  ASSUME Ready, UNCHANGED <<stubVars, touchVars>>,
  RemoteThread \/ Worker \/ GameSetsUi
  PROVE  Ready'
<1> USE DEF RemoteThread, InitThreadEnds, LoaderEnds, Worker, WorkerWrites, WorkerMarks,
        WorkerWakes, GameSetsUi, StartThread, owned, stubVars, touchVars
<1>1. Ways' /\ PlanReady' /\ HookReady'
  BY DEF Ready, Ways, PlanReady, HookReady, Fit
<1>2. BlocksTyped'
  BY DEF Ready, BlocksTyped
<1>3. LoaderReady' /\ UiReady' /\ WorkerReady'
  BY DEF Ready, BlocksTyped, LoaderReady, UiReady, WorkerReady, Fit,
     Early, Late, Loading, Starting, Waiting, SrOnly, HookOnly, UiPlaces
<1> QED
  BY <1>1, <1>2, <1>3 DEF Ready

\* A thread in the hook protects the function only when nobody will write it.
LEMMA ThreadKeepsHookReady ==
  ASSUME Ready, Apart, Hook, NEW t \in Threads, CallsFunction(t) \/ Runs(t), Same
  PROVE  HookReady'
<1> USE DEF Ready, HookReady, Apart, Hook, StubTyped, Placed, Winning, Go, Same, owned, Fit,
        SrOnly, HookOnly
<1>1. CASE CallsFunction(t)
  BY <1>1 DEF CallsFunction
<1>2. CASE Enters(t)
  BY <1>2 DEF Enters
<1>3. CASE RestoresBytes(t)
  BY <1>3 DEF RestoresBytes
<1>4. CASE Flushes(t)
  BY <1>4 DEF Flushes
<1>5. CASE Protects(t)
  BY <1>5 DEF Protects
<1>6. CASE Publishes(t)
  BY <1>6 DEF Publishes
<1>7. CASE Waited(t)
  BY <1>7 DEF Waited
<1>8. CASE CallsOriginal(t)
  BY <1>8 DEF CallsOriginal
<1>9. CASE Returns(t)
  BY <1>9 DEF Returns
<1>10. CASE FindsObjects(t)
  BY <1>10 DEF FindsObjects
<1>11. CASE SetsUi(t)
  BY <1>11 DEF SetsUi
<1>12. CASE SetsInput(t)
  BY <1>12 DEF SetsInput
<1> QED
  BY <1>1, <1>2, <1>3, <1>4, <1>5, <1>6, <1>7, <1>8, <1>9, <1>10, <1>11,
     <1>12 DEF Runs

\* The game's threads keep what is ready.
LEMMA ThreadKeepsReady ==
  ASSUME Ready, Apart, Hook, NEW t \in Threads, GameThread(t), UNCHANGED touchVars
  PROVE  Ready'
<1>1. Same
  BY DEF GameThread, Runs
<1>2. HookReady'
  BY <1>1, ThreadKeepsHookReady DEF GameThread
<1>3. Ways' /\ BlocksTyped' /\ LoaderReady' /\ UiReady' /\ WorkerReady' /\ PlanReady'
  BY <1>1 DEF Same, owned, touchVars, Ready, Ways, BlocksTyped, LoaderReady, UiReady,
     WorkerReady, PlanReady, Fit
<1> QED
  BY <1>2, <1>3 DEF Ready

\* Every step keeps what is ready.
LEMMA ReadyKept ==
  ASSUME Ready, IInv, [Next]_vars
  PROVE  Ready'
<1>1. CASE RemoteStep /\ UNCHANGED <<stubVars, touchVars>>
  BY <1>1, RemoteKeepsReady DEF IInv, Hook
<1>2. CASE TouchStep /\ UNCHANGED <<remoteVars, stubVars>>
  BY <1>2, TouchKeepsReady DEF IInv, Hook
<1>3. CASE Unwind
  BY <1>3, UnwindKeepsReady DEF IInv, Hook
<1>4. CASE OwnedStep
  BY <1>4, OwnedKeepsReady DEF IInv, Hook
<1>5. CASE ChildThreads
  BY <1>5, RemoteThreadsKeepReady, ThreadKeepsReady DEF ChildThreads, IInv
<1>6. CASE ForeignSite /\ UNCHANGED <<remoteVars, stubVars>>
  BY <1>6 DEF ForeignSite, owned, remoteVars, stubVars, Ready, Ways, BlocksTyped,
     LoaderReady, UiReady, WorkerReady, HookReady, PlanReady, Fit, TouchCalls, Early, Late
<1>7. CASE UNCHANGED vars
  BY <1>7 DEF vars, owned, remoteVars, stubVars, touchVars, Ready, Ways, BlocksTyped,
     LoaderReady, UiReady, WorkerReady, HookReady, PlanReady, Fit
<1> QED
  BY <1>1, <1>2, <1>3, <1>4, <1>5, <1>6, <1>7 DEF Next, Launcher

\* What is ready at each place is inductive, with what was known before.
THEOREM SetupReady == Spec => []Ready
<1>1. Init => Ready
  BY InitReady
<1>2. Ready /\ IInv /\ [Next]_vars => Ready'
  BY ReadyKept
<1> QED
  BY <1>1, <1>2, SetupInvariance, PTL DEF Spec

\* However waits end and calls fail, no thread in the child loses its code or
\* its context, and a function about to be restored can be written.
THEOREM MemoryOutlivesThreads == Spec => []ThreadsKeepTheirMemory
<1>1. Ready => ThreadsKeepTheirMemory
  BY DEF Ready, LoaderReady, UiReady, HookReady, ThreadsKeepTheirMemory
<1> QED
  BY <1>1, SetupReady, PTL

\* Whatever failed before, a child that is let go has been prepared completely.
THEOREM ResumedComplete == Spec => ResumedChildIsComplete
<1> DEFINE Complete ==
     child' = "running" /\ child = "suspended" =>
       /\ block.loader.mem \in {"none", "freed"}
       /\ kind = "SR" => uiState = "mobile" /\ remote.worker # "none"
       /\ kind = "legacy" => target.bytes = "jump" /\ block.ui.retained
       /\ kind = "GI" => /\ \A s \in Sites : site[s] = "patched"
                         /\ open = {}
                         /\ helper = [mem |-> "RX", owned |-> FALSE]
<1>1. ASSUME Ready, IInv, [Next]_vars PROVE Complete
  <2> SUFFICES ASSUME child' = "running", child = "suspended" PROVE Complete
    OBVIOUS
  <2>1. pc = "resume"
    <3>1. CASE RemoteStep
      BY <1>1, <3>1, RemoteQuiet DEF IInv, Hook
    <3>2. CASE TouchStep
      BY <3>2, TouchQuiet
    <3>3. CASE Unwind \/ OwnedStep
      BY <3>3 DEF Unwind, Unwound, Proceed, OwnedStep, Resume, ResumeFails, Throw, Terminate
    <3>4. CASE ChildThreads \/ ForeignSite \/ UNCHANGED vars
      BY <3>4 DEF ChildThreads, RemoteThread, InitThreadEnds, LoaderEnds, Worker,
         WorkerWrites, WorkerMarks, WorkerWakes, GameThread, Runs, Same, GameSetsUi,
         ForeignSite, owned, vars
    <3> QED
      BY <1>1, <3>1, <3>2, <3>3, <3>4 DEF Next, Launcher
  <2>2. helper.mem = "RX" /\ ~helper.owned => helper = [mem |-> "RX", owned |-> FALSE]
    <3>1. helper \in Helpers
      BY <1>1 DEF Ready, PlanReady
    <3> QED
      BY <3>1 DEF Helpers
  <2> QED
    BY <1>1, <2>1, <2>2 DEF Ready, LoaderReady, WorkerReady, HookReady, PlanReady
<1>2. Ready /\ IInv /\ [Next]_vars => [Complete]_vars
  BY <1>1
<1> QED
  BY <1>2, SetupReady, SetupInvariance, PTL DEF Spec, ResumedChildIsComplete
=============================================================================
