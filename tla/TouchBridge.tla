----------------------------- MODULE TouchBridge -----------------------------
(***************************************************************************)
(* The payload's bridge once its hooks are installed                       *)
(* (games/zzz/src/payload.cpp): three threads share touch::State under the *)
(* input lock and the flags enabled, ui_fault and game_window without it.  *)
(*                                                                         *)
(*   window thread  window_proc: touches, focus loss, UI faults, destroy   *)
(*   worker thread  worker(): enables the bridge, then watches it          *)
(*   game thread    calls through the three slots: hooked_count,           *)
(*                  hooked_touch, hooked_supported, or past them to Unity  *)
(*                                                                         *)
(* A critical section of the input lock is one step; every access to a     *)
(* flag outside it is a step of its own.  Frame ids only grow, so "the     *)
(* snapshot belongs to the current frame" is a Boolean; time matters only  *)
(* to the 250 ms rule of record_input and is the Boolean `quiet`.          *)
(***************************************************************************)
EXTENDS ContactOps

CONSTANTS
  Ids,        \* Windows touch or pointer ids
  Sources,    \* the kinds of messages Windows sends: WmTouch, WmPointer or both
  MaxDowns,   \* bound on accepted contacts (int next_id)
  Contested,  \* the icall slots another writer may overwrite
  Unwritable, \* the icall slots whose page may refuse to become writable
  Called      \* the icall slots the game calls through

WmTouch == 1
WmPointer == 2
NoSource == 0

Slots == {"count", "touch", "supported"}

ASSUME SourcesAssumption == Sources \subseteq {WmTouch, WmPointer}
ASSUME KeysAssumption == Keys = Sources \X Ids
ASSUME SlotsAssumption ==
  Contested \subseteq Slots /\ Unwritable \subseteq Slots /\ Called \subseteq Slots

VARIABLES
  contacts, nextId,           \* input: the touch::State
  activeKeys, eventSource,    \* active_keys, event_source
  quiet,                      \* now - last_source_time >= 250
  snapshot,                   \* current_snapshot
  snapshotCurrent,            \* snapshot_frame = get_frame()
  snapshotIsBridge, echoFrames,
  enabled, uiFault, window,   \* window: game_window is not null
  slots,                      \* what each icall slot holds
  reportedConflict,
  win, worker,                \* where the window and worker threads are
  sized,                      \* the game reports a positive width and height
  game,                       \* where the game's thread is
  answer, mixed, idleFrames   \* history: the hooks' answer in this frame; whether
                              \* Unity answered after the bridge in it; frames
                              \* prepared since touches were shown

inputVars == <<contacts, nextId, activeKeys, eventSource, quiet>>
shownVars == <<snapshot, snapshotCurrent, snapshotIsBridge, echoFrames,
               sized, answer, idleFrames>>
frameVars == <<shownVars, game, mixed>>
flagVars == <<enabled, uiFault, window>>
workerVars == <<slots, reportedConflict, worker>>
vars == <<inputVars, frameVars, flagVars, workerVars, win>>

SourceOf(key) == key[1]

\* One WM_TOUCH entry or WM_POINTER message; only pointers carry a cancel flag.
Events ==
  {e \in [key : Keys, position : Positions,
          down : BOOLEAN, up : BOOLEAN, canceled : BOOLEAN] :
     /\ ~(e.down /\ e.up)
     /\ e.canceled => SourceOf(e.key) = WmPointer}

Idle == [at |-> "idle"]

NoAnswer == [called |-> FALSE, bridge |-> FALSE, touches |-> NoTouches]

Init ==
  /\ contacts = NoTouches
  /\ nextId = 1
  /\ activeKeys = {}
  /\ eventSource = NoSource
  /\ quiet = TRUE
  /\ snapshot = NoTouches
  /\ snapshotCurrent = FALSE
  /\ snapshotIsBridge = FALSE
  /\ echoFrames = 0
  /\ enabled = FALSE
  /\ uiFault = FALSE
  /\ window = TRUE
  /\ slots = [s \in Slots |-> "hook"]
  /\ reportedConflict = FALSE
  /\ win = Idle
  /\ worker = "read_fault"
  /\ sized = TRUE
  /\ game = "idle"
  /\ answer = NoAnswer
  /\ mixed = FALSE
  /\ idleFrames = 3

-----------------------------------------------------------------------------
(* Window thread.                                                          *)

\* Mutant: the keys are forgotten but the contacts stay live.
CancelContactsKeysOnly ==
  /\ activeKeys' = {}
  /\ UNCHANGED <<contacts, nextId, eventSource, quiet>>

\* cancel_contacts(), one critical section.
CancelContacts ==
  /\ contacts' = CancelAll(contacts)
  /\ activeKeys' = {}
  /\ UNCHANGED <<nextId, eventSource, quiet>>

WinGoes(from, to) == win = from /\ win' = to

\* Mutant: `enabled` is not tested.
RecordInputUnchecked(e) ==
  /\ WinGoes(Idle, [at |-> "record", event |-> e])
  /\ UNCHANGED <<inputVars, frameVars, flagVars, workerVars>>

\* window_proc and record_input test `enabled` before taking the lock.
RecordInputCheck(e) ==
  /\ WinGoes(Idle, [at |-> "record", event |-> e])
  /\ enabled
  /\ UNCHANGED <<inputVars, frameVars, flagVars, workerVars>>

\* Mutant: the sources are switched under active keys.
SourceBlockedByTime(e) ==
  SourceOf(e.key) # eventSource /\ (~e.down \/ ~quiet)

\* The other source may take over only with a down, when no key is active and
\* the previous source has been silent for 250 ms.
SourceBlocked(e) ==
  /\ SourceOf(e.key) # eventSource
  /\ ~e.down \/ activeKeys # {} \/ ~quiet

\* contacts once the event's down (or move) has been applied.
Pressed(e) ==
  IF ~e.down THEN Move(contacts, e.key, e.position)
  ELSE IF IsDuplicate(contacts, e.key) \/ IsFull(contacts) THEN contacts
  ELSE Push(contacts, nextId, e.key, e.position)

\* record_input inside the lock.
RecordInputApply ==
  /\ win.at = "record"
  /\ win' = Idle
  /\ LET e == win.event
         over == e.up \/ e.canceled
     IN IF SourceBlocked(e)
        THEN UNCHANGED inputVars
        ELSE /\ eventSource' = SourceOf(e.key)
             /\ quiet' = FALSE
             /\ contacts' = IF over
                            THEN Up(Pressed(e), e.key, e.position, e.canceled)
                            ELSE Pressed(e)
             /\ nextId' = IF DOMAIN Pressed(e) = DOMAIN contacts
                          THEN nextId ELSE nextId + 1
             /\ nextId' <= MaxDowns + 1
             /\ activeKeys' = (activeKeys \cup IF e.down THEN {e.key} ELSE {})
                                \ IF over THEN {e.key} ELSE {}
  /\ UNCHANGED <<frameVars, flagVars, workerVars>>

\* WM_KILLFOCUS, WM_CANCELMODE, WM_POINTERCAPTURECHANGED.
FocusLost ==
  /\ win = Idle
  /\ CancelContacts
  /\ UNCHANGED <<frameVars, flagVars, workerVars, win>>

\* maintain_ui met a memory fault in a UI call: ui_fault, enabled, contacts.
UiFaultRaise ==
  /\ ~uiFault
  /\ WinGoes(Idle, [at |-> "fault_disable"])
  /\ uiFault' = TRUE
  /\ UNCHANGED <<inputVars, frameVars, enabled, window, workerVars>>

UiFaultDisable ==
  /\ WinGoes([at |-> "fault_disable"], [at |-> "fault_cancel"])
  /\ enabled' = FALSE
  /\ UNCHANGED <<inputVars, frameVars, uiFault, window, workerVars>>

UiFaultCancel ==
  /\ WinGoes([at |-> "fault_cancel"], Idle)
  /\ CancelContacts
  /\ UNCHANGED <<frameVars, flagVars, workerVars>>

\* WM_NCDESTROY, the last message: contacts, enabled, game_window.
DestroyCancel ==
  /\ WinGoes(Idle, [at |-> "destroy_disable"])
  /\ CancelContacts
  /\ UNCHANGED <<frameVars, flagVars, workerVars>>

DestroyDisable ==
  /\ WinGoes([at |-> "destroy_disable"], [at |-> "destroy_window"])
  /\ enabled' = FALSE
  /\ UNCHANGED <<inputVars, frameVars, uiFault, window, workerVars>>

DestroyWindow ==
  /\ WinGoes([at |-> "destroy_window"], [at |-> "gone"])
  /\ window' = FALSE
  /\ UNCHANGED <<inputVars, frameVars, enabled, uiFault, workerVars>>

\* The window procedure goes on with a message it has begun.
MessageGoesOn ==
  \/ RecordInputApply \/ UiFaultDisable \/ UiFaultCancel
  \/ DestroyDisable \/ DestroyWindow

WindowThread ==
  \/ \E e \in Events : RecordInputCheck(e)
  \/ FocusLost \/ UiFaultRaise \/ DestroyCancel
  \/ MessageGoesOn

-----------------------------------------------------------------------------
(* Worker thread, from `enabled = !ui_fault && game_window != nullptr`.    *)

WorkerGoes(from, to) == worker = from /\ worker' = to

ReadFault ==
  /\ WorkerGoes("read_fault", IF uiFault THEN "store_false" ELSE "read_window")
  /\ UNCHANGED <<inputVars, frameVars, flagVars, slots, reportedConflict, win>>

ReadWindow ==
  /\ WorkerGoes("read_window", IF window THEN "store_true" ELSE "store_false")
  /\ UNCHANGED <<inputVars, frameVars, flagVars, slots, reportedConflict, win>>

StoreEnabled ==
  /\ worker \in {"store_true", "store_false"}
  /\ enabled' = (worker = "store_true")
  /\ worker' = "loop"
  /\ UNCHANGED <<inputVars, frameVars, uiFault, window, slots,
                 reportedConflict, win>>

\* "A window can disappear concurrently with the initial enabled store."
LoopReadEnabled ==
  /\ WorkerGoes("loop", IF enabled THEN "loop_health" ELSE "loop_slots")
  /\ UNCHANGED <<inputVars, frameVars, flagVars, slots, reportedConflict, win>>

\* Mutant: only the fault is looked at again.
LoopReadFaultOnly ==
  /\ WorkerGoes("loop_health",
                IF uiFault THEN "health_disable" ELSE "loop_slots")
  /\ UNCHANGED <<inputVars, frameVars, flagVars, slots, reportedConflict, win>>

LoopReadHealth ==
  /\ WorkerGoes("loop_health",
                IF uiFault \/ ~window THEN "health_disable" ELSE "loop_slots")
  /\ UNCHANGED <<inputVars, frameVars, flagVars, slots, reportedConflict, win>>

HealthDisable ==
  /\ WorkerGoes("health_disable", "health_cancel")
  /\ enabled' = FALSE
  /\ UNCHANGED <<inputVars, frameVars, uiFault, window, slots,
                 reportedConflict, win>>

HealthCancel ==
  /\ WorkerGoes("health_cancel", "loop_slots")
  /\ CancelContacts
  /\ UNCHANGED <<frameVars, flagVars, slots, reportedConflict, win>>

\* Another writer changed the table: report once, disable, cancel, let go.
ReadSlots ==
  /\ worker = "loop_slots"
  /\ IF ~reportedConflict /\ \E s \in Slots : slots[s] # "hook"
     THEN worker' = "conflict_disable" /\ reportedConflict' = TRUE
     ELSE worker' = "loop" /\ UNCHANGED reportedConflict
  /\ UNCHANGED <<inputVars, frameVars, flagVars, slots, win>>

ConflictDisable ==
  /\ WorkerGoes("conflict_disable", "conflict_cancel")
  /\ enabled' = FALSE
  /\ UNCHANGED <<inputVars, frameVars, uiFault, window, slots,
                 reportedConflict, win>>

ConflictCancel ==
  /\ WorkerGoes("conflict_cancel", "release_count")
  /\ CancelContacts
  /\ UNCHANGED <<frameVars, flagVars, slots, reportedConflict, win>>

\* exchange_slot: the slot is given back only if it still holds our hook, and
\* not if its page cannot be made writable.
Release(slot) ==
  \/ slots' = [slots EXCEPT ![slot] = IF @ = "hook" THEN "original" ELSE @]
  \/ slot \in Unwritable /\ UNCHANGED slots

ReleaseSlot(slot, from, to) ==
  /\ WorkerGoes(from, to)
  /\ Release(slot)
  /\ UNCHANGED <<inputVars, frameVars, flagVars, reportedConflict, win>>

ReleaseSlots ==
  \/ ReleaseSlot("count", "release_count", "release_touch")
  \/ ReleaseSlot("touch", "release_touch", "release_supported")
  \/ ReleaseSlot("supported", "release_supported", "loop")

WorkerThread ==
  \/ ReadFault \/ ReadWindow \/ StoreEnabled
  \/ LoopReadEnabled \/ LoopReadHealth \/ HealthDisable \/ HealthCancel
  \/ ReadSlots \/ ConflictDisable \/ ConflictCancel \/ ReleaseSlots

-----------------------------------------------------------------------------
(* Game thread.                                                            *)

\* A new Unity frame; the window may be minimized (no positive size).
GameFrame(hasSize) ==
  /\ game = "idle"
  /\ snapshotCurrent' = FALSE
  /\ sized' = hasSize
  /\ answer' = NoAnswer
  /\ mixed' = FALSE
  /\ UNCHANGED <<snapshot, snapshotIsBridge, echoFrames, idleFrames, game>>
  /\ UNCHANGED <<inputVars, flagVars, workerVars, win>>

GameGoes(from, to) ==
  /\ game = from
  /\ game' = to
  /\ UNCHANGED <<inputVars, shownVars, flagVars, workerVars, win>>

\* The game calls what the count or the touch slot holds: our hook, Unity's own
\* function, or a competing writer's, which may chain to our hook.
CallTouches(slot) ==
  \/ slots[slot] # "original" /\ GameGoes("idle", "hook") /\ UNCHANGED mixed
  \/ slots[slot] # "hook" /\ GameGoes("idle", "idle") /\ mixed' = (mixed \/ answer.bridge)

\* Mutant: the counter is decremented before it is looked at.
PrepareEarlyEcho ==
  LET touches == SnapshotOf(contacts)
      echo == IF touches # NoTouches THEN 2
              ELSE IF echoFrames > 0 THEN echoFrames - 1 ELSE 0
  IN /\ contacts' = Framed(contacts)
     /\ snapshot' = touches
     /\ snapshotCurrent' = TRUE
     /\ snapshotIsBridge' = (touches # NoTouches \/ echo > 0)
     /\ echoFrames' = echo
     /\ idleFrames' = IF touches # NoTouches THEN 0
                      ELSE IF idleFrames < 3 THEN idleFrames + 1 ELSE 3

\* prepare_snapshot() for a frame not yet prepared.
Prepare ==
  LET touches == SnapshotOf(contacts)
      echo == IF touches # NoTouches THEN 2 ELSE echoFrames
  IN /\ contacts' = Framed(contacts)
     /\ snapshot' = touches
     /\ snapshotCurrent' = TRUE
     /\ snapshotIsBridge' = (touches # NoTouches \/ echo > 0)
     /\ echoFrames' = IF touches = NoTouches /\ echo > 0 THEN echo - 1 ELSE echo
     /\ idleFrames' = IF touches # NoTouches THEN 0
                      ELSE IF idleFrames < 3 THEN idleFrames + 1 ELSE 3

\* Mutant: the frame id is not compared.
PrepareEveryCall ==
  IF ~sized
  THEN UNCHANGED <<contacts, snapshot, snapshotCurrent, snapshotIsBridge,
                   echoFrames, idleFrames>>
  ELSE Prepare

PrepareSnapshot ==
  IF snapshotCurrent \/ ~sized
  THEN UNCHANGED <<contacts, snapshot, snapshotCurrent, snapshotIsBridge,
                   echoFrames, idleFrames>>
  ELSE Prepare

\* The critical section of hooked_count and of hooked_touch: prepare, then answer
\* from the snapshot or from the original callback.  The slot the call came
\* through may have been exchanged meanwhile.
HookCall ==
  /\ game = "hook"
  /\ game' = "idle"
  /\ PrepareSnapshot
  /\ answer' = [called |-> TRUE, bridge |-> snapshotIsBridge',
                touches |-> IF snapshotIsBridge' THEN snapshot' ELSE NoTouches]
  /\ UNCHANGED <<nextId, activeKeys, eventSource, quiet, sized, mixed,
                 flagVars, workerVars, win>>

\* hooked_supported: `enabled`, then the contacts, then Unity's own answer.
CallSupported ==
  /\ "supported" \in Called /\ slots["supported"] # "original"
  /\ GameGoes("idle", "supported")
  /\ UNCHANGED mixed

SupportedReadsEnabled ==
  /\ GameGoes("supported", IF enabled THEN "idle" ELSE "supported_contacts")
  /\ UNCHANGED mixed

SupportedReadsContacts ==
  /\ GameGoes("supported_contacts",
              IF contacts # NoTouches THEN "idle" ELSE "ask_unity")
  /\ UNCHANGED mixed

SupportedAsksUnity ==
  /\ GameGoes("ask_unity", "idle")
  /\ UNCHANGED mixed

\* A hook that was called goes on.
CallGoesOn ==
  \/ HookCall
  \/ SupportedReadsEnabled \/ SupportedReadsContacts \/ SupportedAsksUnity

GameThread ==
  \/ \E hasSize \in BOOLEAN : GameFrame(hasSize)
  \/ \E slot \in Called \ {"supported"} : CallTouches(slot)
  \/ CallSupported
  \/ CallGoesOn

\* The game reaches a hook without the help of another writer.
HookedSlots == {slot \in Called \ {"supported"} : slots[slot] = "hook"}
Hooked == HookedSlots # {}

-----------------------------------------------------------------------------
(* Outside the payload.                                                    *)

TimePasses ==
  /\ ~quiet
  /\ quiet' = TRUE
  /\ UNCHANGED <<contacts, nextId, activeKeys, eventSource>>
  /\ UNCHANGED <<frameVars, flagVars, workerVars, win>>

CompetingWriter(slot) ==
  /\ slots[slot] # "other"
  /\ slots' = [slots EXCEPT ![slot] = "other"]
  /\ UNCHANGED <<inputVars, frameVars, flagVars, reportedConflict, worker, win>>

Environment == TimePasses \/ \E slot \in Contested : CompetingWriter(slot)

Next == WindowThread \/ WorkerThread \/ GameThread \/ Environment

Spec == Init /\ [][Next]_vars

\* The worker polls for ever, a window procedure that started a message and a
\* hook that was called end it, and a game with a visible window keeps asking
\* for touches.
Fairness ==
  /\ WF_vars(WorkerThread)
  /\ WF_vars(MessageGoesOn)
  /\ SF_vars(GameFrame(TRUE))
  /\ WF_vars(CallGoesOn)
  /\ SF_vars(sized /\ ~snapshotCurrent /\ \E slot \in HookedSlots : CallTouches(slot))

LiveSpec == Spec /\ Fairness

-----------------------------------------------------------------------------
\* Every variable has the type its declaration gives it, the downs counted.
TypeOK ==
  /\ DOMAIN contacts \subseteq 1 .. nextId - 1
  /\ \A f \in DOMAIN contacts : contacts[f] \in Contact
  /\ nextId \in Nat \ {0}
  /\ activeKeys \subseteq Keys
  /\ eventSource \in Sources \cup {NoSource}
  /\ \A f \in DOMAIN snapshot : snapshot[f] \in Touch
  /\ {quiet, snapshotCurrent, snapshotIsBridge, enabled, uiFault, window,
      reportedConflict, sized, answer.called, answer.bridge, mixed} \subseteq BOOLEAN
  /\ game \in {"idle", "hook", "supported", "supported_contacts", "ask_unity"}
  /\ echoFrames \in 0 .. 2
  /\ idleFrames \in 0 .. 3
  /\ slots \in [Slots -> {"hook", "original", "other"}]
  /\ win.at \in {"idle", "record", "fault_disable", "fault_cancel",
                 "destroy_disable", "destroy_window", "gone"}
  /\ win.at = "record" => win.event \in Events
  /\ worker \in {"read_fault", "read_window", "store_true", "store_false",
                 "loop", "loop_health", "health_disable", "health_cancel",
                 "loop_slots", "conflict_disable", "conflict_cancel",
                 "release_count", "release_touch", "release_supported"}

\* Windows sends one finger both as WM_TOUCH and as WM_POINTER.  Whatever the
\* order of the two streams, cancellations and lost releases, the live
\* contacts all come from one of them.
OneEventStream ==
  \A f, g \in Live(contacts) :
    SourceOf(contacts[f].key) = SourceOf(contacts[g].key)

\* active_keys may name keys without a contact (a down dropped at capacity)
\* but never misses a live one: the source cannot change under a live touch.
LiveKeysAreActive == \A f \in Live(contacts) : contacts[f].key \in activeKeys

\* Within a frame every call that reaches hooked_count or hooked_touch is given
\* the same answer, whatever the other threads do between the calls, a conflict
\* and its cancellation included.
OneAnswerPerFrame == [][answer.called /\ answer'.called => answer' = answer]_vars

\* payload.cpp: "Never mix indices from the Windows snapshot and Unity's native
\* touch array."  The hooks do not; but the slots are given back one by one after
\* a conflict, so that one frame may be counted by the bridge and read in Unity.
OneSourcePerFrame == ~mixed

\* Touches shown, the bridge answers for exactly two more frames, then the
\* native callbacks do.
EchoWindow == snapshotIsBridge <=> idleFrames <= 2

\* hooked_supported, which reads `enabled` and the contacts one after the other,
\* leaves the answer to Unity only when no touch is being shown.  (A call made
\* after its slot was given back does not reach it.)
ShownTouchesAreSupported == game = "ask_unity" => snapshot = NoTouches

\* After the worker reported a conflict and canceled the contacts.
ConflictHandled ==
  reportedConflict /\ worker \notin {"conflict_disable", "conflict_cancel"}

\* docs/ZZZ_INTERNALS.md: "A conflict disables input, cancels contacts".  An
\* input that passed record_input's test before the disable adds its contact
\* after the cancellation, and the release that would end it is then ignored.
ConflictLeavesNoLiveContact == ConflictHandled => Live(contacts) = {}

\* What does hold: at most one contact can slip through, the one of the single
\* message the window thread was recording.
AtMostOneLateContact ==
  ConflictHandled =>
    Cardinality(Live(contacts)) + (IF win.at = "record" THEN 1 ELSE 0) <= 1

\* A fault, a destroyed window or a conflict ends with the bridge disabled for
\* good, although the worker's first store of `enabled` may come after them.
DisabledForGood ==
  (uiFault \/ ~window \/ reportedConflict) ~> [](~enabled)

\* A contact that ended reaches the game and is retired, as long as the game
\* still calls a hook: nothing keeps touch "supported" after the last finger.
EndedContactsDrain ==
  \A f \in 1 .. MaxDowns :
    (f \in DOMAIN contacts /\ contacts[f].terminal) ~>
      \/ f \notin DOMAIN contacts
      \/ ~Hooked

\* A quick tap is not lost: a contact waiting for its first frame is reported
\* to the game as Began, as long as the game still calls a hook.
TapBegins ==
  \A f \in 1 .. MaxDowns :
    (f \in DOMAIN contacts /\ ~contacts[f].began) ~>
      \/ f \in DOMAIN snapshot /\ snapshot[f].phase = "Began"
      \/ ~Hooked
=============================================================================
