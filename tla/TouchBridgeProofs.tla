-------------------------- MODULE TouchBridgeProofs --------------------------
(***************************************************************************)
(* Proofs about the bridge, for every set of ids, capacity, number of      *)
(* downs and sets of contested, unwritable and called slots.               *)
(***************************************************************************)
EXTENDS TouchBridge, FiniteSetTheorems, TLAPS

\* The types that the other invariants need.
Typed ==
  /\ DOMAIN contacts \subseteq 1 .. nextId - 1
  /\ \A f \in DOMAIN contacts : contacts[f] \in Contact
  /\ nextId \in Nat \ {0}
  /\ activeKeys \subseteq Keys
  /\ win.at = "record" => win.event \in Events

\* All active keys belong to the source that owns the bridge.
OneSource == \A k \in activeKeys : SourceOf(k) = eventSource

\* A conflict is reported once the initial store is behind the worker, and
\* from its disabling step on nothing enables the bridge again.
ConflictIsFinal ==
  /\ worker \in {"conflict_disable", "conflict_cancel", "release_count",
                 "release_touch", "release_supported"} => reportedConflict
  /\ reportedConflict =>
       worker \notin {"read_fault", "read_window", "store_true", "store_false"}
  /\ reportedConflict /\ worker # "conflict_disable" => ~enabled

\* The contact that slipped through is alone, and with it in place no message
\* is in flight; with a message in flight there is no live contact yet.
LateIsAlone ==
  ConflictHandled =>
    /\ \A f, g \in Live(contacts) : f = g
    /\ win.at = "record" => Live(contacts) = {}

IInv ==
  Typed /\ LiveKeysAreActive /\ OneSource /\ ConflictIsFinal /\ LateIsAlone

-----------------------------------------------------------------------------
(* What each operation of State does to the live contacts.                 *)

\* Live contacts of ds are live contacts of cs under the same key.
NoneRevived(cs, ds) ==
  /\ Live(ds) \subseteq Live(cs)
  /\ \A f \in Live(ds) : ds[f].key = cs[f].key

\* ds has the fingers of cs, no more of them are live, and what the last frame
\* has recorded is not touched.
OnlyEnds(cs, ds) ==
  /\ DOMAIN ds = DOMAIN cs
  /\ \A f \in DOMAIN cs : /\ ds[f] \in Contact
                         /\ ds[f].began = cs[f].began
                         /\ ds[f].last = cs[f].last
                         /\ ds[f].emitted = cs[f].emitted
  /\ NoneRevived(cs, ds)

\* move moves live contacts and leaves the rest.
LEMMA MoveOnlyEnds ==
  ASSUME NEW cs, \A f \in DOMAIN cs : cs[f] \in Contact,
         NEW key \in Keys, NEW p \in Positions
  PROVE  OnlyEnds(cs, Move(cs, key, p))
BY DEF OnlyEnds, NoneRevived, Move, LiveWith, Live, Contact

\* up ends contacts and brings none.
LEMMA UpOnlyEnds ==
  ASSUME NEW cs, \A f \in DOMAIN cs : cs[f] \in Contact,
         NEW key \in Keys, NEW p \in Positions, NEW cancel \in BOOLEAN
  PROVE  OnlyEnds(cs, Up(cs, key, p, cancel))
BY DEF OnlyEnds, NoneRevived, Up, LiveWith, Live, Contact, TerminalPhases

\* After cancel_all the same fingers are there and none is live.
LEMMA CancelAllEndsAll ==
  ASSUME NEW cs, \A f \in DOMAIN cs : cs[f] \in Contact
  PROVE  OnlyEnds(cs, CancelAll(cs)) /\ Live(CancelAll(cs)) = {}
<1>1. ASSUME NEW f \in DOMAIN cs
      PROVE  /\ CancelAll(cs)[f] \in Contact /\ CancelAll(cs)[f].terminal
             /\ CancelAll(cs)[f].began = cs[f].began
             /\ CancelAll(cs)[f].last = cs[f].last
             /\ CancelAll(cs)[f].emitted = cs[f].emitted
  <2>1. cs[f] \in Contact /\ (f \notin Live(cs) => cs[f].terminal)
    BY DEF Live
  <2> QED
    BY <2>1 DEF CancelAll, Contact, TerminalPhases
<1>2. DOMAIN CancelAll(cs) = DOMAIN cs
  BY DEF CancelAll
<1> QED
  BY <1>1, <1>2 DEF OnlyEnds, NoneRevived, Live

\* After up() no live contact has the key that went up.
LEMMA UpEndsKey ==
  ASSUME NEW cs, \A f \in DOMAIN cs : cs[f] \in Contact,
         NEW key \in Keys, NEW p \in Positions, NEW cancel \in BOOLEAN,
         NEW f \in Live(Up(cs, key, p, cancel))
  PROVE  cs[f].key # key
<1>1. f \in DOMAIN cs /\ ~Up(cs, key, p, cancel)[f].terminal
  BY DEF Live, Up
<1>2. CASE f \in LiveWith(cs, key)
  <2>1. Up(cs, key, p, cancel)[f].terminal = TRUE
    BY <1>1, <1>2 DEF Up, Contact
  <2> QED
    BY <1>1, <2>1
<1>3. CASE f \notin LiveWith(cs, key)
  BY <1>1, <1>3 DEF Up, LiveWith, Live
<1> QED
  BY <1>2, <1>3

\* A frame revives nothing and keeps contacts well typed.
LEMMA FramedRevivesNone ==
  ASSUME NEW cs, \A f \in DOMAIN cs : cs[f] \in Contact
  PROVE  /\ NoneRevived(cs, Framed(cs))
         /\ DOMAIN Framed(cs) \subseteq DOMAIN cs
         /\ \A f \in DOMAIN Framed(cs) : Framed(cs)[f] \in Contact
<1>1. \A f \in DOMAIN Framed(cs) :
        /\ f \in DOMAIN cs /\ cs[f] \in Contact
        /\ Framed(cs)[f] = Reported(cs[f])
  BY DEF Framed, Retained
<1>2. \A f \in DOMAIN Framed(cs) :
        /\ Framed(cs)[f] \in Contact
        /\ Framed(cs)[f].key = cs[f].key
        /\ Framed(cs)[f].terminal = cs[f].terminal
  <2>1. \A c \in Contact : /\ Reported(c) \in Contact
                           /\ Reported(c).key = c.key
                           /\ Reported(c).terminal = c.terminal
    BY DEF Reported, Contact
  <2> QED
    BY <1>1, <2>1
<1> QED
  BY <1>1, <1>2 DEF NoneRevived, Live

-----------------------------------------------------------------------------
\* The invariant holds when the payload is loaded.
LEMMA InitInv == Init => IInv
<1> SUFFICES ASSUME Init PROVE IInv
  OBVIOUS
<1>1. DOMAIN contacts = {} /\ Live(contacts) = {}
  BY DEF Init, NoTouches, Live
<1>2. win.at = "idle"
  BY DEF Init, Idle
<1> QED
  BY <1>1, <1>2
  DEF Init, IInv, Typed, LiveKeysAreActive, OneSource, ConflictIsFinal,
      LateIsAlone, ConflictHandled

\* A step that leaves the shared input alone and starts no recording.
LEMMA QuietStep ==
  ASSUME IInv, UNCHANGED inputVars, ConflictIsFinal',
         win' = win \/ win'.at # "record",
         ConflictHandled' => ConflictHandled
  PROVE  IInv'
<1>1. UNCHANGED <<contacts, nextId, activeKeys, eventSource>>
  BY DEF inputVars
<1>2. win'.at = "record" => win' = win
  OBVIOUS
<1>3. Typed'
  BY <1>1, <1>2 DEF IInv, Typed
<1>4. LiveKeysAreActive' /\ OneSource'
  BY <1>1 DEF IInv, LiveKeysAreActive, OneSource, Live
<1>5. LateIsAlone'
  BY <1>1, <1>2 DEF IInv, LateIsAlone, Live
<1> QED
  BY <1>3, <1>4, <1>5 DEF IInv

\* A step that cancels all contacts and starts no recording.
LEMMA CancelStep ==
  ASSUME IInv, CancelContacts, ConflictIsFinal',
         win' = win \/ win'.at # "record"
  PROVE  IInv'
<1>0. \A f \in DOMAIN contacts : contacts[f] \in Contact
  BY DEF IInv, Typed
<1>1. Live(contacts') = {} /\ OnlyEnds(contacts, contacts')
  BY <1>0, CancelAllEndsAll DEF CancelContacts
<1>2. win'.at = "record" => win' = win
  OBVIOUS
<1>3. Typed'
  BY <1>1, <1>2 DEF IInv, Typed, OnlyEnds, CancelContacts
<1>4. LiveKeysAreActive' /\ OneSource' /\ LateIsAlone'
  BY <1>1 DEF LiveKeysAreActive, OneSource, LateIsAlone, CancelContacts
<1> QED
  BY <1>3, <1>4 DEF IInv

\* What the down or the move of a message does to the contacts.
LEMMA PressedFacts ==
  ASSUME Typed, NEW e \in Events
  PROVE  /\ \A f \in DOMAIN Pressed(e) : Pressed(e)[f] \in Contact
         /\ DOMAIN contacts \subseteq DOMAIN Pressed(e)
         /\ DOMAIN Pressed(e) \subseteq DOMAIN contacts \cup {nextId}
         /\ Live(Pressed(e)) \subseteq Live(contacts) \cup {nextId}
         /\ \A f \in Live(Pressed(e)) :
              \/ f \in Live(contacts) /\ Pressed(e)[f].key = contacts[f].key
              \/ f = nextId /\ e.down /\ Pressed(e)[f].key = e.key
<1>0. /\ \A f \in DOMAIN contacts : contacts[f] \in Contact
      /\ nextId \in Fingers /\ nextId \notin DOMAIN contacts
      /\ e.key \in Keys /\ e.position \in Positions
  BY DEF Typed, Events, Fingers
<1>1. CASE ~e.down
  <2>1. Pressed(e) = Move(contacts, e.key, e.position)
    BY <1>1 DEF Pressed
  <2>2. OnlyEnds(contacts, Pressed(e))
    BY <1>0, <2>1, MoveOnlyEnds
  <2> QED
    BY <2>2 DEF OnlyEnds, NoneRevived
<1>2. CASE e.down /\ (IsDuplicate(contacts, e.key) \/ IsFull(contacts))
  <2>1. Pressed(e) = contacts
    BY <1>2 DEF Pressed
  <2> QED
    BY <1>0, <2>1
<1>3. CASE e.down /\ ~(IsDuplicate(contacts, e.key) \/ IsFull(contacts))
  <2>1. Pressed(e) = Push(contacts, nextId, e.key, e.position)
    BY <1>3 DEF Pressed
  <2>2. /\ DOMAIN Pressed(e) = DOMAIN contacts \cup {nextId}
        /\ \A f \in DOMAIN Pressed(e) : Pressed(e)[f] \in Contact
        /\ Live(Pressed(e)) = Live(contacts) \cup {nextId}
        /\ Pressed(e)[nextId].key = e.key
        /\ \A f \in DOMAIN contacts : Pressed(e)[f] = contacts[f]
    <3> DEFINE new == NewContact(e.key, e.position)
    <3>1. new \in Contact /\ ~new.terminal /\ new.key = e.key
      BY <1>0 DEF NewContact, Contact, TerminalPhases
    <3>2. /\ DOMAIN Pressed(e) = DOMAIN contacts \cup {nextId}
          /\ Pressed(e)[nextId] = new
          /\ \A f \in DOMAIN contacts : Pressed(e)[f] = contacts[f]
      BY <1>0, <2>1 DEF Push
    <3> QED
      BY <1>0, <3>1, <3>2 DEF Live
  <2>3. Live(contacts) \subseteq DOMAIN contacts
    BY DEF Live
  <2> QED
    BY <1>3, <2>2, <2>3
<1> QED
  BY <1>1, <1>2, <1>3

\* The critical section of record_input.
LEMMA RecordInputInv == IInv /\ RecordInputApply => IInv'
<1> SUFFICES ASSUME IInv, RecordInputApply PROVE IInv'
  OBVIOUS
<1> DEFINE e == win.event
           over == e.up \/ e.canceled
<1>1. /\ e \in Events /\ win.at = "record" /\ win' = Idle /\ Idle.at = "idle"
      /\ UNCHANGED <<enabled, reportedConflict, worker>>
  BY DEF IInv, Typed, RecordInputApply, Idle, flagVars, workerVars
<1>2. ConflictIsFinal' /\ (ConflictHandled' => ConflictHandled)
  BY <1>1 DEF IInv, ConflictIsFinal, ConflictHandled
<1>3. CASE SourceBlocked(e)
  <2>1. UNCHANGED inputVars
    BY <1>3 DEF RecordInputApply
  <2> QED
    BY <1>1, <1>2, <2>1, QuietStep
<1>4. CASE ~SourceBlocked(e)
  <2> DEFINE out == IF over THEN {e.key} ELSE {}
             in == IF e.down THEN {e.key} ELSE {}
  <2>1. /\ eventSource' = SourceOf(e.key)
        /\ contacts' = IF over
                       THEN Up(Pressed(e), e.key, e.position, e.canceled)
                       ELSE Pressed(e)
        /\ nextId' = IF DOMAIN Pressed(e) = DOMAIN contacts
                     THEN nextId ELSE nextId + 1
        /\ activeKeys' = (activeKeys \cup in) \ out
    BY <1>4 DEF RecordInputApply
  <2>2. /\ e.key \in Keys /\ e.position \in Positions /\ e.canceled \in BOOLEAN
        /\ Typed
    BY <1>1 DEF Events, IInv
  <2>3. /\ \A f \in DOMAIN Pressed(e) : Pressed(e)[f] \in Contact
        /\ DOMAIN contacts \subseteq DOMAIN Pressed(e)
        /\ DOMAIN Pressed(e) \subseteq DOMAIN contacts \cup {nextId}
        /\ Live(Pressed(e)) \subseteq Live(contacts) \cup {nextId}
        /\ \A f \in Live(Pressed(e)) :
             \/ f \in Live(contacts) /\ Pressed(e)[f].key = contacts[f].key
             \/ f = nextId /\ e.down /\ Pressed(e)[f].key = e.key
    BY <1>1, <2>2, PressedFacts
  <2>4. over => OnlyEnds(Pressed(e), contacts')
    BY <2>1, <2>2, <2>3, UpOnlyEnds
  <2>5. /\ DOMAIN contacts' = DOMAIN Pressed(e)
        /\ \A f \in DOMAIN contacts' : contacts'[f] \in Contact
        /\ NoneRevived(Pressed(e), contacts')
    BY <2>1, <2>3, <2>4 DEF OnlyEnds, NoneRevived, Live
  <2>6. over => \A f \in Live(contacts') : Pressed(e)[f].key # e.key
    BY <2>1, <2>2, <2>3, UpEndsKey
  <2>7. Typed'
    <3>1. DOMAIN contacts' \subseteq 1 .. nextId' - 1
      BY <2>1, <2>2, <2>3, <2>5 DEF Typed
    <3> QED
      BY <1>1, <2>1, <2>2, <2>5, <3>1 DEF Typed
  <2>8. LiveKeysAreActive'
    <3> SUFFICES ASSUME NEW f \in Live(contacts')
                 PROVE  contacts'[f].key \in activeKeys'
      BY DEF LiveKeysAreActive
    <3>1. f \in Live(Pressed(e)) /\ contacts'[f].key = Pressed(e)[f].key
      BY <2>5 DEF NoneRevived
    <3>2. contacts'[f].key \in activeKeys \cup in
      BY <2>3, <3>1 DEF IInv, LiveKeysAreActive
    <3>3. contacts'[f].key \notin out
      BY <2>6, <3>1
    <3> QED
      BY <2>1, <3>2, <3>3
  <2>9. OneSource'
    <3>1. SourceOf(e.key) = eventSource \/ activeKeys = {}
      BY <1>4 DEF SourceBlocked
    <3> QED
      BY <2>1, <3>1 DEF IInv, OneSource
  <2>10. LateIsAlone'
    <3> SUFFICES ASSUME ConflictHandled PROVE \A f, g \in Live(contacts') : f = g
      BY <1>1, <1>2 DEF LateIsAlone
    <3>1. Live(contacts) = {}
      BY <1>1 DEF IInv, LateIsAlone
    <3> QED
      BY <2>3, <2>5, <3>1 DEF NoneRevived
  <2> QED
    BY <1>2, <2>7, <2>8, <2>9, <2>10 DEF IInv
<1> QED
  BY <1>3, <1>4

\* A hook call only retires contacts.
LEMMA HookCallInv == IInv /\ HookCall => IInv'
<1> SUFFICES ASSUME IInv, HookCall PROVE IInv'
  OBVIOUS
<1>1. /\ UNCHANGED <<nextId, activeKeys, eventSource, win, enabled,
                     reportedConflict, worker>>
      /\ contacts' = contacts \/ contacts' = Framed(contacts)
  BY DEF HookCall, PrepareSnapshot, Prepare, flagVars, workerVars
<1>2. /\ NoneRevived(contacts, contacts')
      /\ DOMAIN contacts' \subseteq DOMAIN contacts
      /\ \A f \in DOMAIN contacts' : contacts'[f] \in Contact
  <2>1. \A f \in DOMAIN contacts : contacts[f] \in Contact
    BY DEF IInv, Typed
  <2> QED
    BY <1>1, <2>1, FramedRevivesNone DEF NoneRevived
<1>3. Typed'
  BY <1>1, <1>2 DEF IInv, Typed
<1>4. LiveKeysAreActive' /\ OneSource'
  BY <1>1, <1>2 DEF IInv, LiveKeysAreActive, OneSource, NoneRevived
<1>5. ConflictIsFinal' /\ LateIsAlone'
  BY <1>1, <1>2
  DEF IInv, ConflictIsFinal, LateIsAlone, ConflictHandled, NoneRevived
<1> QED
  BY <1>3, <1>4, <1>5 DEF IInv

\* The steps of a call that leave the game outside the hooks' critical section.
CallStep ==
  \/ \E slot \in Called \ {"supported"} : CallTouches(slot)
  \/ CallSupported
  \/ SupportedReadsEnabled \/ SupportedReadsContacts \/ SupportedAsksUnity

\* They change only where the game is and what is recorded of the frame.
LEMMA CallStepFacts ==
  ASSUME CallStep
  PROVE  /\ UNCHANGED <<inputVars, shownVars, flagVars, workerVars, win>>
         /\ game' \in {"idle", "hook", "supported", "supported_contacts", "ask_unity"}
         /\ game' = "ask_unity" => contacts = NoTouches
         /\ mixed' \in {mixed, mixed \/ answer.bridge}
BY DEF CallStep, CallTouches, CallSupported, SupportedReadsEnabled,
   SupportedReadsContacts, SupportedAsksUnity, GameGoes

\* Every step of a window's thread keeps the invariant.
LEMMA WindowThreadInv == IInv /\ WindowThread => IInv'
<1> SUFFICES ASSUME IInv, WindowThread PROVE IInv'
  OBVIOUS
<1> USE DEF WinGoes, Idle
<1>1. ASSUME NEW ev \in Events, RecordInputCheck(ev) PROVE IInv'
  <2>1. /\ enabled /\ win'.at = "record" /\ win'.event = ev
        /\ UNCHANGED <<contacts, nextId, activeKeys, eventSource, enabled,
                       reportedConflict, worker>>
    BY <1>1 DEF RecordInputCheck, inputVars, flagVars, workerVars
  <2>2. ~ConflictHandled
    BY <2>1 DEF IInv, ConflictIsFinal, ConflictHandled
  <2>3. Typed' /\ LiveKeysAreActive' /\ OneSource' /\ ConflictIsFinal'
    BY <2>1 DEF IInv, Typed, LiveKeysAreActive, OneSource, ConflictIsFinal, Live
  <2>4. LateIsAlone'
    BY <2>1, <2>2 DEF LateIsAlone, ConflictHandled
  <2> QED
    BY <2>3, <2>4 DEF IInv
<1>2. CASE RecordInputApply
  BY <1>2, RecordInputInv
<1>3. CASE FocusLost
  <2>1. CancelContacts /\ ConflictIsFinal' /\ win' = win
    BY <1>3 DEF FocusLost, IInv, ConflictIsFinal, flagVars, workerVars
  <2> QED
    BY <2>1, CancelStep
<1>4. CASE UiFaultRaise
  <2>1. /\ UNCHANGED inputVars /\ win'.at # "record"
        /\ ConflictIsFinal' /\ (ConflictHandled' => ConflictHandled)
    BY <1>4 DEF UiFaultRaise, IInv, ConflictIsFinal, ConflictHandled, workerVars
  <2> QED
    BY <2>1, QuietStep
<1>5. CASE UiFaultDisable
  <2>1. /\ UNCHANGED inputVars /\ win'.at # "record"
        /\ ConflictIsFinal' /\ (ConflictHandled' => ConflictHandled)
    BY <1>5 DEF UiFaultDisable, IInv, ConflictIsFinal, ConflictHandled, workerVars
  <2> QED
    BY <2>1, QuietStep
<1>6. CASE UiFaultCancel
  <2>1. CancelContacts /\ ConflictIsFinal' /\ win'.at # "record"
    BY <1>6 DEF UiFaultCancel, IInv, ConflictIsFinal, flagVars, workerVars
  <2> QED
    BY <2>1, CancelStep
<1>7. CASE DestroyCancel
  <2>1. CancelContacts /\ ConflictIsFinal' /\ win'.at # "record"
    BY <1>7 DEF DestroyCancel, IInv, ConflictIsFinal, flagVars, workerVars
  <2> QED
    BY <2>1, CancelStep
<1>8. CASE DestroyDisable
  <2>1. /\ UNCHANGED inputVars /\ win'.at # "record"
        /\ ConflictIsFinal' /\ (ConflictHandled' => ConflictHandled)
    BY <1>8 DEF DestroyDisable, IInv, ConflictIsFinal, ConflictHandled, workerVars
  <2> QED
    BY <2>1, QuietStep
<1>9. CASE DestroyWindow
  <2>1. /\ UNCHANGED inputVars /\ win'.at # "record"
        /\ ConflictIsFinal' /\ (ConflictHandled' => ConflictHandled)
    BY <1>9 DEF DestroyWindow, IInv, ConflictIsFinal, ConflictHandled, workerVars
  <2> QED
    BY <2>1, QuietStep
<1> QED
  BY <1>1, <1>2, <1>3, <1>4, <1>5, <1>6, <1>7, <1>8, <1>9
  DEF WindowThread, MessageGoesOn

\* Every step of the payload's worker keeps the invariant.
LEMMA WorkerThreadInv == IInv /\ WorkerThread => IInv'
<1> SUFFICES ASSUME IInv, WorkerThread PROVE IInv'
  OBVIOUS
<1> USE DEF WorkerGoes
<1>1. CASE ReadFault \/ ReadWindow \/ StoreEnabled
  <2>1. /\ UNCHANGED inputVars /\ win' = win
        /\ ConflictIsFinal' /\ (ConflictHandled' => ConflictHandled)
    BY <1>1 DEF ReadFault, ReadWindow, StoreEnabled, IInv, ConflictIsFinal,
                ConflictHandled, flagVars
  <2> QED
    BY <2>1, QuietStep
<1>2. CASE LoopReadEnabled \/ LoopReadHealth \/ HealthDisable
  <2>1. /\ UNCHANGED inputVars /\ win' = win
        /\ ConflictIsFinal' /\ (ConflictHandled' => ConflictHandled)
    BY <1>2 DEF LoopReadEnabled, LoopReadHealth, HealthDisable, IInv,
                ConflictIsFinal, ConflictHandled, flagVars
  <2> QED
    BY <2>1, QuietStep
<1>3. CASE HealthCancel
  <2>1. CancelContacts /\ ConflictIsFinal' /\ win' = win
    BY <1>3 DEF HealthCancel, IInv, ConflictIsFinal, flagVars
  <2> QED
    BY <2>1, CancelStep
<1>4. CASE ReadSlots \/ ConflictDisable
  <2>1. /\ UNCHANGED inputVars /\ win' = win
        /\ ConflictIsFinal' /\ (ConflictHandled' => ConflictHandled)
    BY <1>4 DEF ReadSlots, ConflictDisable, IInv, ConflictIsFinal,
                ConflictHandled, flagVars
  <2> QED
    BY <2>1, QuietStep
<1>5. CASE ConflictCancel
  <2>1. CancelContacts /\ ConflictIsFinal' /\ win' = win
    BY <1>5 DEF ConflictCancel, IInv, ConflictIsFinal, flagVars
  <2> QED
    BY <2>1, CancelStep
<1>6. CASE ReleaseSlots
  <2>1. /\ UNCHANGED inputVars /\ win' = win
        /\ ConflictIsFinal' /\ (ConflictHandled' => ConflictHandled)
    BY <1>6 DEF ReleaseSlots, ReleaseSlot, IInv, ConflictIsFinal,
                ConflictHandled, flagVars
  <2> QED
    BY <2>1, QuietStep
<1> QED
  BY <1>1, <1>2, <1>3, <1>4, <1>5, <1>6 DEF WorkerThread

\* The invariant is inductive.
LEMMA NextInv == IInv /\ [Next]_vars => IInv'
<1> SUFFICES ASSUME IInv, [Next]_vars PROVE IInv'
  OBVIOUS
<1>1. CASE WindowThread
  BY <1>1, WindowThreadInv
<1>2. CASE WorkerThread
  BY <1>2, WorkerThreadInv
<1>3. CASE HookCall
  BY <1>3, HookCallInv
<1>4. CASE \E hasSize \in BOOLEAN : GameFrame(hasSize)
  <2>1. /\ UNCHANGED inputVars /\ win' = win
        /\ ConflictIsFinal' /\ (ConflictHandled' => ConflictHandled)
    BY <1>4 DEF GameFrame, IInv, ConflictIsFinal, ConflictHandled, flagVars,
                workerVars
  <2> QED
    BY <2>1, QuietStep
<1>5. CASE TimePasses
  BY <1>5
  DEF TimePasses, IInv, Typed, LiveKeysAreActive, OneSource, ConflictIsFinal,
      LateIsAlone, ConflictHandled, Live, flagVars, workerVars
<1>6. CASE \E slot \in Contested : CompetingWriter(slot)
  <2>1. /\ UNCHANGED inputVars /\ win' = win
        /\ ConflictIsFinal' /\ (ConflictHandled' => ConflictHandled)
    BY <1>6 DEF CompetingWriter, IInv, ConflictIsFinal, ConflictHandled, flagVars
  <2> QED
    BY <2>1, QuietStep
<1>7. CASE UNCHANGED vars
  <2>1. /\ UNCHANGED inputVars /\ win' = win
        /\ ConflictIsFinal' /\ (ConflictHandled' => ConflictHandled)
    BY <1>7 DEF vars, IInv, ConflictIsFinal, ConflictHandled, flagVars, workerVars
  <2> QED
    BY <2>1, QuietStep
<1>8. CASE CallStep
  <2>1. /\ UNCHANGED inputVars /\ win' = win
        /\ ConflictIsFinal' /\ (ConflictHandled' => ConflictHandled)
    BY <1>8, CallStepFacts
    DEF IInv, ConflictIsFinal, ConflictHandled, flagVars, workerVars
  <2> QED
    BY <2>1, QuietStep
<1> QED
  BY <1>1, <1>2, <1>3, <1>4, <1>5, <1>6, <1>7, <1>8
  DEF Next, GameThread, CallGoesOn, Environment, CallStep

\* The invariant, the conjuncts of IInv together, holds in every reachable
\* state of the bridge (payload.cpp) for all ids, positions and capacities.
THEOREM Invariance == Spec => []IInv
BY InitInv, NextInv, PTL DEF Spec

-----------------------------------------------------------------------------
\* A live touch is always known to active_keys.
THEOREM LiveTouchesAreKnown == Spec => []LiveKeysAreActive
BY Invariance, PTL DEF IInv

\* Live contacts never come from both of Windows' streams of one finger.
THEOREM StreamsNeverMix == Spec => []OneEventStream
<1>1. IInv => OneEventStream
  BY DEF IInv, LiveKeysAreActive, OneSource, OneEventStream
<1> QED
  BY <1>1, Invariance, PTL

\* The race between record_input's test and the worker's cancellation lets at
\* most one contact through.
THEOREM LateContactBound == Spec => []AtMostOneLateContact
<1>1. IInv => AtMostOneLateContact
  <2> SUFFICES ASSUME IInv, ConflictHandled
               PROVE  Cardinality(Live(contacts))
                        + (IF win.at = "record" THEN 1 ELSE 0) <= 1
    BY DEF AtMostOneLateContact
  <2>1. CASE Live(contacts) = {}
    BY <2>1, FS_EmptySet
  <2>2. CASE Live(contacts) # {}
    <3>1. PICK f : f \in Live(contacts)
      BY <2>2
    <3>2. Live(contacts) = {f}
      BY <3>1 DEF IInv, LateIsAlone
    <3>3. Cardinality(Live(contacts)) = 1
      BY <3>2, FS_Singleton
    <3> QED
      BY <2>2, <3>3 DEF IInv, LateIsAlone
  <2> QED
    BY <2>1, <2>2
<1> QED
  BY <1>1, Invariance, PTL

-----------------------------------------------------------------------------
(* What the game is shown                                                  *)

\* Two frames of echo are left after a frame with touches, one after the next.
EchoBook ==
  /\ idleFrames \in 0 .. 3
  /\ echoFrames = (IF idleFrames = 3 THEN 0 ELSE 2 - idleFrames)
  /\ snapshotIsBridge <=> idleFrames <= 2

\* What a hook answered in this frame is what it would answer again.
AnswerBook ==
  answer.called =>
    /\ snapshotCurrent \/ ~sized
    /\ answer = [called |-> TRUE, bridge |-> snapshotIsBridge,
                 touches |-> IF snapshotIsBridge THEN snapshot ELSE NoTouches]

\* A touch that is shown still has its contact.
ShownHeld ==
  /\ snapshot = [f \in DOMAIN snapshot |-> snapshot[f]]
  /\ DOMAIN snapshot \subseteq DOMAIN contacts

\* hooked_supported found no contact: none is shown, and none will be before the
\* game has asked Unity.
AskedUnheld == game = "ask_unity" => snapshot = NoTouches

FrameInv == EchoBook /\ AnswerBook /\ ShownHeld /\ AskedUnheld

\* Only the game thread's frames and hook calls change what is shown.
LEMMA FramesAreTheGames ==
  ASSUME Next, ~GameThread PROVE UNCHANGED frameVars
BY DEF Next, WindowThread, MessageGoesOn, WorkerThread, Environment,
    RecordInputCheck,
   RecordInputApply, FocusLost, UiFaultRaise, UiFaultDisable, UiFaultCancel,
   DestroyCancel, DestroyDisable, DestroyWindow, ReadFault, ReadWindow, StoreEnabled,
   LoopReadEnabled, LoopReadHealth, HealthDisable, HealthCancel, ReadSlots,
   ConflictDisable, ConflictCancel, ReleaseSlots, ReleaseSlot, TimePasses,
   CompetingWriter

\* What the steps of the other threads do to the contacts: nothing, cancel_all,
\* or one message's down or move and up.
LEMMA InputSteps ==
  ASSUME IInv, Next, ~GameThread
  PROVE  \/ UNCHANGED <<contacts, nextId>>
         \/ contacts' = CancelAll(contacts) /\ nextId' = nextId
         \/ \E e \in Events :
              /\ contacts' \in {Pressed(e),
                                Up(Pressed(e), e.key, e.position, e.canceled)}
              /\ nextId' = IF DOMAIN Pressed(e) = DOMAIN contacts
                           THEN nextId ELSE nextId + 1
<1>1. CASE RecordInputApply
  <2>1. win.event \in Events
    BY <1>1 DEF RecordInputApply, IInv, Typed
  <2> QED
    BY <1>1, <2>1 DEF RecordInputApply, inputVars
<1>2. CASE CancelContacts
  BY <1>2 DEF CancelContacts
<1>3. CASE ~RecordInputApply /\ ~CancelContacts
  BY <1>3 DEF Next, WindowThread, MessageGoesOn, WorkerThread, Environment,
    RecordInputCheck,
     FocusLost, UiFaultRaise, UiFaultDisable, UiFaultCancel, DestroyCancel,
     DestroyDisable, DestroyWindow, ReadFault, ReadWindow, StoreEnabled,
     LoopReadEnabled, LoopReadHealth, HealthDisable, HealthCancel, ReadSlots,
     ConflictDisable, ConflictCancel, ReleaseSlots, ReleaseSlot, TimePasses,
     CompetingWriter, inputVars
<1> QED BY <1>1, <1>2, <1>3

\* No step outside the game thread erases a contact.
LEMMA OnlyFramesErase ==
  ASSUME IInv, Next, ~GameThread PROVE DOMAIN contacts \subseteq DOMAIN contacts'
<1>1. ASSUME NEW e \in Events
      PROVE  /\ DOMAIN contacts \subseteq DOMAIN Pressed(e)
             /\ DOMAIN Up(Pressed(e), e.key, e.position, e.canceled) = DOMAIN Pressed(e)
  BY PressedFacts DEF IInv, Up
<1>2. DOMAIN CancelAll(contacts) = DOMAIN contacts
  BY DEF CancelAll
<1> QED BY <1>1, <1>2, InputSteps

\* A frame that is prepared shows what it keeps.
LEMMA PrepareShows ==
  ASSUME EchoBook, Prepare PROVE EchoBook' /\ ShownHeld'
<1>1. ShownHeld'
  BY DEF Prepare, ShownHeld, SnapshotOf, Framed
<1>2. EchoBook'
  <2> DEFINE shown == SnapshotOf(contacts) # NoTouches
  <2>1. /\ shown => echoFrames' = 2 /\ idleFrames' = 0 /\ snapshotIsBridge'
        /\ ~shown =>
             /\ echoFrames' = IF echoFrames > 0 THEN echoFrames - 1 ELSE echoFrames
             /\ idleFrames' = IF idleFrames < 3 THEN idleFrames + 1 ELSE 3
             /\ snapshotIsBridge' <=> echoFrames > 0
    BY DEF Prepare
  <2> HIDE DEF shown
  <2>2. CASE shown
    BY <2>1, <2>2 DEF EchoBook
  <2>3. CASE ~shown
    BY <2>1, <2>3 DEF EchoBook
  <2> QED BY <2>2, <2>3
<1> QED BY <1>1, <1>2

\* A hook call prepares the frame once, and then repeats itself.
LEMMA HookCallFrame ==
  ASSUME FrameInv, HookCall
  PROVE  FrameInv' /\ (answer.called => answer' = answer)
<1>1. EchoBook' /\ ShownHeld'
  <2>1. CASE snapshotCurrent \/ ~sized
    BY <2>1 DEF HookCall, PrepareSnapshot, FrameInv, EchoBook, ShownHeld
  <2>2. CASE ~(snapshotCurrent \/ ~sized)
    BY <2>2, PrepareShows DEF HookCall, PrepareSnapshot, FrameInv
  <2> QED BY <2>1, <2>2
<1>2. /\ answer' = [called |-> TRUE, bridge |-> snapshotIsBridge',
                    touches |-> IF snapshotIsBridge' THEN snapshot' ELSE NoTouches]
      /\ snapshotCurrent' \/ ~sized'
  BY DEF HookCall, PrepareSnapshot, Prepare
<1>3. answer.called => answer' = answer
  <2>1. ASSUME answer.called
        PROVE  /\ UNCHANGED <<snapshot, snapshotIsBridge>>
               /\ answer = [called |-> TRUE, bridge |-> snapshotIsBridge,
                            touches |-> IF snapshotIsBridge THEN snapshot ELSE NoTouches]
    BY <2>1 DEF FrameInv, AnswerBook, HookCall, PrepareSnapshot
  <2> QED BY <1>2, <2>1
<1>4. AskedUnheld'
  BY DEF HookCall, AskedUnheld
<1> QED BY <1>1, <1>2, <1>3, <1>4 DEF FrameInv, AnswerBook

\* Nothing is shown before the first frame.
LEMMA InitFrame == Init => FrameInv
<1> SUFFICES ASSUME Init PROVE FrameInv
  OBVIOUS
<1>1. EchoBook
  BY DEF Init, EchoBook
<1>2. AnswerBook
  BY DEF Init, AnswerBook, NoAnswer
<1>3. ShownHeld
  BY DEF Init, ShownHeld, NoTouches
<1>4. AskedUnheld
  BY DEF Init, AskedUnheld
<1> QED BY <1>1, <1>2, <1>3, <1>4 DEF FrameInv

\* What the game is shown stays in line with the contacts and the echo.
LEMMA StepFrame == IInv /\ FrameInv /\ [Next]_vars => FrameInv'
<1> SUFFICES ASSUME IInv, FrameInv, [Next]_vars PROVE FrameInv'
  OBVIOUS
<1>1. CASE HookCall
  BY <1>1, HookCallFrame
<1>2. CASE \E hasSize \in BOOLEAN : GameFrame(hasSize)
  BY <1>2
  DEF GameFrame, NoAnswer, FrameInv, EchoBook, AnswerBook, ShownHeld, AskedUnheld,
      inputVars
<1>3. CASE Next /\ ~GameThread
  BY <1>3, FramesAreTheGames, OnlyFramesErase
  DEF frameVars, shownVars, FrameInv, EchoBook, AnswerBook, ShownHeld, AskedUnheld
<1>4. CASE UNCHANGED vars
  BY <1>4
  DEF vars, frameVars, shownVars, inputVars, FrameInv, EchoBook, AnswerBook, ShownHeld,
      AskedUnheld
<1>5. CASE CallStep
  <2>1. UNCHANGED <<contacts, shownVars>> /\ (game' = "ask_unity" => contacts = NoTouches)
    BY <1>5, CallStepFacts DEF inputVars
  <2>2. contacts = NoTouches => snapshot = NoTouches
    <3>1. ASSUME contacts = NoTouches PROVE DOMAIN snapshot = {}
      BY <3>1 DEF FrameInv, ShownHeld, NoTouches
    <3> QED BY <3>1 DEF FrameInv, ShownHeld, NoTouches
  <2>3. EchoBook' /\ AnswerBook' /\ ShownHeld'
    BY <2>1 DEF shownVars, FrameInv, EchoBook, AnswerBook, ShownHeld
  <2>4. AskedUnheld'
    BY <2>1, <2>2 DEF shownVars, AskedUnheld
  <2> QED BY <2>3, <2>4 DEF FrameInv
<1> QED BY <1>1, <1>2, <1>3, <1>4, <1>5 DEF GameThread, CallGoesOn, CallStep

\* The frame's bookkeeping holds in every reachable state.
THEOREM FrameInvariance == Spec => []FrameInv
BY InitFrame, StepFrame, Invariance, PTL DEF Spec

\* Touches shown, the bridge answers for exactly two more frames, then the native
\* callbacks do (prepare_snapshot).
THEOREM EchoLastsTwoFrames == Spec => []EchoWindow
<1>1. FrameInv => EchoWindow
  BY DEF FrameInv, EchoBook, EchoWindow
<1> QED BY <1>1, FrameInvariance, PTL

\* hooked_supported leaves the answer to Unity only when no touch is being shown,
\* and a call that left it there is answered before any touch is.
THEOREM ShownIsSupported == Spec => []ShownTouchesAreSupported
<1>1. FrameInv => ShownTouchesAreSupported
  BY DEF FrameInv, AskedUnheld, ShownTouchesAreSupported
<1> QED BY <1>1, FrameInvariance, PTL

\* Every call that reaches hooked_count or hooked_touch within one frame gets the
\* same answer, whatever the other threads do between the calls.
THEOREM AnswersRepeat == Spec => OneAnswerPerFrame
<1>1. FrameInv /\ [Next]_vars =>
        [answer.called /\ answer'.called => answer' = answer]_vars
  <2> SUFFICES ASSUME FrameInv, Next, answer.called, answer'.called
      PROVE  answer' = answer
    OBVIOUS
  <2>1. CASE HookCall
    BY <2>1, HookCallFrame
  <2>2. CASE \E hasSize \in BOOLEAN : GameFrame(hasSize)
    BY <2>2 DEF GameFrame, NoAnswer
  <2>3. CASE ~GameThread
    BY <2>3, FramesAreTheGames DEF frameVars, shownVars
  <2>4. CASE CallStep
    BY <2>4, CallStepFacts DEF shownVars
  <2> QED BY <2>1, <2>2, <2>3, <2>4 DEF GameThread, CallGoesOn, CallStep
<1> QED BY <1>1, FrameInvariance, PTL DEF Spec, OneAnswerPerFrame

-----------------------------------------------------------------------------
(* The bridge keeps the promise of touch::State to the game.               *)

\* The fingers that can no longer begin: all numbers given out, except the
\* contacts still waiting for their first frame.
UsedFingers ==
  {f \in 1 .. nextId - 1 : ~(f \in DOMAIN contacts /\ ~contacts[f].began)}

Contract == INSTANCE TouchContract
              WITH view <- snapshot, used <- UsedFingers, frame <- 0, FrameIds <- {}

\* The snapshot reports the contacts that have begun, where they were last
\* seen; a contact is marked when its end is being shown.
Agree(cs, snap) ==
  /\ DOMAIN snap = {f \in DOMAIN cs : cs[f].began}
  /\ \A f \in DOMAIN cs :
       cs[f].emitted <=> f \in DOMAIN snap /\ snap[f].phase \in TerminalPhases
  /\ \A f \in DOMAIN snap : snap[f].position = cs[f].last

\* Contacts waiting for their first frame are the newest ones.
Newest(cs, n) ==
  \A f \in DOMAIN cs : ~cs[f].began =>
    \A g \in f .. n - 1 : g \in DOMAIN cs /\ ~cs[g].began

FeedInv ==
  /\ Agree(contacts, snapshot)
  /\ Newest(contacts, nextId)
  /\ Cardinality(DOMAIN contacts) <= Capacity

\* Contacts have the numbers given out, and can be counted.
LEMMA ContactsFinite ==
  ASSUME Typed
  PROVE  IsFiniteSet(DOMAIN contacts) /\ Cardinality(DOMAIN contacts) \in Nat
<1>1. IsFiniteSet(1 .. nextId - 1)
  BY FS_Interval DEF Typed
<1>2. IsFiniteSet(DOMAIN contacts)
  BY <1>1, FS_Subset DEF Typed
<1> QED BY <1>2, FS_CardinalityType

\* move, up and cancel_all leave the agreement with the last frame alone.
LEMMA EndsKeepAgreement ==
  ASSUME NEW cs, NEW ds, NEW snap, NEW n, OnlyEnds(cs, ds),
         Agree(cs, snap), Newest(cs, n)
  PROVE  Agree(ds, snap) /\ Newest(ds, n)
<1>1. Agree(ds, snap)
  BY DEF OnlyEnds, Agree
<1>2. Newest(ds, n)
  BY DEF OnlyEnds, Newest
<1> QED BY <1>1, <1>2

\* So does a message's down or move, which may take the next number.
LEMMA PressKeepsAgreement ==
  ASSUME Typed, FeedInv, NEW e \in Events
  PROVE  /\ Agree(Pressed(e), snapshot)
         /\ Newest(Pressed(e), IF DOMAIN Pressed(e) = DOMAIN contacts
                               THEN nextId ELSE nextId + 1)
         /\ Cardinality(DOMAIN Pressed(e)) <= Capacity
<1>0. /\ \A f \in DOMAIN contacts : contacts[f] \in Contact
      /\ nextId \in Nat \ {0} /\ nextId \notin DOMAIN contacts
      /\ DOMAIN contacts \subseteq 1 .. nextId - 1
      /\ e.key \in Keys /\ e.position \in Positions
  BY DEF Typed, Events
<1>1. CASE ~e.down
  <2>1. Pressed(e) = Move(contacts, e.key, e.position)
    BY <1>1 DEF Pressed
  <2>2. OnlyEnds(contacts, Pressed(e))
    BY <1>0, <2>1, MoveOnlyEnds
  <2>3. DOMAIN Pressed(e) = DOMAIN contacts
    BY <2>2 DEF OnlyEnds
  <2> QED
    BY <2>2, <2>3, EndsKeepAgreement DEF FeedInv
<1>2. CASE e.down /\ (IsDuplicate(contacts, e.key) \/ IsFull(contacts))
  <2>1. Pressed(e) = contacts
    BY <1>2 DEF Pressed
  <2> QED
    BY <2>1 DEF FeedInv
<1>3. CASE e.down /\ ~(IsDuplicate(contacts, e.key) \/ IsFull(contacts))
  <2> DEFINE ds == Pressed(e)
             new == NewContact(e.key, e.position)
  <2>1. /\ DOMAIN ds = DOMAIN contacts \cup {nextId}
        /\ ds[nextId] = new
        /\ \A f \in DOMAIN contacts : ds[f] = contacts[f]
    BY <1>0, <1>3 DEF Pressed, Push
  <2>2. ~new.began /\ ~new.emitted
    BY DEF NewContact
  <2>3. Agree(ds, snapshot)
    <3>1. nextId \notin DOMAIN snapshot
      BY <1>0 DEF FeedInv, Agree
    <3> HIDE DEF ds, new
    <3> QED
      BY <2>1, <2>2, <3>1 DEF FeedInv, Agree
  <2>4. Newest(ds, nextId + 1)
    <3> SUFFICES ASSUME NEW f \in DOMAIN ds, ~ds[f].began, NEW g \in f .. nextId
                 PROVE  g \in DOMAIN ds /\ ~ds[g].began
      BY <1>0 DEF Newest
    <3> HIDE DEF ds, new
    <3>1. CASE g = nextId
      BY <2>1, <2>2, <3>1
    <3>2. CASE g # nextId
      <4>1. f \in DOMAIN contacts /\ f \in Nat /\ g \in f .. nextId - 1
        BY <1>0, <2>1, <3>2
      <4> QED
        BY <2>1, <4>1 DEF FeedInv, Newest
    <3> QED BY <3>1, <3>2
  <2>5. Cardinality(DOMAIN ds) <= Capacity
    <3>1. Cardinality(DOMAIN ds) = Cardinality(DOMAIN contacts) + 1
      BY <1>0, <2>1, ContactsFinite, FS_AddElement
    <3>2. Cardinality(DOMAIN contacts) < Capacity
      BY <1>3, ContactsFinite, CapacityAssumption DEF IsFull
    <3> QED
      BY <3>1, <3>2, ContactsFinite, CapacityAssumption
  <2>6. DOMAIN ds # DOMAIN contacts
    BY <1>0, <2>1
  <2> QED
    BY <2>3, <2>4, <2>5, <2>6
<1> QED
  BY <1>1, <1>2, <1>3

\* What a prepared frame keeps, and what it shows of it.
LEMMA PreparedFacts ==
  ASSUME Typed, Prepare
  PROVE  /\ DOMAIN contacts' = Retained(contacts)
         /\ DOMAIN snapshot' = Retained(contacts)
         /\ Retained(contacts) = {f \in DOMAIN contacts : ~contacts[f].emitted}
         /\ \A f \in Retained(contacts) :
              /\ contacts[f] \in Contact
              /\ contacts'[f].began
              /\ contacts'[f].last = contacts[f].position
              /\ contacts'[f].emitted = (contacts[f].began /\ contacts[f].terminal)
              /\ snapshot'[f].from =
                   IF contacts[f].began THEN contacts[f].last ELSE contacts[f].position
              /\ snapshot'[f].position = contacts[f].position
              /\ snapshot'[f].phase = PhaseOf(contacts[f])
<1>1. /\ DOMAIN contacts' = Retained(contacts)
      /\ DOMAIN snapshot' = Retained(contacts)
      /\ Retained(contacts) = {f \in DOMAIN contacts : ~contacts[f].emitted}
      /\ \A f \in Retained(contacts) :
           /\ contacts[f] \in Contact
           /\ contacts'[f] = Reported(contacts[f])
           /\ snapshot'[f] = Report(contacts[f])
  BY DEF Typed, Prepare, Framed, SnapshotOf, Retained
<1>2. \A c \in Contact : /\ Reported(c).began
                         /\ Reported(c).last = c.position
                         /\ Reported(c).emitted = (c.began /\ c.terminal)
  BY DEF Reported, Contact
<1>3. \A c \in Contact :
        /\ Report(c).from = IF c.began THEN c.last ELSE c.position
        /\ Report(c).position = c.position
        /\ Report(c).phase = PhaseOf(c)
  BY DEF Report
<1> QED BY <1>1, <1>2, <1>3

\* A prepared frame agrees with the contacts again, and none is waiting.
LEMMA PrepareAgrees ==
  ASSUME Typed, FeedInv, Prepare PROVE FeedInv'
<1>1. Agree(contacts, snapshot)'
  <2>1. \A f \in Retained(contacts) :
          PhaseOf(contacts[f]) \in TerminalPhases
            <=> contacts[f].began /\ contacts[f].terminal
    BY PreparedFacts DEF PhaseOf, Contact, TerminalPhases
  <2> QED
    BY <2>1, PreparedFacts DEF Agree
<1>2. Newest(contacts, nextId)'
  BY PreparedFacts DEF Newest
<1>3. Cardinality(DOMAIN contacts') <= Capacity
  <2>1. /\ Cardinality(DOMAIN contacts') \in Nat
        /\ Cardinality(DOMAIN contacts') <= Cardinality(DOMAIN contacts)
    BY PreparedFacts, ContactsFinite, FS_Subset, FS_CardinalityType
  <2> QED
    BY <2>1, ContactsFinite, CapacityAssumption DEF FeedInv
<1> QED BY <1>1, <1>2, <1>3 DEF FeedInv

\* A prepared frame continues every finger that was shown and not over, and
\* begins the waiting ones.
LEMMA PrepareAdvances ==
  ASSUME Typed, FeedInv, Prepare, UNCHANGED nextId PROVE Contract!Advance
<1> DEFINE Old == DOMAIN snapshot \ Contract!Finished(snapshot)
           Pending == {f \in DOMAIN contacts : ~contacts[f].began}
<1>1. Contract!Finished(snapshot) = {f \in DOMAIN contacts : contacts[f].emitted}
  BY DEF FeedInv, Agree, Contract!Finished, TerminalPhases, Contract!TerminalPhases
<1>2. /\ DOMAIN snapshot' = Old \cup Pending
      /\ Old \cap Pending = {}
      /\ \A f \in Old : contacts[f].began
  BY <1>1, PreparedFacts DEF FeedInv, Agree
<1>3. Old \subseteq 1 .. nextId - 1 /\ Pending \subseteq 1 .. nextId - 1
  BY <1>1 DEF FeedInv, Agree, Typed
<1>4. UsedFingers = (1 .. nextId - 1) \ Pending
  BY DEF UsedFingers
<1>5. UsedFingers' = 1 .. nextId - 1
  BY PreparedFacts DEF UsedFingers
<1>6. \A f \in Old : Contract!Continues(snapshot[f], snapshot'[f])
  <2> SUFFICES ASSUME NEW f \in Old
               PROVE  Contract!Continues(snapshot[f], snapshot'[f])
    OBVIOUS
  <2>1. f \in Retained(contacts) /\ contacts[f].began
    BY <1>2, PreparedFacts
  <2>2. /\ snapshot'[f].from = contacts[f].last
        /\ snapshot'[f].position = contacts[f].position
        /\ snapshot'[f].phase = PhaseOf(contacts[f])
        /\ contacts[f].finish \in {"Ended", "Canceled"}
    BY <2>1, PreparedFacts DEF Contact, TerminalPhases
  <2>3. snapshot[f].position = contacts[f].last
    BY DEF FeedInv, Agree
  <2> QED
    BY <2>1, <2>2, <2>3 DEF PhaseOf, Contract!Continues, Contract!TerminalPhases
<1>7. \A f \in Pending : Contract!Starts(snapshot'[f])
  <2>1. \A f \in Pending : f \in Retained(contacts) /\ ~contacts[f].began
    BY <1>2, PreparedFacts
  <2> QED
    BY <2>1, PreparedFacts DEF PhaseOf, Contract!Starts
<1>8. \A f \in Pending : \A g \in UsedFingers : g < f
  BY <1>3, <1>4 DEF Typed, FeedInv, Newest
<1>9. Contract!Cardinality(DOMAIN snapshot') <= Capacity
  <2>1. Cardinality(DOMAIN snapshot') <= Capacity
    BY PrepareAgrees, PreparedFacts DEF FeedInv
  <2> QED
    BY <2>1 DEF Cardinality, Contract!Cardinality
<1> HIDE DEF Old, Pending
<1>10. Old = DOMAIN snapshot' \cap UsedFingers
  BY <1>2, <1>3, <1>4
<1>11. DOMAIN snapshot' \ UsedFingers = Pending
  BY <1>2, <1>3, <1>4
<1>12. UsedFingers' = UsedFingers \cup DOMAIN snapshot'
  BY <1>2, <1>3, <1>4, <1>5
<1> QED
  BY <1>6, <1>7, <1>8, <1>9, <1>10, <1>11, <1>12 DEF Contract!Advance, Old

\* No other step shows anything new or lets a waiting contact begin.
LEMMA OthersShowNothing ==
  ASSUME IInv, FeedInv, Next, ~GameThread
  PROVE  FeedInv' /\ UNCHANGED <<snapshot, UsedFingers>>
<1>0. snapshot' = snapshot
  BY FramesAreTheGames DEF frameVars, shownVars
<1>1. /\ Typed /\ \A f \in DOMAIN contacts : contacts[f] \in Contact
      /\ DOMAIN contacts \subseteq 1 .. nextId - 1 /\ nextId \in Nat \ {0}
  BY DEF IInv, Typed
<1>2. CASE UNCHANGED <<contacts, nextId>>
  BY <1>0, <1>2 DEF FeedInv, Agree, Newest, UsedFingers
<1>3. CASE contacts' = CancelAll(contacts) /\ nextId' = nextId
  <2>1. OnlyEnds(contacts, contacts')
    BY <1>1, <1>3, CancelAllEndsAll
  <2>2. Agree(contacts', snapshot) /\ Newest(contacts', nextId)
    BY <2>1, EndsKeepAgreement DEF FeedInv
  <2> QED
    BY <1>0, <1>3, <2>1, <2>2 DEF FeedInv, OnlyEnds, UsedFingers
<1>4. ASSUME NEW e \in Events,
             contacts' \in {Pressed(e), Up(Pressed(e), e.key, e.position, e.canceled)},
             nextId' = IF DOMAIN Pressed(e) = DOMAIN contacts
                       THEN nextId ELSE nextId + 1
      PROVE  FeedInv' /\ UsedFingers' = UsedFingers
  <2>1. /\ Agree(Pressed(e), snapshot) /\ Newest(Pressed(e), nextId')
        /\ Cardinality(DOMAIN Pressed(e)) <= Capacity
    BY <1>1, <1>4, PressKeepsAgreement
  <2>2. OnlyEnds(Pressed(e), Up(Pressed(e), e.key, e.position, e.canceled))
    <3>1. /\ \A f \in DOMAIN Pressed(e) : Pressed(e)[f] \in Contact
          /\ e.key \in Keys /\ e.position \in Positions /\ e.canceled \in BOOLEAN
      BY <1>1, PressedFacts DEF Events
    <3> QED
      BY <3>1, UpOnlyEnds
  <2>3. /\ Agree(contacts', snapshot) /\ Newest(contacts', nextId')
        /\ DOMAIN contacts' = DOMAIN Pressed(e)
        /\ \A f \in DOMAIN Pressed(e) : contacts'[f].began = Pressed(e)[f].began
    BY <1>4, <2>1, <2>2, EndsKeepAgreement DEF OnlyEnds
  <2>4. FeedInv'
    BY <1>0, <2>1, <2>3 DEF FeedInv
  <2>5. UsedFingers' = UsedFingers
    <3>1. \/ /\ DOMAIN contacts' = DOMAIN contacts /\ nextId' = nextId
             /\ \A f \in DOMAIN contacts : contacts'[f].began = contacts[f].began
          \/ /\ DOMAIN contacts' = DOMAIN contacts \cup {nextId}
             /\ nextId' = nextId + 1
             /\ ~contacts'[nextId].began
             /\ \A f \in DOMAIN contacts : contacts'[f].began = contacts[f].began
      <4>1. CASE ~e.down
        <5>1. /\ DOMAIN Pressed(e) = DOMAIN contacts
              /\ \A f \in DOMAIN contacts : Pressed(e)[f].began = contacts[f].began
          BY <1>1, <4>1, MoveOnlyEnds DEF Pressed, OnlyEnds, Events
        <5> QED
          BY <1>4, <2>3, <5>1
      <4>2. CASE e.down /\ (IsDuplicate(contacts, e.key) \/ IsFull(contacts))
        <5>1. Pressed(e) = contacts
          BY <4>2 DEF Pressed
        <5> QED
          BY <1>4, <2>3, <5>1
      <4>3. CASE e.down /\ ~(IsDuplicate(contacts, e.key) \/ IsFull(contacts))
        <5>1. /\ DOMAIN Pressed(e) = DOMAIN contacts \cup {nextId}
              /\ Pressed(e)[nextId] = NewContact(e.key, e.position)
              /\ nextId \notin DOMAIN contacts
              /\ \A f \in DOMAIN contacts : Pressed(e)[f] = contacts[f]
          BY <1>1, <4>3 DEF Pressed, Push
        <5>2. ~NewContact(e.key, e.position).began
          BY DEF NewContact
        <5> QED
          BY <1>4, <2>3, <5>1, <5>2
      <4> QED BY <4>1, <4>2, <4>3
    <3> QED
      BY <1>1, <3>1 DEF UsedFingers
  <2> QED BY <2>4, <2>5
<1> QED BY <1>0, <1>2, <1>3, <1>4, InputSteps

\* A hook call advances the frame or shows the same again.
LEMMA HookCallAdvances ==
  ASSUME IInv, FeedInv, HookCall
  PROVE  /\ FeedInv'
         /\ \/ UNCHANGED <<snapshot, UsedFingers>>
            \/ Contract!Advance /\ ~snapshotCurrent /\ snapshotCurrent'
<1>1. CASE snapshotCurrent \/ ~sized
  BY <1>1 DEF HookCall, PrepareSnapshot, FeedInv, Agree, Newest, UsedFingers
<1>2. CASE ~(snapshotCurrent \/ ~sized)
  <2>1. Prepare /\ nextId' = nextId
    BY <1>2 DEF HookCall, PrepareSnapshot
  <2> QED
    BY <1>2, <2>1, PrepareAgrees, PrepareAdvances DEF IInv, Prepare
<1> QED BY <1>1, <1>2

\* Every step keeps the agreement and advances the game's view as promised, or
\* leaves it alone.
LEMMA StepAdvances ==
  ASSUME IInv, FeedInv, [Next]_vars
  PROVE  /\ FeedInv'
         /\ \/ UNCHANGED <<snapshot, UsedFingers>>
            \/ Contract!Advance /\ ~snapshotCurrent /\ snapshotCurrent'
<1>1. CASE HookCall
  BY <1>1, HookCallAdvances
<1>2. CASE \E hasSize \in BOOLEAN : GameFrame(hasSize)
  BY <1>2 DEF GameFrame, inputVars, FeedInv, Agree, Newest, UsedFingers
<1>3. CASE Next /\ ~GameThread
  BY <1>3, OthersShowNothing
<1>4. CASE UNCHANGED vars
  BY <1>4 DEF vars, inputVars, frameVars, shownVars, FeedInv, Agree, Newest, UsedFingers
<1>5. CASE CallStep
  BY <1>5, CallStepFacts DEF inputVars, shownVars, FeedInv, Agree, Newest, UsedFingers
<1> QED BY <1>1, <1>2, <1>3, <1>4, <1>5 DEF GameThread, CallGoesOn, CallStep

\* Nothing is shown before the first frame, and no number is given out.
LEMMA InitFeed ==
  ASSUME Init PROVE FeedInv /\ snapshot = NoTouches /\ UsedFingers = {}
<1>1. DOMAIN contacts = {} /\ DOMAIN snapshot = {} /\ nextId = 1
  BY DEF Init, NoTouches
<1>2. Agree(contacts, snapshot) /\ Newest(contacts, nextId)
  BY <1>1 DEF Agree, Newest
<1>3. Cardinality(DOMAIN contacts) <= Capacity
  BY <1>1, FS_EmptySet, CapacityAssumption
<1>4. UsedFingers = {}
  BY <1>1 DEF UsedFingers
<1> QED BY <1>2, <1>3, <1>4 DEF FeedInv, Init

\* The agreement of contacts and last frame holds in every reachable state.
THEOREM FeedInvariance == Spec => []FeedInv
<1>1. Init => FeedInv
  BY InitFeed
<1>2. IInv /\ FeedInv /\ [Next]_vars => FeedInv'
  BY StepAdvances
<1> QED BY <1>1, <1>2, Invariance, PTL DEF Spec

\* What the contract allows the game to be shown: each new frame continues the
\* touches of the last one, and only a frame that was not yet prepared is new.
FramesFollowTheContract ==
  [][Contract!Advance /\ ~snapshotCurrent /\ snapshotCurrent']_<<snapshot, UsedFingers>>

\* The bridge keeps the promise of touch::State to the game through all three
\* threads: messages of both streams, cancellations by the window and by the
\* worker, and frames of the game never lose, revive or restart a finger, skip
\* its end, or show more touches than the snapshot holds.
THEOREM BridgeKeepsContract ==
  Spec => (snapshot = NoTouches /\ UsedFingers = {}) /\ FramesFollowTheContract
<1>1. Init => snapshot = NoTouches /\ UsedFingers = {}
  BY InitFeed
<1>2. IInv /\ FeedInv /\ [Next]_vars =>
        [Contract!Advance /\ ~snapshotCurrent /\ snapshotCurrent']_<<snapshot, UsedFingers>>
  BY StepAdvances
<1> QED BY <1>1, <1>2, Invariance, FeedInvariance, PTL DEF Spec, FramesFollowTheContract

-----------------------------------------------------------------------------
(* The types                                                               *)

\* The types that no other invariant needs.
OtherTypes ==
  /\ eventSource \in Sources \cup {NoSource}
  /\ \A f \in DOMAIN snapshot : snapshot[f] \in Touch
  /\ quiet \in BOOLEAN /\ snapshotCurrent \in BOOLEAN /\ snapshotIsBridge \in BOOLEAN
  /\ enabled \in BOOLEAN /\ uiFault \in BOOLEAN /\ window \in BOOLEAN
  /\ reportedConflict \in BOOLEAN /\ sized \in BOOLEAN
  /\ answer.called \in BOOLEAN /\ answer.bridge \in BOOLEAN /\ mixed \in BOOLEAN
  /\ game \in {"idle", "hook", "supported", "supported_contacts", "ask_unity"}
  /\ slots \in [Slots -> {"hook", "original", "other"}]
  /\ win.at \in {"idle", "record", "fault_disable", "fault_cancel",
                 "destroy_disable", "destroy_window", "gone"}
  /\ worker \in {"read_fault", "read_window", "store_true", "store_false",
                 "loop", "loop_health", "health_disable", "health_cancel",
                 "loop_slots", "conflict_disable", "conflict_cancel",
                 "release_count", "release_touch", "release_supported"}

\* Every thread keeps these types.
LEMMA StepOtherTypes ==
  ASSUME IInv, OtherTypes, [Next]_vars PROVE OtherTypes'
<1> USE DEF OtherTypes, inputVars, frameVars, shownVars, flagVars, workerVars, WinGoes, WorkerGoes,
            Idle, CancelContacts
<1>1. ASSUME NEW e \in Events, RecordInputCheck(e) PROVE OtherTypes'
  BY <1>1 DEF RecordInputCheck
<1>2. CASE RecordInputApply
  <2>1. win.event \in Events
    BY <1>2 DEF RecordInputApply, IInv, Typed
  <2>2. SourceOf(win.event.key) \in Sources
    BY <2>1, KeysAssumption DEF Events, SourceOf
  <2>3. eventSource' = eventSource \/ eventSource' = SourceOf(win.event.key)
    BY <1>2 DEF RecordInputApply
  <2>4. quiet' \in BOOLEAN
    BY <1>2 DEF RecordInputApply
  <2> QED BY <1>2, <2>2, <2>3, <2>4 DEF RecordInputApply
<1>3. CASE FocusLost \/ UiFaultRaise \/ UiFaultDisable \/ UiFaultCancel
  <2>1. win' = win \/ win'.at \in {"fault_disable", "fault_cancel", "idle"}
    BY <1>3 DEF FocusLost, UiFaultRaise, UiFaultDisable, UiFaultCancel
  <2>2. /\ uiFault' \in BOOLEAN /\ enabled' \in BOOLEAN
        /\ UNCHANGED <<eventSource, quiet, frameVars, window, workerVars>>
    BY <1>3 DEF FocusLost, UiFaultRaise, UiFaultDisable, UiFaultCancel
  <2> QED BY <2>1, <2>2
<1>4. CASE DestroyCancel \/ DestroyDisable \/ DestroyWindow
  <2>1. win'.at \in {"destroy_disable", "destroy_window", "gone"}
    BY <1>4 DEF DestroyCancel, DestroyDisable, DestroyWindow
  <2>2. /\ window' \in BOOLEAN /\ enabled' \in BOOLEAN
        /\ UNCHANGED <<eventSource, quiet, frameVars, uiFault, workerVars>>
    BY <1>4 DEF DestroyCancel, DestroyDisable, DestroyWindow
  <2> QED BY <2>1, <2>2
<1>5. CASE ReadFault \/ ReadWindow \/ StoreEnabled
  <2>1. /\ worker' \in {"read_window", "store_true", "store_false", "loop"}
        /\ enabled' \in BOOLEAN
        /\ UNCHANGED <<inputVars, frameVars, uiFault, window, slots, reportedConflict, win>>
    BY <1>5 DEF ReadFault, ReadWindow, StoreEnabled
  <2> QED BY <2>1
<1>6. CASE LoopReadEnabled \/ LoopReadHealth \/ HealthDisable \/ HealthCancel
  <2>1. /\ worker' \in {"loop_health", "health_disable", "health_cancel", "loop_slots"}
        /\ enabled' \in BOOLEAN
        /\ UNCHANGED <<eventSource, quiet, frameVars, uiFault, window, slots,
                       reportedConflict, win>>
    BY <1>6 DEF LoopReadEnabled, LoopReadHealth, HealthDisable, HealthCancel
  <2> QED BY <2>1
<1>7. CASE ReadSlots \/ ConflictDisable \/ ConflictCancel
  <2>1. /\ worker' \in {"loop", "conflict_disable", "conflict_cancel", "release_count"}
        /\ enabled' \in BOOLEAN /\ reportedConflict' \in BOOLEAN
        /\ UNCHANGED <<eventSource, quiet, frameVars, uiFault, window, slots, win>>
    BY <1>7 DEF ReadSlots, ConflictDisable, ConflictCancel
  <2> QED BY <2>1
<1>8. CASE ReleaseSlots
  BY <1>8 DEF ReleaseSlots, ReleaseSlot, Release
<1>9. ASSUME NEW hasSize \in BOOLEAN, GameFrame(hasSize) PROVE OtherTypes'
  <2>1. answer'.called \in BOOLEAN /\ answer'.bridge \in BOOLEAN
    BY <1>9 DEF GameFrame, NoAnswer
  <2>2. /\ snapshotCurrent' \in BOOLEAN /\ sized' \in BOOLEAN /\ mixed' \in BOOLEAN
        /\ UNCHANGED <<snapshot, snapshotIsBridge, game, inputVars, flagVars, workerVars, win>>
    BY <1>9 DEF GameFrame
  <2> QED BY <2>1, <2>2
<1>10. CASE HookCall
  <2>1. \A f \in DOMAIN SnapshotOf(contacts) : SnapshotOf(contacts)[f] \in Touch
    <3>1. \A c \in Contact : Report(c) \in Touch
      BY DEF Report, PhaseOf, Contact, Touch, Phases, TerminalPhases
    <3> QED
      BY <3>1 DEF SnapshotOf, Retained, IInv, Typed
  <2>2. \A f \in DOMAIN snapshot' : snapshot'[f] \in Touch
    BY <1>10, <2>1 DEF HookCall, PrepareSnapshot, Prepare
  <2>3. snapshotCurrent' \in BOOLEAN /\ snapshotIsBridge' \in BOOLEAN
    BY <1>10 DEF HookCall, PrepareSnapshot, Prepare
  <2>4. answer'.called \in BOOLEAN /\ answer'.bridge \in BOOLEAN
    BY <1>10, <2>3 DEF HookCall
  <2> QED BY <1>10, <2>2, <2>3, <2>4 DEF HookCall
<1>11. CASE TimePasses
  BY <1>11 DEF TimePasses
<1>12. ASSUME NEW slot \in Contested, CompetingWriter(slot) PROVE OtherTypes'
  BY <1>12, SlotsAssumption DEF CompetingWriter
<1>13. CASE UNCHANGED vars
  BY <1>13 DEF vars
<1>14. CASE CallStep
  <2>1. /\ UNCHANGED <<inputVars, shownVars, flagVars, workerVars, win>>
        /\ game' \in {"idle", "hook", "supported", "supported_contacts", "ask_unity"}
        /\ mixed' \in BOOLEAN
    BY <1>14, CallStepFacts
  <2> QED BY <2>1
<1> QED
  BY <1>1, <1>2, <1>3, <1>4, <1>5, <1>6, <1>7, <1>8, <1>9, <1>10, <1>11, <1>12, <1>13,
     <1>14
  DEF Next, WindowThread, MessageGoesOn, WorkerThread, GameThread, CallGoesOn, Environment,
    CallStep

\* Every variable of the bridge has its type, for all ids, positions, capacities
\* and sets of slots.
THEOREM BridgeTypes == Spec => []TypeOK
<1>1. Init => OtherTypes
  <2> SUFFICES ASSUME Init PROVE OtherTypes
    OBVIOUS
  <2>1. answer.called \in BOOLEAN /\ answer.bridge \in BOOLEAN
    BY DEF Init, NoAnswer
  <2>2. \A f \in DOMAIN snapshot : snapshot[f] \in Touch
    BY DEF Init, NoTouches
  <2>3. win.at = "idle"
    BY DEF Init, Idle
  <2>4. /\ quiet \in BOOLEAN /\ snapshotCurrent \in BOOLEAN /\ snapshotIsBridge \in BOOLEAN
        /\ enabled \in BOOLEAN /\ uiFault \in BOOLEAN /\ window \in BOOLEAN
        /\ reportedConflict \in BOOLEAN /\ sized \in BOOLEAN
    BY DEF Init
  <2>5. /\ eventSource = NoSource /\ worker = "read_fault"
        /\ game = "idle" /\ mixed = FALSE
        /\ slots \in [Slots -> {"hook", "original", "other"}]
    BY DEF Init
  <2> QED BY <2>1, <2>2, <2>3, <2>4, <2>5 DEF OtherTypes
<1>2. IInv /\ FrameInv /\ OtherTypes => TypeOK
  BY DEF IInv, Typed, FrameInv, EchoBook, OtherTypes, TypeOK
<1> QED BY <1>1, <1>2, StepOtherTypes, Invariance, FrameInvariance, PTL DEF Spec
=============================================================================
