----------------------------- MODULE TouchState -----------------------------
(***************************************************************************)
(* class touch::State (games/zzz/include/touch_state.hpp), one action per  *)
(* member function.  Callers serialise the calls with the payload's input  *)
(* lock, so every call is one step; TouchBridge models the callers.        *)
(***************************************************************************)
EXTENDS ContactOps

CONSTANTS
  FrameIds,  \* Unity frame numbers; a repeated number is the same frame
  MaxDowns   \* bound on counted down() calls (int next_id, uint64 counters)

ASSUME FrameAssumption == FrameIds \subseteq Nat
ASSUME MaxDownsAssumption == MaxDowns \in Nat

VARIABLES
  contacts,      \* finger -> Contact
  snapshot,      \* finger -> Touch, as of the last begin_frame
  nextId,        \* next_id
  frame,         \* id of the snapshot, NoFrame before the first one
  acceptedDowns, ignoredDowns

counters == <<acceptedDowns, ignoredDowns>>
vars == <<contacts, snapshot, nextId, frame, counters>>

NoFrame == -1

Init ==
  /\ contacts = NoTouches
  /\ snapshot = NoTouches
  /\ nextId = 1
  /\ frame = NoFrame
  /\ acceptedDowns = 0
  /\ ignoredDowns = 0

-----------------------------------------------------------------------------
\* down(): a live key is left alone; a full vector only counts the loss.
DownIgnored(key) ==
  /\ ~IsDuplicate(contacts, key)
  /\ IsFull(contacts)
  /\ acceptedDowns + ignoredDowns < MaxDowns
  /\ ignoredDowns' = ignoredDowns + 1
  /\ UNCHANGED <<contacts, snapshot, nextId, frame, acceptedDowns>>

DownAccepted(key, p) ==
  /\ ~IsDuplicate(contacts, key)
  /\ ~IsFull(contacts)
  /\ acceptedDowns + ignoredDowns < MaxDowns
  /\ contacts' = Push(contacts, nextId, key, p)
  /\ nextId' = nextId + 1
  /\ acceptedDowns' = acceptedDowns + 1
  /\ UNCHANGED <<snapshot, frame, ignoredDowns>>

DoMove(key, p) ==
  /\ contacts' = Move(contacts, key, p)
  /\ UNCHANGED <<snapshot, nextId, frame, counters>>

DoUp(key, p, cancel) ==
  /\ contacts' = Up(contacts, key, p, cancel)
  /\ UNCHANGED <<snapshot, nextId, frame, counters>>

DoCancelAll ==
  /\ contacts' = CancelAll(contacts)
  /\ UNCHANGED <<snapshot, nextId, frame, counters>>

\* begin_frame(): the same id returns the stored snapshot and changes nothing.
BeginFrame(id) ==
  /\ id # frame
  /\ frame' = id
  /\ contacts' = Framed(contacts)
  /\ snapshot' = SnapshotOf(contacts)
  /\ UNCHANGED <<nextId, counters>>

\* clear(): used by the tests between scenarios, never by the payload.
Clear ==
  /\ contacts' = NoTouches
  /\ snapshot' = NoTouches
  /\ frame' = NoFrame
  /\ UNCHANGED <<nextId, counters>>

NewFrame == \E id \in FrameIds : BeginFrame(id)

PayloadNext ==
  \/ \E key \in Keys : DownIgnored(key)
  \/ \E key \in Keys, p \in Positions : DownAccepted(key, p)
  \/ \E key \in Keys, p \in Positions : DoMove(key, p)
  \/ \E key \in Keys, p \in Positions, cancel \in BOOLEAN : DoUp(key, p, cancel)
  \/ DoCancelAll
  \/ NewFrame

Next == PayloadNext \/ Clear

Spec == Init /\ [][Next]_vars

-----------------------------------------------------------------------------
\* Every variable has the type its declaration gives it.
TypeOK ==
  /\ DOMAIN contacts \subseteq 1 .. nextId - 1
  /\ \A f \in DOMAIN contacts : contacts[f] \in Contact
  /\ DOMAIN snapshot \subseteq 1 .. nextId - 1
  /\ \A f \in DOMAIN snapshot : snapshot[f] \in Touch
  /\ nextId \in Nat \ {0}
  /\ frame \in FrameIds \cup {NoFrame}
  /\ acceptedDowns \in Nat
  /\ ignoredDowns \in Nat

\* begin_frame writes touches[count++] into an array of Capacity elements
\* without a check of its own: only down()'s limit keeps the index in bounds.
SnapshotFits ==
  /\ Cardinality(DOMAIN contacts) <= Capacity
  /\ Cardinality(DOMAIN snapshot) <= Capacity

\* A Windows id names at most one live contact, however it was reused, so
\* move() and up() never reach two fingers.
OneLiveContactPerKey ==
  \A f, g \in Live(contacts) : contacts[f].key = contacts[g].key => f = g

\* The snapshot reports exactly the contacts that have begun; it agrees with
\* them on where they were last seen, and a contact is marked emitted exactly
\* when the game is being shown how it ended.
SnapshotMatchesContacts ==
  /\ DOMAIN snapshot = {f \in DOMAIN contacts : contacts[f].began}
  /\ \A f \in DOMAIN contacts :
       contacts[f].emitted <=>
         f \in DOMAIN snapshot /\ snapshot[f].phase \in TerminalPhases
  /\ \A f \in DOMAIN snapshot :
       /\ snapshot[f].position = contacts[f].last
       /\ snapshot[f].phase \in TerminalPhases =>
            contacts[f].terminal /\ snapshot[f].phase = contacts[f].finish

\* Contacts waiting for their first frame are the newest ones: the game sees
\* fingers begin in the order of their numbers, whatever was lost in between.
PendingAreNewest ==
  \A f \in DOMAIN contacts : ~contacts[f].began =>
    \A g \in f .. nextId - 1 : g \in DOMAIN contacts /\ ~contacts[g].began

\* Once a contact is terminal neither a late move, up nor a focus loss
\* changes how or where it ends: the game sees the first verdict.
TerminalIsFinal ==
  [][\A f \in DOMAIN contacts \cap DOMAIN contacts' :
       contacts[f].terminal =>
         /\ contacts'[f].terminal
         /\ contacts'[f].finish = contacts[f].finish
         /\ contacts'[f].position = contacts[f].position]_vars

-----------------------------------------------------------------------------
\* The fingers that can no longer begin: all numbers given out, except the
\* contacts still waiting for their first frame.
UsedFingers ==
  {f \in 1 .. nextId - 1 : ~(f \in DOMAIN contacts /\ ~contacts[f].began)}

Contract == INSTANCE TouchContract WITH view <- snapshot, used <- UsedFingers

\* Every member function keeps the promise made to the game.
ImplementsContract == Contract!Spec
=============================================================================
