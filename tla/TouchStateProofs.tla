-------------------------- MODULE TouchStateProofs --------------------------
(***************************************************************************)
(* Proofs about TouchState, for every set of keys, positions and frame     *)
(* ids, every capacity and any number of downs.                            *)
(***************************************************************************)
EXTENDS TouchState, FiniteSetTheorems, TLAPS

\* The inductive invariant: capacity is what keeps the snapshot in bounds, and
\* the agreement of snapshot and contacts is what makes frames continuous.
IInv ==
  /\ TypeOK
  /\ SnapshotFits
  /\ OneLiveContactPerKey
  /\ SnapshotMatchesContacts
  /\ PendingAreNewest

-----------------------------------------------------------------------------
(* Facts about the operators.                                              *)

\* A touch made from a contact is a touch.
LEMMA ReportType ==
  ASSUME NEW c \in Contact
  PROVE  Report(c) \in Touch /\ Reported(c) \in Contact
BY DEF Report, Reported, PhaseOf, Contact, Touch, Phases, TerminalPhases

\* The fields of a touch, one by one.
LEMMA ReportFields ==
  ASSUME NEW c
  PROVE  /\ Report(c).from = IF c.began THEN c.last ELSE c.position
         /\ Report(c).position = c.position
         /\ Report(c).phase = PhaseOf(c)
BY DEF Report

\* move, up and cancel_all rewrite contacts in place: no finger comes or goes,
\* none returns to life, and what the snapshot has recorded is not touched.
InPlace(cs, ds) ==
  /\ DOMAIN ds = DOMAIN cs
  /\ \A f \in DOMAIN cs :
       /\ ds[f] \in Contact
       /\ ds[f].key = cs[f].key
       /\ ds[f].last = cs[f].last
       /\ ds[f].began = cs[f].began
       /\ ds[f].emitted = cs[f].emitted
       /\ cs[f].terminal => ds[f] = cs[f]

\* move brings and revives no contact.
LEMMA MoveInPlace ==
  ASSUME NEW cs, \A f \in DOMAIN cs : cs[f] \in Contact,
         NEW key \in Keys, NEW p \in Positions
  PROVE  InPlace(cs, Move(cs, key, p))
BY DEF InPlace, Move, LiveWith, Live, Contact

\* up brings and revives no contact.
LEMMA UpInPlace ==
  ASSUME NEW cs, \A f \in DOMAIN cs : cs[f] \in Contact,
         NEW key \in Keys, NEW p \in Positions, NEW cancel \in BOOLEAN
  PROVE  InPlace(cs, Up(cs, key, p, cancel))
BY DEF InPlace, Up, LiveWith, Live, Contact, TerminalPhases

\* cancel_all brings and revives no contact.
LEMMA CancelAllInPlace ==
  ASSUME NEW cs, \A f \in DOMAIN cs : cs[f] \in Contact
  PROVE  InPlace(cs, CancelAll(cs))
BY DEF InPlace, CancelAll, Live, Contact, TerminalPhases

\* Fingers given out so far form a finite set, so its subsets can be counted.
LEMMA FingersFinite ==
  ASSUME NEW n \in Nat \ {0}, NEW S, S \subseteq 1 .. n - 1
  PROVE  IsFiniteSet(S) /\ Cardinality(S) \in Nat
<1>1. IsFiniteSet(1 .. n - 1)
  BY FS_Interval
<1>2. IsFiniteSet(S)
  BY <1>1, FS_Subset
<1> QED
  BY <1>2, FS_CardinalityType

-----------------------------------------------------------------------------
\* The invariant holds of an empty State.
LEMMA InitInv == Init => IInv
<1> SUFFICES ASSUME Init PROVE IInv
  OBVIOUS
<1>1. DOMAIN NoTouches = {}
  BY DEF NoTouches
<1>2. TypeOK
  BY <1>1 DEF Init, TypeOK, NoFrame
<1>3. SnapshotFits
  BY <1>1, FS_EmptySet, CapacityAssumption DEF Init, SnapshotFits
<1>4. OneLiveContactPerKey
  BY <1>1 DEF Init, OneLiveContactPerKey, Live
<1>5. SnapshotMatchesContacts /\ PendingAreNewest
  BY <1>1 DEF Init, SnapshotMatchesContacts, PendingAreNewest
<1> QED
  BY <1>2, <1>3, <1>4, <1>5 DEF IInv

\* An operation that rewrites contacts in place keeps the invariant.
LEMMA InPlaceInv ==
  ASSUME IInv, InPlace(contacts, contacts'),
         UNCHANGED <<snapshot, nextId, frame, counters>>
  PROVE  IInv'
<1>1. TypeOK'
  BY DEF IInv, TypeOK, InPlace, counters
<1>2. SnapshotFits'
  BY DEF IInv, SnapshotFits, InPlace
<1>3. OneLiveContactPerKey'
  BY DEF IInv, OneLiveContactPerKey, InPlace, Live
<1>4. SnapshotMatchesContacts'
  BY DEF IInv, SnapshotMatchesContacts, InPlace
<1>5. PendingAreNewest'
  BY DEF IInv, TypeOK, PendingAreNewest, InPlace
<1> QED
  BY <1>1, <1>2, <1>3, <1>4, <1>5 DEF IInv

\* A contact added at the end keeps the invariant.
LEMMA DownAcceptedInv ==
  ASSUME IInv, NEW key \in Keys, NEW p \in Positions, DownAccepted(key, p)
  PROVE  IInv'
<1> DEFINE new == NewContact(key, p)
<1>1. /\ DOMAIN contacts' = DOMAIN contacts \cup {nextId}
      /\ contacts'[nextId] = new
      /\ nextId \notin DOMAIN contacts /\ nextId \notin DOMAIN snapshot
      /\ \A f \in DOMAIN contacts : contacts'[f] = contacts[f]
  BY DEF IInv, TypeOK, DownAccepted, Push
<1>2. new \in Contact /\ ~new.began /\ ~new.terminal /\ ~new.emitted /\ new.key = key
  BY DEF NewContact, Contact, TerminalPhases
<1>3. TypeOK'
  BY <1>1, <1>2 DEF IInv, TypeOK, DownAccepted
<1>4. SnapshotFits'
  <2>1. IsFiniteSet(DOMAIN contacts) /\ Cardinality(DOMAIN contacts) \in Nat
    BY FingersFinite DEF IInv, TypeOK
  <2>2. Cardinality(DOMAIN contacts') = Cardinality(DOMAIN contacts) + 1
    BY <1>1, <2>1, FS_AddElement
  <2>3. Cardinality(DOMAIN contacts) < Capacity
    BY <2>1, CapacityAssumption DEF DownAccepted, IsFull
  <2> QED
    BY <2>1, <2>2, <2>3, CapacityAssumption DEF IInv, SnapshotFits, DownAccepted
<1>5. OneLiveContactPerKey'
  <2>1. \A f \in DOMAIN contacts : ~contacts[f].terminal => contacts[f].key # key
    BY DEF DownAccepted, IsDuplicate, LiveWith, Live
  <2> QED
    BY <1>1, <1>2, <2>1 DEF IInv, OneLiveContactPerKey, Live
<1>6. SnapshotMatchesContacts'
  <2>1. snapshot' = snapshot
    BY DEF DownAccepted
  <2> QED
    BY <1>1, <1>2, <2>1 DEF IInv, SnapshotMatchesContacts
<1>7. PendingAreNewest'
  <2> SUFFICES ASSUME NEW f \in DOMAIN contacts', ~contacts'[f].began,
                      NEW g \in f .. nextId' - 1
               PROVE  g \in DOMAIN contacts' /\ ~contacts'[g].began
    BY DEF PendingAreNewest
  <2>1. nextId' = nextId + 1 /\ nextId \in Nat
    BY DEF DownAccepted, IInv, TypeOK
  <2>2. CASE g = nextId
    BY <1>1, <1>2, <2>2
  <2>3. CASE g # nextId
    <3>1. f \in DOMAIN contacts /\ f \in Nat
      BY <1>1, <2>1, <2>3 DEF IInv, TypeOK
    <3>2. g \in f .. nextId - 1
      BY <2>1, <2>3, <3>1
    <3> QED
      BY <1>1, <3>1, <3>2 DEF IInv, PendingAreNewest
  <2> QED
    BY <2>2, <2>3
<1> QED
  BY <1>3, <1>4, <1>5, <1>6, <1>7 DEF IInv

\* A new frame is the step the whole invariant is for.
LEMMA BeginFrameInv ==
  ASSUME IInv, NEW id \in FrameIds, BeginFrame(id)
  PROVE  IInv'
<1>1. /\ DOMAIN contacts' = Retained(contacts)
      /\ DOMAIN snapshot' = Retained(contacts)
      /\ Retained(contacts) \subseteq DOMAIN contacts
      /\ \A f \in Retained(contacts) :
           /\ contacts[f] \in Contact
           /\ contacts'[f] = Reported(contacts[f])
           /\ snapshot'[f] = Report(contacts[f])
  BY DEF IInv, TypeOK, BeginFrame, Framed, SnapshotOf, Retained
<1>2. TypeOK'
  BY <1>1, ReportType DEF IInv, TypeOK, BeginFrame, counters
<1>3. SnapshotFits'
  <2>1. IsFiniteSet(DOMAIN contacts) /\ Cardinality(DOMAIN contacts) \in Nat
    BY FingersFinite DEF IInv, TypeOK
  <2>2. /\ Cardinality(Retained(contacts)) \in Nat
        /\ Cardinality(Retained(contacts)) <= Cardinality(DOMAIN contacts)
    BY <1>1, <2>1, FS_Subset, FS_CardinalityType
  <2> QED
    BY <1>1, <2>1, <2>2, CapacityAssumption DEF IInv, SnapshotFits
<1>4. OneLiveContactPerKey'
  <2>1. \A f \in Retained(contacts) :
          /\ contacts'[f].key = contacts[f].key
          /\ contacts'[f].terminal = contacts[f].terminal
    BY <1>1 DEF Reported, Contact
  <2> QED
    BY <1>1, <2>1 DEF IInv, OneLiveContactPerKey, Live
<1>5. SnapshotMatchesContacts'
  <2>1. \A f \in Retained(contacts) :
          /\ contacts'[f].began
          /\ contacts'[f].last = contacts[f].position
          /\ contacts'[f].terminal = contacts[f].terminal
          /\ contacts'[f].finish = contacts[f].finish
          /\ contacts'[f].emitted = (contacts[f].began /\ contacts[f].terminal)
    BY <1>1 DEF Reported, Contact
  <2>2. \A f \in Retained(contacts) :
          /\ snapshot'[f].position = contacts[f].position
          /\ snapshot'[f].phase \in TerminalPhases <=>
               contacts[f].began /\ contacts[f].terminal
          /\ snapshot'[f].phase \in TerminalPhases =>
               snapshot'[f].phase = contacts[f].finish
    BY <1>1 DEF Report, PhaseOf, Contact, TerminalPhases
  <2> QED
    BY <1>1, <2>1, <2>2 DEF SnapshotMatchesContacts
<1>6. PendingAreNewest'
  <2>1. \A f \in DOMAIN contacts' : contacts'[f].began
    BY <1>1 DEF Reported, Contact
  <2> QED
    BY <2>1 DEF PendingAreNewest
<1> QED
  BY <1>2, <1>3, <1>4, <1>5, <1>6 DEF IInv

\* clear keeps the invariant.
LEMMA ClearInv == IInv /\ Clear => IInv'
<1> SUFFICES ASSUME IInv, Clear PROVE IInv'
  OBVIOUS
<1>1. DOMAIN NoTouches = {}
  BY DEF NoTouches
<1>2. TypeOK'
  BY <1>1 DEF IInv, TypeOK, Clear, NoFrame, counters
<1>3. SnapshotFits'
  BY <1>1, FS_EmptySet, CapacityAssumption DEF Clear, SnapshotFits
<1>4. OneLiveContactPerKey' /\ SnapshotMatchesContacts' /\ PendingAreNewest'
  BY <1>1 DEF Clear, OneLiveContactPerKey, Live, SnapshotMatchesContacts,
              PendingAreNewest
<1> QED
  BY <1>2, <1>3, <1>4 DEF IInv

\* The invariant is inductive.
LEMMA NextInv == IInv /\ [Next]_vars => IInv'
<1> SUFFICES ASSUME IInv, [Next]_vars PROVE IInv'
  OBVIOUS
<1>0. \A f \in DOMAIN contacts : contacts[f] \in Contact
  BY DEF IInv, TypeOK
<1>1. ASSUME NEW key \in Keys, DownIgnored(key) PROVE IInv'
  BY <1>1 DEF IInv, TypeOK, SnapshotFits, OneLiveContactPerKey, Live,
              SnapshotMatchesContacts, PendingAreNewest, DownIgnored
<1>2. ASSUME NEW key \in Keys, NEW p \in Positions, DownAccepted(key, p) PROVE IInv'
  BY <1>2, DownAcceptedInv
<1>3. ASSUME NEW key \in Keys, NEW p \in Positions, DoMove(key, p) PROVE IInv'
  BY <1>0, <1>3, MoveInPlace, InPlaceInv DEF DoMove
<1>4. ASSUME NEW key \in Keys, NEW p \in Positions, NEW cancel \in BOOLEAN,
             DoUp(key, p, cancel)
      PROVE  IInv'
  BY <1>0, <1>4, UpInPlace, InPlaceInv DEF DoUp
<1>5. CASE DoCancelAll
  BY <1>0, <1>5, CancelAllInPlace, InPlaceInv DEF DoCancelAll
<1>6. CASE NewFrame
  BY <1>6, BeginFrameInv DEF NewFrame
<1>7. CASE Clear
  BY <1>7, ClearInv
<1>8. CASE UNCHANGED vars
  BY <1>8 DEF vars, counters, IInv, TypeOK, SnapshotFits, OneLiveContactPerKey,
              Live, SnapshotMatchesContacts, PendingAreNewest
<1> QED
  BY <1>1, <1>2, <1>3, <1>4, <1>5, <1>6, <1>7, <1>8 DEF Next, PayloadNext

\* The invariant, the conjuncts of IInv together, holds after any sequence of
\* calls to State (touch_state.hpp), whatever the capacity and the keys.
THEOREM Invariance == Spec => []IInv
BY InitInv, NextInv, PTL DEF Spec

\* Type correctness, array bounds, key uniqueness and the agreement of
\* snapshot and contacts, each as a property of the specification.
THEOREM TypeCorrect == Spec => []TypeOK
BY Invariance, PTL DEF IInv

\* begin_frame never writes past the snapshot's array (touch_state.hpp).
THEOREM SnapshotInBounds == Spec => []SnapshotFits
BY Invariance, PTL DEF IInv

\* move and up find at most one live contact for a key (find in touch_state.hpp).
THEOREM KeysAreUnambiguous == Spec => []OneLiveContactPerKey
BY Invariance, PTL DEF IInv

-----------------------------------------------------------------------------
(* A contact ends the way it first ended.                                  *)

\* One step keeps how and where a contact ended.
LEMMA StepKeepsTerminal ==
  ASSUME IInv, [Next]_vars,
         NEW f \in DOMAIN contacts \cap DOMAIN contacts', contacts[f].terminal
  PROVE  /\ contacts'[f].terminal
         /\ contacts'[f].finish = contacts[f].finish
         /\ contacts'[f].position = contacts[f].position
<1> DEFINE Kept == contacts'[f].terminal /\ contacts'[f].finish = contacts[f].finish
                     /\ contacts'[f].position = contacts[f].position
<1>0. \A g \in DOMAIN contacts : contacts[g] \in Contact
  BY DEF IInv, TypeOK
<1>1. CASE InPlace(contacts, contacts')
  BY <1>1 DEF InPlace
<1>2. ASSUME NEW key \in Keys, DownIgnored(key) PROVE Kept
  BY <1>2 DEF DownIgnored
<1>3. ASSUME NEW key \in Keys, NEW p \in Positions, DownAccepted(key, p) PROVE Kept
  <2>1. f # nextId
    BY DEF IInv, TypeOK
  <2> QED
    BY <1>3, <2>1 DEF DownAccepted, Push
<1>4. ASSUME NEW id \in FrameIds, BeginFrame(id) PROVE Kept
  <2>1. f \in Retained(contacts) /\ contacts'[f] = Reported(contacts[f])
    BY <1>4 DEF BeginFrame, Framed
  <2> QED
    BY <1>0, <2>1 DEF Reported, Contact
<1>5. CASE Clear
  BY <1>5 DEF Clear, NoTouches
<1>6. CASE UNCHANGED vars
  BY <1>6 DEF vars
<1> QED
  BY <1>0, <1>1, <1>2, <1>3, <1>4, <1>5, <1>6, MoveInPlace, UpInPlace,
     CancelAllInPlace
  DEF Next, PayloadNext, NewFrame, DoMove, DoUp, DoCancelAll

\* No later move, up, cancel or frame changes how or where a contact ended.
THEOREM EndsAsItFirstEnded == Spec => TerminalIsFinal
<1>1. IInv /\ [Next]_vars =>
        [\A f \in DOMAIN contacts \cap DOMAIN contacts' :
           contacts[f].terminal =>
             /\ contacts'[f].terminal
             /\ contacts'[f].finish = contacts[f].finish
             /\ contacts'[f].position = contacts[f].position]_vars
  BY StepKeepsTerminal
<1> QED
  BY <1>1, Invariance, PTL DEF Spec, TerminalIsFinal

-----------------------------------------------------------------------------
(* TouchState implements TouchContract.                                    *)

\* An empty State is an initial state of the contract.
LEMMA InitImplements == Init => Contract!Init
<1> SUFFICES ASSUME Init PROVE Contract!Init
  OBVIOUS
<1>1. UsedFingers = {}
  BY DEF Init, UsedFingers
<1> QED
  BY <1>1 DEF Init, Contract!Init, NoTouches, Contract!NoTouches, NoFrame,
              Contract!NoFrame

\* Only a new frame moves the contract; it starts the pending contacts and
\* continues the others.
LEMMA BeginFrameImplements ==
  ASSUME IInv, NEW id \in FrameIds, BeginFrame(id)
  PROVE  Contract!NewFrame(id)
<1> DEFINE Old == DOMAIN snapshot \ Contract!Finished(snapshot)
           Pending == {f \in DOMAIN contacts : ~contacts[f].began}
<1>1. /\ DOMAIN contacts' = Retained(contacts)
      /\ DOMAIN snapshot' = Retained(contacts)
      /\ \A f \in Retained(contacts) :
           /\ contacts[f] \in Contact
           /\ contacts'[f] = Reported(contacts[f])
           /\ snapshot'[f] = Report(contacts[f])
           /\ contacts'[f].began
  BY DEF IInv, TypeOK, BeginFrame, Framed, SnapshotOf, Retained, Reported, Contact
<1>2. Contract!Finished(snapshot) = {f \in DOMAIN contacts : contacts[f].emitted}
  BY DEF IInv, SnapshotMatchesContacts, Contract!Finished,
         TerminalPhases, Contract!TerminalPhases
<1>3. /\ Retained(contacts) = Old \cup Pending
      /\ Old \cap Pending = {}
      /\ \A f \in Old : contacts[f].began
  BY <1>2 DEF IInv, SnapshotMatchesContacts, Retained
<1>4. /\ UsedFingers = 1 .. nextId - 1 \ Pending
      /\ UsedFingers' = 1 .. nextId - 1
  BY <1>1 DEF UsedFingers, BeginFrame
<1>5. Pending \subseteq 1 .. nextId - 1 /\ Old \subseteq 1 .. nextId - 1
  BY <1>3 DEF IInv, TypeOK
<1>6. Old = DOMAIN snapshot' \cap UsedFingers
  BY <1>1, <1>3, <1>4, <1>5
<1>7. \A f \in Old : Contract!Continues(snapshot[f], snapshot'[f])
  <2> SUFFICES ASSUME NEW f \in Old
               PROVE  Contract!Continues(snapshot[f], snapshot'[f])
    OBVIOUS
  <2>1. /\ contacts[f] \in Contact /\ contacts[f].began
        /\ f \in DOMAIN snapshot
        /\ snapshot'[f] = Report(contacts[f])
    BY <1>1, <1>3
  <2>2. /\ snapshot'[f].from = contacts[f].last
        /\ snapshot'[f].position = contacts[f].position
        /\ snapshot'[f].phase = PhaseOf(contacts[f])
    BY <2>1, ReportFields
  <2>3. snapshot[f].position = contacts[f].last
    BY <2>1 DEF IInv, SnapshotMatchesContacts
  <2>4. contacts[f].finish \in {"Ended", "Canceled"}
    BY <2>1 DEF Contact, TerminalPhases
  <2> QED
    BY <2>1, <2>2, <2>3, <2>4
    DEF PhaseOf, Contract!Continues, Contract!TerminalPhases
<1>8. DOMAIN snapshot' \ UsedFingers = Pending
  BY <1>1, <1>3, <1>4, <1>5 DEF SnapshotMatchesContacts, IInv, TypeOK
<1>9. \A f \in Pending : Contract!Starts(snapshot'[f])
  <2>1. \A f \in Pending : /\ contacts[f] \in Contact /\ ~contacts[f].began
                           /\ snapshot'[f] = Report(contacts[f])
    BY <1>1, <1>3
  <2> QED
    BY <2>1, ReportFields DEF Contract!Starts, PhaseOf
<1>10. \A f \in Pending : \A g \in UsedFingers : g < f
  BY <1>4, <1>5 DEF IInv, TypeOK, PendingAreNewest
<1>11. Contract!Cardinality(DOMAIN snapshot') <= Capacity
  <2>1. Cardinality(DOMAIN snapshot') <= Capacity
    BY BeginFrameInv DEF IInv, SnapshotFits
  <2> QED
    BY <2>1 DEF Cardinality, Contract!Cardinality
<1>12. UsedFingers' = UsedFingers \cup DOMAIN snapshot'
  BY <1>1, <1>3, <1>4, <1>5
<1>13. id # frame /\ frame' = id
  BY DEF BeginFrame
<1> HIDE DEF Old, Pending
<1>14. \A f \in DOMAIN snapshot' \ UsedFingers :
         Contract!Starts(snapshot'[f]) /\ \A g \in UsedFingers : g < f
  BY <1>8, <1>9, <1>10
<1> QED
  BY <1>6, <1>7, <1>11, <1>12, <1>13, <1>14
  DEF Contract!NewFrame, Contract!Advance, Old

\* Every step of State is a step of the contract or leaves it unchanged.
LEMMA NextImplements == IInv /\ [Next]_vars => [Contract!Next]_(Contract!vars)
<1> SUFFICES ASSUME IInv, [Next]_vars, UNCHANGED Contract!vars => FALSE
             PROVE  Contract!Next
  OBVIOUS
<1>0. \A f \in DOMAIN contacts : contacts[f] \in Contact
  BY DEF IInv, TypeOK
<1>1. ASSUME NEW key \in Keys, DownIgnored(key) PROVE Contract!Next
  BY <1>1 DEF DownIgnored, Contract!vars, UsedFingers
<1>2. ASSUME NEW key \in Keys, NEW p \in Positions, DownAccepted(key, p)
      PROVE  Contract!Next
  <2>1. UsedFingers' = UsedFingers
    BY <1>2 DEF IInv, TypeOK, DownAccepted, Push, NewContact, UsedFingers
  <2> QED
    BY <1>2, <2>1 DEF DownAccepted, Contract!vars
<1>3. CASE InPlace(contacts, contacts') /\ UNCHANGED <<snapshot, nextId, frame>>
  BY <1>3 DEF InPlace, UsedFingers, Contract!vars
<1>4. ASSUME NEW id \in FrameIds, BeginFrame(id) PROVE Contract!Next
  BY <1>4, BeginFrameImplements DEF Contract!Next
<1>5. CASE Clear
  <2>1. UsedFingers \subseteq UsedFingers'
    BY <1>5 DEF Clear, UsedFingers, NoTouches
  <2> QED
    BY <1>5, <2>1 DEF Clear, Contract!Next, Contract!Reset, NoTouches,
                      Contract!NoTouches, NoFrame, Contract!NoFrame
<1>6. CASE UNCHANGED vars
  BY <1>6 DEF vars, UsedFingers, Contract!vars
<1> QED
  BY <1>0, <1>1, <1>2, <1>3, <1>4, <1>5, <1>6, MoveInPlace, UpInPlace,
     CancelAllInPlace
  DEF Next, PayloadNext, NewFrame, DoMove, DoUp, DoCancelAll

\* The class keeps the promise that the game relies on.
THEOREM Implementation == Spec => ImplementsContract
BY InitImplements, NextImplements, Invariance, PTL
DEF Spec, ImplementsContract, Contract!Spec
=============================================================================
