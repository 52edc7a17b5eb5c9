----------------------------- MODULE ContactOps -----------------------------
(***************************************************************************)
(* The data of touch::State (games/zzz/include/touch_state.hpp): contacts, *)
(* the touches reported for them, and what each member function does to a  *)
(* collection of contacts.                                                 *)
(*                                                                         *)
(* `contacts` is a vector in the code.  push_back always appends the next  *)
(* finger number and erase_if is stable, so the vector is ordered by       *)
(* finger; it is modelled as a function from fingers to contacts, and a    *)
(* touch's index in the snapshot is the rank of its finger.  A position is *)
(* a member of Positions: only "same or different" matters to a phase.     *)
(***************************************************************************)
EXTENDS Integers, FiniteSets

CONSTANTS
  Keys,       \* 64-bit contact keys: (event source, Windows id)
  Positions,  \* normalized client coordinates
  Capacity    \* contacts held at once, and touches in a snapshot (10)

ASSUME CapacityAssumption == Capacity \in Nat \ {0}

Fingers == Nat \ {0}

TerminalPhases == {"Ended", "Canceled"}

Phases == {"Began", "Moved", "Stationary"} \cup TerminalPhases

\* State::Contact.  `emitted` is terminal_emitted.
Contact == [key : Keys, position : Positions, last : Positions,
            began : BOOLEAN, terminal : BOOLEAN, emitted : BOOLEAN,
            finish : TerminalPhases]

\* What a UnityTouch tells the game: delta_position is position minus `from`.
Touch == [from : Positions, position : Positions, phase : Phases]

NoTouches == [f \in {} |-> 0]

Live(cs) == {f \in DOMAIN cs : ~cs[f].terminal}

LiveWith(cs, key) == {f \in Live(cs) : cs[f].key = key}

-----------------------------------------------------------------------------
(* down() *)

NewContact(key, p) ==
  [key |-> key, position |-> p, last |-> p,
   began |-> FALSE, terminal |-> FALSE, emitted |-> FALSE, finish |-> "Ended"]

\* Mutant: a repeated down of a live key is not recognised.
IsDuplicateNever(cs, key) == FALSE

\* A second down of a live key returns early.
IsDuplicate(cs, key) == LiveWith(cs, key) # {}

\* Mutant: the capacity test is off by one.
IsFullOffByOne(cs) == Cardinality(DOMAIN cs) > Capacity

IsFull(cs) == Cardinality(DOMAIN cs) >= Capacity

Push(cs, finger, key, p) ==
  [f \in DOMAIN cs \cup {finger} |->
     IF f = finger THEN NewContact(key, p) ELSE cs[f]]

-----------------------------------------------------------------------------
(* move(), up(), cancel_all() *)

Move(cs, key, p) ==
  [f \in DOMAIN cs |->
     IF f \in LiveWith(cs, key) THEN [cs[f] EXCEPT !.position = p] ELSE cs[f]]

Up(cs, key, p, cancel) ==
  [f \in DOMAIN cs |->
     IF f \in LiveWith(cs, key)
     THEN [cs[f] EXCEPT !.position = p, !.terminal = TRUE,
                        !.finish = IF cancel THEN "Canceled" ELSE "Ended"]
     ELSE cs[f]]

\* Mutant: cancellation also rewrites contacts that already ended.
CancelAllOverwriting(cs) ==
  [f \in DOMAIN cs |-> [cs[f] EXCEPT !.terminal = TRUE, !.finish = "Canceled"]]

CancelAll(cs) ==
  [f \in DOMAIN cs |->
     IF f \in Live(cs)
     THEN [cs[f] EXCEPT !.terminal = TRUE, !.finish = "Canceled"]
     ELSE cs[f]]

-----------------------------------------------------------------------------
(* begin_frame() for a new frame id: contacts whose terminal phase has been *)
(* reported are erased, and every other one is reported.                    *)

\* Mutant: contacts are erased when terminal, before the game is told.
RetainedUntilTerminal(cs) == {f \in DOMAIN cs : ~cs[f].terminal}

Retained(cs) == {f \in DOMAIN cs : ~cs[f].emitted}

\* Mutant: the terminal test comes before the first-frame test.
PhaseOfTerminalFirst(c) ==
  IF c.terminal THEN c.finish
  ELSE IF ~c.began THEN "Began"
  ELSE IF c.position # c.last THEN "Moved" ELSE "Stationary"

PhaseOf(c) ==
  IF ~c.began THEN "Began"
  ELSE IF c.terminal THEN c.finish
  ELSE IF c.position # c.last THEN "Moved" ELSE "Stationary"

Report(c) ==
  [from |-> IF c.began THEN c.last ELSE c.position,
   position |-> c.position,
   phase |-> PhaseOf(c)]

\* Mutant: the terminal frame is not remembered.
ReportedNeverEmitted(c) == [c EXCEPT !.began = TRUE, !.last = c.position]

Reported(c) ==
  [c EXCEPT !.began = TRUE, !.emitted = c.began /\ c.terminal,
            !.last = c.position]

SnapshotOf(cs) == [f \in Retained(cs) |-> Report(cs[f])]

\* Mutant: a contact is erased in the frame that reports its end.
FramedErasingEnded(cs) ==
  [f \in {g \in Retained(cs) : ~Reported(cs[g]).emitted} |-> Reported(cs[f])]

Framed(cs) == [f \in Retained(cs) |-> Reported(cs[f])]
=============================================================================
