------------------------------- MODULE GiStub -------------------------------
(***************************************************************************)
(* The one-shot hook of GI's initialization function (gi_stubs.asm),       *)
(* entered by any number of the game's threads through the jump that       *)
(* install_gi wrote.  One of them restores the function; all of them call  *)
(* it; the one then selects the mobile layout and touch input.             *)
(***************************************************************************)
EXTENDS RemoteSetup

CONSTANTS
  Threads,     \* threads of the game that call the function
  MaxCalls     \* bound: calls of each thread
ASSUME MaxCallsAssumption == MaxCalls \in Nat

VARIABLES
  state,       \* GiContext::state: 0 untouched, 1 being restored, 2 restored
  outcome,     \* GiContext::outcome, as the set of its bits
  at,          \* where each thread is
  first,       \* the threads whose stack slot says that they won the exchange
  calls,       \* its calls so far
  ran,         \* how often they ran the original function
  setters      \* how often a setter of the game was called

stubVars == <<state, outcome, at, first, calls, ran, setters>>

Places == {"idle", "enter", "restore", "flush", "protect", "publish", "wait",
           "call", "original", "objects", "set_ui", "set_input"}

StubTypeOK ==
  /\ state \in 0 .. 2
  /\ outcome \subseteq {1, 2, 4, 8}
  /\ at \in [Threads -> Places]
  /\ first \subseteq Threads
  /\ calls \in [Threads -> 0 .. MaxCalls]
  /\ ran \in [Threads -> 0 .. MaxCalls]
  /\ setters \in 0 .. 2

StubInit ==
  /\ state = 0
  /\ outcome = {}
  /\ at = [t \in Threads |-> "idle"]
  /\ first = {}
  /\ calls = [t \in Threads |-> 0]
  /\ ran = [t \in Threads |-> 0]
  /\ setters = 0

Go(t, from, to) == at[t] = from /\ at' = [at EXCEPT ![t] = to]

Same == UNCHANGED <<owned, block, remote, uiState, started, polls>>

-----------------------------------------------------------------------------
\* The game calls the function.  The processor takes the sixteen bytes as one:
\* the jump with its pointer, or the original instructions.
CallsFunction(t) ==
  /\ child = "running" /\ kind = "legacy"
  /\ calls[t] < MaxCalls
  /\ Go(t, "idle", IF target.bytes = "original" THEN "original" ELSE "enter")
  /\ calls' = [calls EXCEPT ![t] = @ + 1]
  /\ first' = first \ {t}
  /\ UNCHANGED <<state, outcome, ran, setters, target>>

\* Mutant: an unlocked test of the state, so that those who lose do not wait.
EntersUnguarded(t) ==
  /\ IF state = 0
     THEN /\ Go(t, "enter", "restore")
          /\ state' = 1
          /\ first' = first \cup {t}
     ELSE Go(t, "enter", "call") /\ UNCHANGED <<state, first>>
  /\ UNCHANGED <<outcome, calls, ran, setters, target>>

\* lock cmpxchg of the state.
Enters(t) ==
  /\ IF state = 0
     THEN /\ Go(t, "enter", "restore")
          /\ state' = 1
          /\ first' = first \cup {t}
     ELSE Go(t, "enter", "wait") /\ UNCHANGED <<state, first>>
  /\ UNCHANGED <<outcome, calls, ran, setters, target>>

RestoresBytes(t) ==
  /\ Go(t, "restore", "flush")
  /\ target' = [target EXCEPT !.bytes = "original"]
  /\ UNCHANGED <<state, outcome, first, calls, ran, setters>>

Flushes(t) ==
  /\ Go(t, "flush", "protect")
  /\ outcome' \in {outcome, outcome \cup {8}}
  /\ UNCHANGED <<state, first, calls, ran, setters, target>>

Protects(t) ==
  /\ Go(t, "protect", "publish")
  /\ \/ target' = [target EXCEPT !.prot = "RX"] /\ UNCHANGED outcome
     \/ outcome' = outcome \cup {4} /\ UNCHANGED target
  /\ UNCHANGED <<state, first, calls, ran, setters>>

\* Mutant: a function whose page could not be protected is not announced.
PublishesProtected(t) ==
  /\ Go(t, "publish", "wait")
  /\ state' = IF 4 \in outcome THEN state ELSE 2
  /\ UNCHANGED <<outcome, first, calls, ran, setters, target>>

Publishes(t) ==
  /\ Go(t, "publish", "wait")
  /\ state' = 2
  /\ UNCHANGED <<outcome, first, calls, ran, setters, target>>

\* gi_wait, gi_original: the caller's registers are loaded and [rbx] called.
Waited(t) ==
  /\ state = 2
  /\ Go(t, "wait", "call")
  /\ UNCHANGED <<state, outcome, first, calls, ran, setters, target>>

CallsOriginal(t) ==
  /\ Go(t, "call", IF target.bytes = "original" THEN "original" ELSE "enter")
  /\ UNCHANGED <<state, outcome, first, calls, ran, setters, target>>

\* The original function returns, to the stub or straight to the game.
Returns(t) ==
  /\ Go(t, "original", IF t \in first THEN "objects" ELSE "idle")
  /\ ran' = [ran EXCEPT ![t] = @ + 1]
  /\ UNCHANGED <<state, outcome, first, calls, setters, target>>

\* Class, layout object and input object exist, or one of them does not yet.
FindsObjects(t) ==
  /\ \/ Go(t, "objects", "set_ui") /\ UNCHANGED outcome
     \/ Go(t, "objects", "idle") /\ outcome' = outcome \cup {2}
  /\ UNCHANGED <<state, first, calls, ran, setters, target>>

SetsUi(t) ==
  /\ Go(t, "set_ui", "set_input")
  /\ setters' = setters + 1
  /\ UNCHANGED <<state, outcome, first, calls, ran, target>>

SetsInput(t) ==
  /\ Go(t, "set_input", "idle")
  /\ setters' = setters + 1
  /\ outcome' = outcome \cup {1}
  /\ UNCHANGED <<state, first, calls, ran, target>>

\* What a thread does once it has entered.
Runs(t) ==
  /\ \/ Enters(t) \/ RestoresBytes(t) \/ Flushes(t) \/ Protects(t) \/ Publishes(t)
     \/ Waited(t) \/ CallsOriginal(t) \/ Returns(t)
     \/ FindsObjects(t) \/ SetsUi(t) \/ SetsInput(t)
  /\ Same

GameThread(t) == (CallsFunction(t) /\ Same) \/ Runs(t)
=============================================================================
