------------------------------ MODULE IcallHooks ------------------------------
(***************************************************************************)
(* How the payload puts its hooks into Unity's icall table and takes them  *)
(* out again (games/zzz/src/payload.cpp: exchange_slot, install_icalls,    *)
(* worker).  Three slots are exchanged one after the other; each exchange  *)
(* may fail, and another module may put a function of its own, which calls *)
(* the one it found, into any slot at any time.  The table as a whole is   *)
(* never exchanged atomically.                                             *)
(***************************************************************************)
EXTENDS Naturals, FiniteSets

CONSTANTS
  MaxAttempts,      \* tries of install_icalls (600 in the code)
  MaxDisturbances   \* bound on failed calls and rival hooks together

Slots == {"count", "touch", "supported"}

ASSUME AttemptsAssumption == MaxAttempts \in Nat \ {0}
ASSUME DisturbanceAssumption == MaxDisturbances \in Nat

\* "unresolved" is a null or not executable pointer, "unity" the engine's own
\* function, "hook" this bridge's, "rival" another module's.
Functions == {"unresolved", "unity", "hook", "rival"}

VARIABLES
  slot,           \* the table
  original,       \* original_count, original_touch, original_supported
  rivalSaved,     \* what the rival's function calls; "none" before it hooks
  at,             \* where the worker is: <<what, which slot>>
  attempts, hooksReady, reportedConflict,
  disturbances

hookVars == <<slot, original, rivalSaved, at, attempts, hooksReady,
          reportedConflict, disturbances>>

Disturb ==
  /\ disturbances < MaxDisturbances
  /\ disturbances' = disturbances + 1

Goes(from, to) == at = from /\ at' = to

-----------------------------------------------------------------------------
\* Mutant: the exchange's result is not looked at.
ExchangeAssumed(s, expected, replacement) ==
  /\ slot' = IF slot[s] = expected THEN [slot EXCEPT ![s] = replacement] ELSE slot
  /\ UNCHANGED disturbances

\* Mutant: the pointer is stored whatever the slot holds.
ExchangeBlindly(s, expected, replacement) ==
  /\ slot' = [slot EXCEPT ![s] = replacement]
  /\ UNCHANGED disturbances

\* exchange_slot: VirtualProtect may fail, the exchange is conditional.
ExchangeSucceeds(s, expected, replacement) ==
  /\ slot[s] = expected
  /\ slot' = [slot EXCEPT ![s] = replacement]
  /\ UNCHANGED disturbances

ExchangeFails(s, expected) ==
  /\ \/ slot[s] # expected /\ UNCHANGED disturbances
     \/ Disturb
  /\ UNCHANGED slot

\* The attempt failed: sleep and start over, or give the installation up.
Retry ==
  /\ attempts' = attempts + 1
  /\ at' = IF attempts + 1 < MaxAttempts THEN <<"read", "count">>
           ELSE <<"gave_up", "none">>

\* The pointers are read one by one, and kept as the originals at once.
ReadOriginal(s) ==
  /\ Goes(<<"read", s>>, CASE s = "count" -> <<"read", "touch">>
                           [] s = "touch" -> <<"read", "supported">>
                           [] s = "supported" -> <<"validate", "all">>)
  /\ original' = [original EXCEPT ![s] = slot[s]]
  /\ UNCHANGED <<slot, rivalSaved, attempts, hooksReady, reportedConflict,
                 disturbances>>

\* The three originals must be there, and so must three more pointers (frame
\* count, width, height), which may be missing at any attempt.
Validate ==
  /\ at = <<"validate", "all">>
  /\ \/ Retry
     \/ /\ \A s \in Slots : original[s] # "unresolved"
        /\ at' = <<"hook", "touch">> /\ UNCHANGED attempts
  /\ UNCHANGED <<slot, original, rivalSaved, hooksReady, reportedConflict,
                 disturbances>>

Hook(s) ==
  /\ at = <<"hook", s>>
  /\ \/ /\ ExchangeSucceeds(s, original[s], "hook")
        /\ at' = CASE s = "touch" -> <<"hook", "supported">>
                   [] s = "supported" -> <<"hook", "count">>
                   [] s = "count" -> <<"watch", "all">>
        /\ hooksReady' = (s = "count")
        /\ UNCHANGED attempts
     \/ /\ ExchangeFails(s, original[s])
        /\ CASE s = "touch" -> Retry
             [] s = "supported" -> at' = <<"undo", "touch">> /\ UNCHANGED attempts
             [] s = "count" -> at' = <<"undo", "supported">> /\ UNCHANGED attempts
        /\ UNCHANGED hooksReady
  /\ UNCHANGED <<original, rivalSaved, reportedConflict>>

\* Mutant: the touch slot is not put back.
UndoOne(s) ==
  /\ at = <<"undo", s>>
  /\ IF s = "touch" THEN UNCHANGED <<slot, disturbances>>
     ELSE \/ ExchangeSucceeds(s, "hook", original[s])
          \/ ExchangeFails(s, "hook")
  /\ IF s = "supported"
     THEN at' = <<"undo", "touch">> /\ UNCHANGED attempts
     ELSE Retry
  /\ UNCHANGED <<original, rivalSaved, hooksReady, reportedConflict>>

\* What the undoing exchanges return is ignored.
Undo(s) ==
  /\ at = <<"undo", s>>
  /\ \/ ExchangeSucceeds(s, "hook", original[s])
     \/ ExchangeFails(s, "hook")
  /\ IF s = "supported"
     THEN at' = <<"undo", "touch">> /\ UNCHANGED attempts
     ELSE Retry
  /\ UNCHANGED <<original, rivalSaved, hooksReady, reportedConflict>>

\* The worker looks at the table until somebody has changed it.
Watch ==
  /\ at = <<"watch", "all">>
  /\ IF ~reportedConflict /\ \E s \in Slots : slot[s] # "hook"
     THEN reportedConflict' = TRUE /\ at' = <<"release", "count">>
     ELSE UNCHANGED <<reportedConflict, at>>
  /\ UNCHANGED <<slot, original, rivalSaved, attempts, hooksReady, disturbances>>

\* Mutant: only the slots before the changed one are released.
ReleaseUntilChanged(s) ==
  /\ at = <<"release", s>>
  /\ \/ ExchangeSucceeds(s, "hook", original[s])
     \/ ExchangeFails(s, "hook")
  /\ at' = IF s = "count" /\ slot[s] = "hook" THEN <<"release", "touch">>
           ELSE IF s = "touch" /\ slot[s] = "hook" THEN <<"release", "supported">>
           ELSE <<"watch", "all">>
  /\ UNCHANGED <<original, rivalSaved, attempts, hooksReady, reportedConflict>>

Release(s) ==
  /\ Goes(<<"release", s>>, CASE s = "count" -> <<"release", "touch">>
                              [] s = "touch" -> <<"release", "supported">>
                              [] s = "supported" -> <<"watch", "all">>)
  /\ \/ ExchangeSucceeds(s, "hook", original[s])
     \/ ExchangeFails(s, "hook")
  /\ UNCHANGED <<original, rivalSaved, attempts, hooksReady, reportedConflict>>

Worker ==
  \/ Validate \/ Watch
  \/ \E s \in Slots : ReadOriginal(s) \/ Hook(s) \/ Release(s)
  \/ \E s \in {"supported", "touch"} : Undo(s)

-----------------------------------------------------------------------------
(* The rest of the process                                                 *)

UnityResolves(s) ==
  /\ slot[s] = "unresolved"
  /\ slot' = [slot EXCEPT ![s] = "unity"]
  /\ UNCHANGED <<original, rivalSaved, at, attempts, hooksReady,
                 reportedConflict, disturbances>>

\* Another module hooks a slot as this one does, with one exchange.
RivalHooks(s) ==
  /\ Disturb
  /\ slot[s] # "unresolved"
  /\ rivalSaved[s] = "none"
  /\ rivalSaved' = [rivalSaved EXCEPT ![s] = slot[s]]
  /\ slot' = [slot EXCEPT ![s] = "rival"]
  /\ UNCHANGED <<original, at, attempts, hooksReady, reportedConflict>>

Process == \E s \in Slots : UnityResolves(s) \/ RivalHooks(s)

HooksInit ==
  /\ slot \in [Slots -> {"unresolved", "unity"}]
  /\ original = [s \in Slots |-> "unresolved"]
  /\ rivalSaved = [s \in Slots |-> "none"]
  /\ at = <<"read", "count">>
  /\ attempts = 0
  /\ hooksReady = FALSE
  /\ reportedConflict = FALSE
  /\ disturbances = 0

HooksNext == Worker \/ Process

HooksSpec == HooksInit /\ [][HooksNext]_hookVars

-----------------------------------------------------------------------------
(* Properties                                                              *)

\* What the function f, found in slot s, calls.
Callee(s, f) ==
  IF f = "hook" THEN original[s] ELSE IF f = "rival" THEN rivalSaved[s] ELSE f

Called(s) == {slot[s], Callee(s, slot[s]), Callee(s, Callee(s, slot[s]))}

\* Every variable has its type; the worker tries no more than MaxAttempts times.
HooksTypeOK ==
  /\ slot \in [Slots -> Functions]
  /\ original \in [Slots -> Functions]
  /\ rivalSaved \in [Slots -> Functions \cup {"none"}]
  /\ at \in ({"read", "hook", "undo", "release"} \X Slots)
              \cup {<<"validate", "all">>, <<"watch", "all">>, <<"gave_up", "none">>}
  /\ attempts \in 0..MaxAttempts
  /\ hooksReady \in BOOLEAN
  /\ reportedConflict \in BOOLEAN
  /\ disturbances \in 0..MaxDisturbances

\* A call through any resolved slot ends in Unity's own function: the hooks
\* call the "original" callbacks (payload.cpp:178-199), never each other in a
\* circle.
CallsReachUnity ==
  \A s \in Slots :
    slot[s] # "unresolved" => Callee(s, Callee(s, slot[s])) = "unity"

\* What of this holds: one failed exchange, or one rival hook, at whatever
\* step it comes, never closes a circle.
OneDisturbanceIsHarmless == disturbances <= 1 => CallsReachUnity

NothingFailed ==
  disturbances = Cardinality({s \in Slots : rivalSaved[s] # "none"})

\* Another module's hook is never lost from its slot's chain of calls,
\* whatever is installed, undone and released around it (all exchanges are
\* conditional, payload.cpp:83), as long as no exchange is refused by Windows.
RivalsStayCalled ==
  NothingFailed =>
    \A s \in Slots : rivalSaved[s] # "none" => "rival" \in Called(s)

\* hooks_ready means that the game's calls pass the bridge in all three slots
\* until a conflict is found; a partial set is never announced.
ReadyMeansAllHooked ==
  (hooksReady /\ ~reportedConflict) => \A s \in Slots : "hook" \in Called(s)

\* Once a conflict has been dealt with, no slot is left directly at the
\* bridge, unless a call failed.
ConflictReleasesAll ==
  (/\ at = <<"watch", "all">>
   /\ reportedConflict
   /\ NothingFailed) => \A s \in Slots : slot[s] # "hook"
=============================================================================
