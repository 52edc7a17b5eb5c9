--------------------------- MODULE IcallHooksProofs ---------------------------
(***************************************************************************)
(* Proofs about IcallHooks, for every number of tries and of disturbances: *)
(* no call of another module's hook is lost, a partial set is never        *)
(* announced, a conflict gives every slot back, and one disturbance closes *)
(* no circle.                                                              *)
(*                                                                         *)
(* The inductive invariant says where the bridge's function can be.  Held  *)
(* is the set of slots that the worker, by where it is, has exchanged and  *)
(* not given back.  As long as Windows refuses nothing (or at most one     *)
(* thing went wrong), the bridge's function is in no other slot, and is    *)
(* never read as an "original": a try that begins finds none of its own    *)
(* hooks, so a chain of calls cannot come back to it.                      *)
(***************************************************************************)
EXTENDS IcallHooks, FiniteSetTheorems, TLAPS

-----------------------------------------------------------------------------
(* The inductive invariant                                                 *)

\* The slots hooked and not yet given back, by where the worker is.
Held ==
  CASE at = <<"hook", "supported">> -> {"touch"}
    [] at = <<"hook", "count">> -> {"touch", "supported"}
    [] at = <<"watch", "all">> -> IF reportedConflict THEN {} ELSE Slots
    [] at = <<"undo", "supported">> -> {"touch", "supported"}
    [] at = <<"undo", "touch">> -> {"touch"}
    [] at = <<"release", "count">> -> Slots
    [] at = <<"release", "touch">> -> {"touch", "supported"}
    [] at = <<"release", "supported">> -> {"supported"}
    [] OTHER -> {}

\* The slots whose pointers have been read, and not yet exchanged, in this try.
Awaiting ==
  CASE at = <<"read", "touch">> -> {"count"}
    [] at = <<"read", "supported">> -> {"count", "touch"}
    [] at = <<"validate", "all">> -> Slots
    [] at = <<"hook", "touch">> -> Slots
    [] at = <<"hook", "supported">> -> {"count", "supported"}
    [] at = <<"hook", "count">> -> {"count"}
    [] OTHER -> {}

Rivals == {s \in Slots : rivalSaved[s] # "none"}

\* Where the worker is, and what it has announced, agree.
Phases ==
  /\ at # <<"undo", "count">>
  /\ at # <<"gave_up", "none">> => attempts < MaxAttempts
  /\ hooksReady <=> at[1] \in {"watch", "release"}
  /\ reportedConflict => hooksReady
  /\ at[1] = "release" => reportedConflict

\* Every rival is one disturbance; its function is only where it hooked.
RivalsKnown ==
  /\ Cardinality(Rivals) <= disturbances
  /\ \A s \in Slots :
       /\ rivalSaved[s] \in {"none", "unity", "hook"}
       /\ ("rival" \in {slot[s], original[s]}) => s \in Rivals

\* A slot exchanged in this try passes the bridge until it is given back.
HeldPassBridge ==
  (at[1] \notin {"undo", "release"}) =>
    \A s \in Held : \/ slot[s] = "hook"
                    \/ slot[s] = "rival" /\ rivalSaved[s] = "hook"

Orderly == NothingFailed \/ disturbances <= 1

\* The bridge's function is only where the worker put it, and never an original.
HooksAreHeld ==
  Orderly => \A s \in Slots :
               /\ original[s] # "hook"
               /\ slot[s] = "hook" => s \in Held

\* A rival is in front, or right behind the bridge.
RivalsAreCalled ==
  NothingFailed => \A s \in Rivals :
                     \/ slot[s] = "rival"
                     \/ slot[s] = "hook" /\ original[s] = "rival"

\* With one disturbance: the chains, and what can still go wrong.
OneAtMost ==
  disturbances <= 1 =>
    /\ \A s \in Slots :
         /\ slot[s] = "hook" =>
              \/ original[s] = "unity"
              \/ original[s] = "rival" /\ rivalSaved[s] = "unity"
         /\ rivalSaved[s] = "hook" =>
              /\ original[s] = "unity"
              /\ at[1] \in {"hook", "watch", "release"}
              /\ s \in Held \/ at[1] \in {"release", "watch"}
    /\ \A s \in Awaiting \ Rivals :
         slot[s] = original[s] \/ original[s] = "unresolved"
    /\ at[1] = "hook" => \A s \in Slots : original[s] # "unresolved"
    /\ at[1] = "undo" => disturbances = 1 /\ \A s \in Held : slot[s] = "hook"
    /\ at[1] = "release" => Rivals # {}

IInv ==
  /\ HooksTypeOK
  /\ Phases
  /\ RivalsKnown
  /\ HeldPassBridge
  /\ HooksAreHeld
  /\ RivalsAreCalled
  /\ OneAtMost

-----------------------------------------------------------------------------
(* Counting the rivals                                                     *)

\* There are finitely many slots, so the rivals can be counted.
LEMMA RivalsAreFinite ==
  IsFiniteSet(Rivals) /\ Cardinality(Rivals) \in Nat
<1>1. IsFiniteSet(Slots)
  <2>1. Slots = (({} \cup {"count"}) \cup {"touch"}) \cup {"supported"}
    BY DEF Slots
  <2> QED BY <2>1, FS_EmptySet, FS_AddElement
<1>2. Rivals \subseteq Slots
  BY DEF Rivals
<1> QED BY <1>1, <1>2, FS_Subset, FS_CardinalityType

\* Where one rival is counted, two slots with rivals are the same.
LEMMA OneRival ==
  ASSUME Cardinality(Rivals) <= 1, NEW s \in Rivals, NEW t \in Rivals
  PROVE  s = t
<1>1. SUFFICES ASSUME s # t PROVE FALSE
  OBVIOUS
<1>2. IsFiniteSet({s, t}) /\ Cardinality({s, t}) = 2
  <2>1. IsFiniteSet({s}) /\ Cardinality({s}) = 1
    BY FS_Singleton
  <2>2. Cardinality({s} \cup {t}) = Cardinality({s}) + 1
    BY <1>1, <2>1, FS_AddElement
  <2>3. {s} \cup {t} = {s, t}
    OBVIOUS
  <2> QED BY <2>1, <2>2, <2>3, FS_AddElement
<1>3. Cardinality({s, t}) <= Cardinality(Rivals)
  BY RivalsAreFinite, FS_Subset
<1> QED BY <1>2, <1>3, RivalsAreFinite

\* Where none is counted, there is none.
LEMMA NoRival ==
  ASSUME Cardinality(Rivals) = 0 PROVE Rivals = {}
BY RivalsAreFinite, FS_EmptySet

\* A rival that hooks is one more rival and one more disturbance; no other step
\* changes the rivals, and none takes a disturbance back.
LEMMA RivalsStep ==
  ASSUME HooksTypeOK, [HooksNext]_hookVars
  PROVE  \/ /\ UNCHANGED rivalSaved
            /\ Rivals' = Rivals
            /\ disturbances' \in {disturbances, disturbances + 1}
         \/ /\ \E s \in Slots : RivalHooks(s) /\ Rivals' = Rivals \cup {s}
            /\ Cardinality(Rivals') = Cardinality(Rivals) + 1
            /\ disturbances' = disturbances + 1
<1>1. ASSUME NEW s \in Slots, RivalHooks(s)
      PROVE  /\ Rivals' = Rivals \cup {s}
             /\ Cardinality(Rivals') = Cardinality(Rivals) + 1
             /\ disturbances' = disturbances + 1
  <2>1. Rivals' = Rivals \cup {s} /\ s \notin Rivals
    BY <1>1 DEF RivalHooks, Rivals, HooksTypeOK, Functions
  <2>2. Cardinality(Rivals \cup {s}) = Cardinality(Rivals) + 1
    BY <2>1, RivalsAreFinite, FS_AddElement
  <2> QED BY <1>1, <2>1, <2>2 DEF RivalHooks, Disturb
<1>2. ASSUME ~\E s \in Slots : RivalHooks(s)
      PROVE  /\ UNCHANGED rivalSaved
             /\ disturbances' \in {disturbances, disturbances + 1}
  BY <1>2 DEF HooksNext, Worker, Process, Validate, Watch, ReadOriginal, Hook, Release,
     Undo, UnityResolves, ExchangeSucceeds, ExchangeFails, Disturb, hookVars
<1>3. UNCHANGED rivalSaved => Rivals' = Rivals
  BY DEF Rivals
<1>4. CASE \E s \in Slots : RivalHooks(s)
  <2>1. PICK s \in Slots : RivalHooks(s)
    BY <1>4
  <2> QED BY <1>1, <2>1
<1>5. CASE ~\E s \in Slots : RivalHooks(s)
  BY <1>2, <1>3, <1>5
<1> QED BY <1>4, <1>5

\* What is orderly after a step was orderly before it.
LEMMA OrderWasKept ==
  ASSUME HooksTypeOK, RivalsKnown, [HooksNext]_hookVars
  PROVE  /\ NothingFailed' => NothingFailed
         /\ Orderly' => Orderly
         /\ (disturbances <= 1)' => disturbances <= 1
<1> USE DEF HooksTypeOK
<1>1. /\ NothingFailed <=> disturbances = Cardinality(Rivals)
      /\ NothingFailed' <=> disturbances' = Cardinality(Rivals')
  BY DEF NothingFailed, Rivals
<1>2. Cardinality(Rivals) \in Nat /\ disturbances \in Nat
  BY RivalsAreFinite, DisturbanceAssumption
<1>3. NothingFailed' => NothingFailed
  BY <1>1, <1>2, RivalsStep DEF RivalsKnown
<1>4. (disturbances <= 1)' => disturbances <= 1
  BY <1>2, RivalsStep
<1> QED BY <1>3, <1>4 DEF Orderly

\* A call that Windows refused is remembered.
LEMMA RefusedIsRemembered ==
  ASSUME HooksTypeOK, RivalsKnown, UNCHANGED rivalSaved, Disturb
  PROVE  ~NothingFailed'
<1>1. NothingFailed' <=> disturbances' = Cardinality(Rivals)
  BY DEF NothingFailed, Rivals
<1>2. Cardinality(Rivals) \in Nat /\ disturbances \in Nat
  BY RivalsAreFinite, DisturbanceAssumption DEF HooksTypeOK
<1> QED BY <1>1, <1>2 DEF RivalsKnown, Disturb

-----------------------------------------------------------------------------
(* One step                                                                *)

\* Where the worker can be, place by place.
Places ==
  {<<"read", "count">>, <<"read", "touch">>, <<"read", "supported">>,
   <<"validate", "all">>, <<"hook", "touch">>, <<"hook", "supported">>,
   <<"hook", "count">>, <<"undo", "supported">>, <<"undo", "touch">>,
   <<"watch", "all">>, <<"release", "count">>, <<"release", "touch">>,
   <<"release", "supported">>, <<"gave_up", "none">>}

\* The places are those of the type, but for the undoing of the last slot.
LEMMA PlacesTyped ==
  /\ HooksTypeOK /\ Phases => at \in Places
  /\ \A p \in Places : p \in ({"read", "hook", "undo", "release"} \X Slots)
              \cup {<<"validate", "all">>, <<"watch", "all">>, <<"gave_up", "none">>}
BY DEF HooksTypeOK, Phases, Places, Slots

\* Where a try to hook a slot ends.
LEMMA HookOutcomes ==
  ASSUME NEW s \in Slots, Hook(s)
  PROVE  /\ at = <<"hook", s>>
         /\ UNCHANGED <<original, rivalSaved, reportedConflict>>
         /\ \/ /\ ExchangeSucceeds(s, original[s], "hook")
               /\ UNCHANGED attempts
               /\ hooksReady' \in BOOLEAN /\ (hooksReady' <=> s = "count")
               /\ \/ s = "touch" /\ at' = <<"hook", "supported">>
                  \/ s = "supported" /\ at' = <<"hook", "count">>
                  \/ s = "count" /\ at' = <<"watch", "all">>
            \/ /\ ExchangeFails(s, original[s])
               /\ UNCHANGED hooksReady
               /\ \/ s = "touch" /\ Retry
                  \/ /\ s = "supported"
                     /\ at' = <<"undo", "touch">>
                     /\ UNCHANGED attempts
                  \/ /\ s = "count"
                     /\ at' = <<"undo", "supported">>
                     /\ UNCHANGED attempts
<1>1. CASE s = "touch"
  BY <1>1 DEF Hook
<1>2. CASE s = "supported"
  BY <1>2 DEF Hook
<1>3. CASE s = "count"
  BY <1>3 DEF Hook
<1> QED BY <1>1, <1>2, <1>3 DEF Slots

\* Every step goes to one of the places.
LEMMA StepPlaces ==
  ASSUME at \in Places, [HooksNext]_hookVars PROVE at' \in Places
<1> USE DEF Places, Slots, Goes
<1>1. CASE Validate
  BY <1>1 DEF Validate, Retry
<1>2. CASE Watch
  BY <1>2 DEF Watch
<1>3. ASSUME NEW s \in Slots, ReadOriginal(s) PROVE at' \in Places
  BY <1>3 DEF ReadOriginal
<1>4. ASSUME NEW s \in Slots, Hook(s) PROVE at' \in Places
  BY <1>4, HookOutcomes DEF Retry
<1>5. ASSUME NEW s \in Slots, Release(s) PROVE at' \in Places
  BY <1>5 DEF Release
<1>6. ASSUME NEW s \in {"supported", "touch"}, Undo(s) PROVE at' \in Places
  BY <1>6 DEF Undo, Retry
<1>7. ASSUME NEW s \in Slots, UnityResolves(s) \/ RivalHooks(s)
      PROVE  at' \in Places
  BY <1>7 DEF UnityResolves, RivalHooks
<1>8. CASE UNCHANGED hookVars
  BY <1>8 DEF hookVars
<1> QED
  BY <1>1, <1>2, <1>3, <1>4, <1>5, <1>6, <1>7, <1>8
  DEF HooksNext, Worker, Process

\* Every step keeps the types.
LEMMA StepTypes ==
  ASSUME HooksTypeOK, Phases, [HooksNext]_hookVars PROVE HooksTypeOK'
<1> DEFINE OtherTypes ==
      /\ slot \in [Slots -> Functions]
      /\ original \in [Slots -> Functions]
      /\ rivalSaved \in [Slots -> Functions \cup {"none"}]
      /\ attempts \in 0..MaxAttempts
      /\ hooksReady \in BOOLEAN
      /\ reportedConflict \in BOOLEAN
      /\ disturbances \in 0..MaxDisturbances
<1>1. HooksTypeOK => OtherTypes
  BY DEF HooksTypeOK
<1>2. at' \in Places
  BY PlacesTyped, StepPlaces
<1>3. OtherTypes'
  <2> USE <1>1, AttemptsAssumption, DisturbanceAssumption
      DEF Phases, Functions, Disturb, ExchangeSucceeds, ExchangeFails, Goes
  <2>1. CASE Validate
    BY <2>1 DEF Validate, Retry
  <2>2. CASE Watch
    BY <2>2 DEF Watch
  <2>3. ASSUME NEW s \in Slots, ReadOriginal(s) PROVE OtherTypes'
    BY <2>3 DEF ReadOriginal
  <2>4. ASSUME NEW s \in Slots, Hook(s) PROVE OtherTypes'
    BY <2>4, HookOutcomes DEF Retry
  <2>5. ASSUME NEW s \in Slots, Release(s) PROVE OtherTypes'
    BY <2>5 DEF Release
  <2>6. ASSUME NEW s \in {"supported", "touch"}, Undo(s) PROVE OtherTypes'
    BY <2>6 DEF Undo, Retry, Slots
  <2>7. ASSUME NEW s \in Slots, UnityResolves(s) \/ RivalHooks(s)
        PROVE  OtherTypes'
    BY <2>7 DEF UnityResolves, RivalHooks
  <2>8. CASE UNCHANGED hookVars
    BY <2>8 DEF hookVars
  <2> QED
    BY <2>1, <2>2, <2>3, <2>4, <2>5, <2>6, <2>7, <2>8
    DEF HooksNext, Worker, Process
<1>4. HooksTypeOK' <=> OtherTypes' /\ at' \in ({"read", "hook", "undo", "release"} \X Slots)
              \cup {<<"validate", "all">>, <<"watch", "all">>, <<"gave_up", "none">>}
  BY DEF HooksTypeOK
<1> QED BY <1>2, <1>3, <1>4, PlacesTyped

\* Every step keeps what the worker has announced in line with where it is.
LEMMA StepPhases ==
  ASSUME HooksTypeOK, Phases, [HooksNext]_hookVars PROVE Phases'
<1>0. at \in Places /\ attempts \in Nat /\ hooksReady \in BOOLEAN
  BY PlacesTyped, AttemptsAssumption DEF HooksTypeOK
<1> USE <1>0, AttemptsAssumption DEF Phases, Goes, Places
<1>1. CASE Validate
  BY <1>1 DEF Validate, Retry
<1>2. CASE Watch
  BY <1>2 DEF Watch
<1>3. ASSUME NEW s \in Slots, ReadOriginal(s) PROVE Phases'
  BY <1>3 DEF ReadOriginal, Slots
<1>4. ASSUME NEW s \in Slots, Hook(s) PROVE Phases'
  BY <1>4, HookOutcomes DEF Retry
<1>5. ASSUME NEW s \in Slots, Release(s) PROVE Phases'
  BY <1>5 DEF Release, Slots
<1>6. ASSUME NEW s \in {"supported", "touch"}, Undo(s) PROVE Phases'
  BY <1>6 DEF Undo, Retry
<1>7. ASSUME NEW s \in Slots, UnityResolves(s) \/ RivalHooks(s) PROVE Phases'
  BY <1>7 DEF UnityResolves, RivalHooks
<1>8. CASE UNCHANGED hookVars
  BY <1>8 DEF hookVars
<1> QED
  BY <1>1, <1>2, <1>3, <1>4, <1>5, <1>6, <1>7, <1>8
  DEF HooksNext, Worker, Process

\* A rival hooks a slot once, and only the worker moves its function.
LEMMA StepRivalsKnown ==
  ASSUME HooksTypeOK, Phases, RivalsKnown, [HooksNext]_hookVars PROVE RivalsKnown'
<1>1. (Cardinality(Rivals) <= disturbances)'
  BY RivalsStep, RivalsAreFinite, DisturbanceAssumption DEF RivalsKnown, HooksTypeOK
<1> SUFFICES ASSUME NEW t \in Slots
    PROVE /\ rivalSaved'[t] \in {"none", "unity", "hook"}
          /\ ("rival" \in {slot'[t], original'[t]}) => t \in Rivals'
  BY <1>1 DEF RivalsKnown
<1> USE DEF HooksTypeOK, Phases, RivalsKnown, Rivals, Functions, Goes, ExchangeSucceeds,
            ExchangeFails
<1>2. CASE Validate \/ Watch
  BY <1>2 DEF Validate, Watch
<1>3. ASSUME NEW s \in Slots, ReadOriginal(s)
      PROVE  /\ rivalSaved'[t] \in {"none", "unity", "hook"}
             /\ ("rival" \in {slot'[t], original'[t]}) => t \in Rivals'
  BY <1>3 DEF ReadOriginal
<1>4. ASSUME NEW s \in Slots, Hook(s) \/ Release(s) \/ Undo(s)
      PROVE  /\ rivalSaved'[t] \in {"none", "unity", "hook"}
             /\ ("rival" \in {slot'[t], original'[t]}) => t \in Rivals'
  BY <1>4 DEF Hook, Release, Undo
<1>5. ASSUME NEW s \in Slots, UnityResolves(s) \/ RivalHooks(s)
      PROVE  /\ rivalSaved'[t] \in {"none", "unity", "hook"}
             /\ ("rival" \in {slot'[t], original'[t]}) => t \in Rivals'
  BY <1>5 DEF UnityResolves, RivalHooks
<1>6. CASE UNCHANGED hookVars
  BY <1>6 DEF hookVars
<1> QED
  BY <1>2, <1>3, <1>4, <1>5, <1>6 DEF HooksNext, Worker, Process, Slots

\* Nothing but a rival takes a held slot from the bridge, and a rival calls it.
LEMMA StepHeldPassBridge ==
  ASSUME HooksTypeOK, Phases, RivalsKnown, HeldPassBridge, [HooksNext]_hookVars
  PROVE  HeldPassBridge'
<1>0. at \in Places /\ \A s \in Slots : slot[s] = "rival" => s \in Rivals
  BY PlacesTyped DEF RivalsKnown
<1> USE <1>0 DEF HooksTypeOK, Phases, Rivals, HeldPassBridge, Held, Slots, Goes, Places
<1>1. CASE Validate
  BY <1>1 DEF Validate, Retry
<1>2. CASE Watch
  BY <1>2 DEF Watch
<1>3. ASSUME NEW s \in Slots, ReadOriginal(s) PROVE HeldPassBridge'
  BY <1>3 DEF ReadOriginal
<1>4. ASSUME NEW s \in Slots, Hook(s) PROVE HeldPassBridge'
  BY <1>4, HookOutcomes DEF Retry, ExchangeSucceeds, ExchangeFails
<1>5. ASSUME NEW s \in Slots, Release(s) PROVE HeldPassBridge'
  BY <1>5 DEF Release
<1>6. ASSUME NEW s \in {"supported", "touch"}, Undo(s) PROVE HeldPassBridge'
  BY <1>6 DEF Undo, Retry
<1>7. ASSUME NEW s \in Slots, UnityResolves(s) \/ RivalHooks(s)
      PROVE  HeldPassBridge'
  BY <1>7 DEF UnityResolves, RivalHooks
<1>8. CASE UNCHANGED hookVars
  BY <1>8 DEF hookVars
<1> QED
  BY <1>1, <1>2, <1>3, <1>4, <1>5, <1>6, <1>7, <1>8
  DEF HooksNext, Worker, Process

\* When the worker gives slots back, something has already gone wrong: a refused
\* call then is one too many.
LEMMA RefusedWhenGivingBack ==
  ASSUME HooksTypeOK, RivalsKnown, OneAtMost, at[1] \in {"undo", "release"},
         UNCHANGED rivalSaved, Disturb
  PROVE  ~Orderly'
<1>1. disturbances \in Nat /\ Cardinality(Rivals) \in Nat
  BY RivalsAreFinite, DisturbanceAssumption DEF HooksTypeOK
<1>2. disturbances # 0
  <2>1. SUFFICES ASSUME disturbances = 0 PROVE FALSE
    OBVIOUS
  <2>2. Rivals = {}
    BY <1>1, <2>1, NoRival DEF RivalsKnown
  <2> QED BY <2>1, <2>2 DEF OneAtMost
<1>3. ~(disturbances <= 1)'
  BY <1>1, <1>2 DEF Disturb
<1> QED BY <1>3, RefusedIsRemembered DEF Orderly

\* An exchange back takes the hook out, or finds that it is not there.
LEMMA GivenBack ==
  ASSUME HooksTypeOK, RivalsKnown, OneAtMost, HooksAreHeld, NEW s \in Slots,
         at[1] \in {"undo", "release"}, UNCHANGED rivalSaved, Orderly', Orderly,
         \/ ExchangeSucceeds(s, "hook", original[s])
         \/ ExchangeFails(s, "hook")
  PROVE  /\ slot'[s] # "hook"
         /\ \A t \in Slots : t # s => slot'[t] = slot[t]
         /\ slot[s] = "hook" => slot'[s] = original[s]
         /\ slot[s] # "hook" => slot'[s] = slot[s]
         /\ UNCHANGED disturbances
<1>1. ~Disturb
  BY RefusedWhenGivingBack
<1> QED
  BY <1>1 DEF ExchangeSucceeds, ExchangeFails, HooksAreHeld, HooksTypeOK

\* As long as things are orderly, the bridge's function is only in the slots
\* that the worker holds, and is not read as an original.
LEMMA StepHooksAreHeld ==
  ASSUME HooksTypeOK, Phases, RivalsKnown, OneAtMost, HooksAreHeld, [HooksNext]_hookVars
  PROVE  HooksAreHeld'
<1> SUFFICES ASSUME Orderly', NEW t \in Slots
    PROVE  original'[t] # "hook" /\ (slot'[t] = "hook" => t \in Held')
  BY DEF HooksAreHeld
<1>0. /\ at \in Places /\ Orderly
      /\ original[t] # "hook" /\ (slot[t] = "hook" => t \in Held)
  BY PlacesTyped, OrderWasKept DEF HooksAreHeld
<1> USE <1>0 DEF HooksTypeOK, Phases, Held, Slots, Goes, Places
<1>1. CASE Validate
  BY <1>1 DEF Validate, Retry
<1>2. CASE Watch
  BY <1>2 DEF Watch
<1>3. ASSUME NEW s \in Slots, ReadOriginal(s)
      PROVE  original'[t] # "hook" /\ (slot'[t] = "hook" => t \in Held')
  BY <1>3 DEF ReadOriginal
<1>4. ASSUME NEW s \in Slots, Hook(s)
      PROVE  original'[t] # "hook" /\ (slot'[t] = "hook" => t \in Held')
  BY <1>4, HookOutcomes DEF Retry, ExchangeSucceeds, ExchangeFails
<1>5. ASSUME NEW s \in Slots, Release(s)
      PROVE  original'[t] # "hook" /\ (slot'[t] = "hook" => t \in Held')
  BY <1>5, GivenBack DEF Release
<1>6. ASSUME NEW s \in {"supported", "touch"}, Undo(s)
      PROVE  original'[t] # "hook" /\ (slot'[t] = "hook" => t \in Held')
  BY <1>6, GivenBack DEF Undo, Retry
<1>7. ASSUME NEW s \in Slots, UnityResolves(s) \/ RivalHooks(s)
      PROVE  original'[t] # "hook" /\ (slot'[t] = "hook" => t \in Held')
  BY <1>7 DEF UnityResolves, RivalHooks
<1>8. CASE UNCHANGED hookVars
  BY <1>8 DEF hookVars
<1> QED
  BY <1>1, <1>2, <1>3, <1>4, <1>5, <1>6, <1>7, <1>8
  DEF HooksNext, Worker, Process

\* As long as Windows refuses nothing, every rival is called.
LEMMA StepRivalsAreCalled ==
  ASSUME HooksTypeOK, Phases, RivalsKnown, OneAtMost, HooksAreHeld, RivalsAreCalled,
         [HooksNext]_hookVars
  PROVE  RivalsAreCalled'
<1> SUFFICES ASSUME NothingFailed', NEW t \in Rivals'
    PROVE  slot'[t] = "rival" \/ (slot'[t] = "hook" /\ original'[t] = "rival")
  BY DEF RivalsAreCalled
<1>0. /\ at \in Places /\ NothingFailed /\ Orderly /\ Orderly' /\ t \in Slots
      /\ original[t] # "hook" /\ (slot[t] = "hook" => t \in Held)
      /\ t \in Rivals =>
           slot[t] = "rival" \/ (slot[t] = "hook" /\ original[t] = "rival")
  BY PlacesTyped, OrderWasKept DEF HooksAreHeld, RivalsAreCalled, Orderly, Rivals
<1> DEFINE Kept ==
      slot'[t] = "rival" \/ (slot'[t] = "hook" /\ original'[t] = "rival")
<1> USE <1>0 DEF HooksTypeOK, Phases, Held, Slots, Goes, Rivals
<1>1. CASE Validate \/ Watch
  BY <1>1 DEF Validate, Watch
<1>2. ASSUME NEW s \in Slots, ReadOriginal(s) PROVE Kept
  BY <1>2 DEF ReadOriginal
<1>3. ASSUME NEW s \in Slots, Hook(s) PROVE Kept
  BY <1>3, HookOutcomes DEF ExchangeSucceeds, ExchangeFails
<1>4. ASSUME NEW s \in Slots, Release(s) PROVE Kept
  BY <1>4, GivenBack DEF Release
<1>5. ASSUME NEW s \in {"supported", "touch"}, Undo(s) PROVE Kept
  BY <1>5, GivenBack DEF Undo
<1>6. ASSUME NEW s \in Slots, UnityResolves(s) \/ RivalHooks(s) PROVE Kept
  BY <1>6 DEF UnityResolves, RivalHooks
<1>7. CASE UNCHANGED hookVars
  BY <1>7 DEF hookVars
<1> QED
  BY <1>1, <1>2, <1>3, <1>4, <1>5, <1>6, <1>7 DEF HooksNext, Worker, Process

\* Reading a pointer adds its slot to those awaiting their exchange.
LEMMA ReadAwaits ==
  ASSUME NEW s \in Slots, ReadOriginal(s)
  PROVE  /\ at'[1] \in {"read", "validate"}
         /\ Awaiting' = Awaiting \cup {s}
<1> USE DEF ReadOriginal, Goes
<1>1. CASE s = "count"
  BY <1>1 DEF Awaiting
<1>2. CASE s = "touch"
  BY <1>2 DEF Awaiting
<1>3. CASE s = "supported"
  BY <1>3 DEF Awaiting, Slots
<1> QED
  BY <1>1, <1>2, <1>3 DEF Slots

\* One disturbance at most closes no circle, and no step makes it two unnoticed.
LEMMA StepOneAtMost ==
  ASSUME IInv, [HooksNext]_hookVars
  PROVE  OneAtMost'
<1> SUFFICES ASSUME disturbances' <= 1 PROVE OneAtMost'
  BY DEF OneAtMost
<1> USE DEF IInv
<1>0. /\ at \in Places /\ disturbances <= 1 /\ Orderly /\ Orderly'
      /\ disturbances \in Nat /\ Cardinality(Rivals) \in Nat
      /\ \A s, t \in Rivals : s = t
      /\ disturbances = 0 => Rivals = {}
  <2>1. disturbances \in Nat /\ Cardinality(Rivals) \in Nat
    BY DisturbanceAssumption, RivalsAreFinite DEF HooksTypeOK
  <2> QED
    BY <2>1, PlacesTyped, OrderWasKept, OneRival, NoRival DEF Orderly, RivalsKnown
<1> DEFINE Chain(s) ==
      /\ slot[s] = "hook" =>
           \/ original[s] = "unity"
           \/ original[s] = "rival" /\ rivalSaved[s] = "unity"
      /\ rivalSaved[s] = "hook" =>
           /\ original[s] = "unity"
           /\ at[1] \in {"hook", "watch", "release"}
           /\ s \in Held \/ at[1] \in {"release", "watch"}
<1> DEFINE Rest ==
      /\ \A s \in Awaiting \ Rivals :
           slot[s] = original[s] \/ original[s] = "unresolved"
      /\ at[1] = "hook" => \A s \in Slots : original[s] # "unresolved"
      /\ at[1] = "undo" => disturbances = 1 /\ \A s \in Held : slot[s] = "hook"
      /\ at[1] = "release" => Rivals # {}
<1>1. (\A s \in Slots : Chain(s)) /\ Rest
  BY <1>0 DEF OneAtMost
<1> USE <1>0, <1>1 DEF HooksTypeOK, Phases, RivalsKnown, HeldPassBridge, Held, Awaiting,
        Slots, Functions, Rivals, Places, Goes
<1>2. CASE Validate
  <2>1. \A s \in Slots : Chain(s)'
    BY <1>2 DEF Validate, Retry
  <2>2. Rest'
    BY <1>2 DEF Validate, Retry
  <2> QED BY <2>1, <2>2 DEF OneAtMost
<1>3. CASE Watch
  <2>1. \A s \in Slots : Chain(s)'
    BY <1>3 DEF Watch
  <2>2. Rest'
    BY <1>3 DEF Watch
  <2> QED BY <2>1, <2>2 DEF OneAtMost
<1>4. ASSUME NEW s \in Slots, ReadOriginal(s) PROVE OneAtMost'
  <2>1. \A t \in Slots : slot[t] # "hook"
    BY <1>4 DEF ReadOriginal, HooksAreHeld
  <2>2. /\ \A t \in Slots : t # s => original'[t] = original[t]
        /\ original'[s] = slot[s]
        /\ UNCHANGED <<slot, rivalSaved, disturbances>>
        /\ Rivals' = Rivals
    BY <1>4 DEF ReadOriginal
  <2>3. /\ at'[1] \in {"read", "validate"}
        /\ Awaiting' = Awaiting \cup {s}
    BY <1>4, ReadAwaits
  <2>4. at[1] = "read"
    BY <1>4 DEF ReadOriginal
  <2> HIDE DEF HooksTypeOK, Phases, RivalsKnown, HeldPassBridge, Held, Awaiting, Slots,
        Functions, Rivals, Places, Goes, IInv
  <2>5. \A t \in Awaiting' \ Rivals' :
          slot'[t] = original'[t] \/ original'[t] = "unresolved"
    <3> SUFFICES ASSUME NEW t \in Awaiting', t \notin Rivals'
                 PROVE  slot'[t] = original'[t] \/ original'[t] = "unresolved"
      OBVIOUS
    <3>1. CASE t = s
      BY <2>2, <3>1
    <3>2. CASE t # s
      BY <1>1, <2>2, <2>3, <3>2 DEF Awaiting, Slots
    <3> QED BY <3>1, <3>2
  <2>6. Rest'
    BY <2>3, <2>5
  <2>7. \A t \in Slots : Chain(t)'
    <3> SUFFICES ASSUME NEW t \in Slots PROVE Chain(t)'
      OBVIOUS
    <3>1. slot'[t] # "hook"
      BY <2>1, <2>2
    <3>2. rivalSaved[t] # "hook"
      BY <1>1, <2>4 DEF ReadOriginal
    <3> QED BY <2>2, <3>1, <3>2
  <2> QED BY <2>7, <2>6 DEF OneAtMost
<1>5. ASSUME NEW s \in Slots, Hook(s) PROVE OneAtMost'
  <2>1. CASE ExchangeSucceeds(s, original[s], "hook")
    <3>1. \A t \in Slots : Chain(t)'
      BY <1>5, <2>1, HookOutcomes DEF ExchangeSucceeds, ExchangeFails, HooksAreHeld
    <3>2. Rest'
      BY <1>5, <2>1, HookOutcomes DEF ExchangeSucceeds, ExchangeFails
    <3> QED BY <3>1, <3>2 DEF OneAtMost
  <2>2. CASE ExchangeFails(s, original[s])
    <3>1. \A t \in Slots : Chain(t)'
      BY <1>5, <2>2, HookOutcomes DEF ExchangeFails, Retry, Disturb
    <3>2. Rest'
      BY <1>5, <2>2, HookOutcomes DEF ExchangeFails, Retry, Disturb
    <3> QED BY <3>1, <3>2 DEF OneAtMost
  <2> QED BY <1>5, <2>1, <2>2, HookOutcomes
<1>6. ASSUME NEW s \in Slots, Release(s) PROVE OneAtMost'
  <2>1. /\ at = <<"release", s>>
        /\ at' \in {<<"release", "touch">>, <<"release", "supported">>, <<"watch", "all">>}
        /\ UNCHANGED <<original, rivalSaved, disturbances>>
        /\ Rivals' = Rivals
    BY <1>6, GivenBack DEF Release
  <2>2. /\ slot'[s] # "hook"
        /\ \A t \in Slots : t # s => slot'[t] = slot[t]
    BY <1>6, <2>1, GivenBack DEF Release
  <2>3. Awaiting' = {} /\ at'[1] \in {"release", "watch"}
    BY <2>1
  <2> HIDE DEF HooksTypeOK, Phases, RivalsKnown, HeldPassBridge, Held, Awaiting, Slots,
        Functions, Rivals, Places, Goes, IInv
  <2>4. \A t \in Slots : Chain(t)'
    BY <1>1, <2>1, <2>2, <2>3
  <2>5. Rest'
    BY <1>1, <2>1, <2>3
  <2> QED BY <2>4, <2>5 DEF OneAtMost
<1>7. ASSUME NEW s \in {"supported", "touch"}, Undo(s) PROVE OneAtMost'
  <2>1. \A t \in Slots : Chain(t)'
    BY <1>7, GivenBack, SMTT(30) DEF Undo, Retry
  <2>2. Rest'
    BY <1>7, GivenBack, SMTT(30) DEF Undo, Retry
  <2> QED BY <2>1, <2>2 DEF OneAtMost
<1>8. ASSUME NEW s \in Slots, UnityResolves(s) PROVE OneAtMost'
  <2>1. \A t \in Slots : Chain(t)'
    BY <1>8, SMTT(30) DEF UnityResolves
  <2>2. Rest'
    BY <1>8, SMTT(30) DEF UnityResolves
  <2> QED BY <2>1, <2>2 DEF OneAtMost
<1>9. ASSUME NEW s \in Slots, RivalHooks(s) PROVE OneAtMost'
  <2>1. \A t \in Slots : Chain(t)'
    BY <1>9 DEF RivalHooks, Disturb, HooksAreHeld
  <2>2. Rest'
    BY <1>9, SMTT(30) DEF RivalHooks, Disturb
  <2> QED BY <2>1, <2>2 DEF OneAtMost
<1>10. CASE UNCHANGED hookVars
  <2>1. UNCHANGED <<slot, original, rivalSaved, at, disturbances, Awaiting, Held, Rivals>>
    BY <1>10 DEF hookVars
  <2> HIDE DEF HooksTypeOK, Phases, RivalsKnown, HeldPassBridge, Held, Awaiting, Slots,
        Functions, Rivals, Places, Goes, IInv
  <2> QED BY <1>1, <2>1 DEF OneAtMost
<1> QED
  BY <1>2, <1>3, <1>4, <1>5, <1>6, <1>7, <1>8, <1>9, <1>10
  DEF HooksNext, Worker, Process

-----------------------------------------------------------------------------
(* The theorems                                                            *)

\* The invariant holds initially.
LEMMA InitIInv == HooksInit => IInv
<1> SUFFICES ASSUME HooksInit PROVE IInv
  OBVIOUS
<1> USE AttemptsAssumption, DisturbanceAssumption DEF HooksInit, Slots, Functions
<1>1. HooksTypeOK
  <2>1. at \in Places
    BY DEF Places
  <2>2. at \in ({"read", "hook", "undo", "release"} \X Slots)
            \cup {<<"validate", "all">>, <<"watch", "all">>, <<"gave_up", "none">>}
    BY <2>1, PlacesTyped
  <2>3. slot \in [Slots -> Functions] /\ original \in [Slots -> Functions]
    OBVIOUS
  <2>4. rivalSaved \in [Slots -> Functions \cup {"none"}]
    OBVIOUS
  <2>5. attempts \in 0..MaxAttempts /\ disturbances \in 0..MaxDisturbances
    OBVIOUS
  <2>6. hooksReady \in BOOLEAN /\ reportedConflict \in BOOLEAN
    OBVIOUS
  <2> HIDE DEF HooksInit, Slots, Functions
  <2> QED BY <2>2, <2>3, <2>4, <2>5, <2>6 DEF HooksTypeOK
<1>2. Phases
  BY DEF Phases
<1>3. Rivals = {}
  BY DEF Rivals
<1>4. RivalsKnown
  <2>1. Cardinality(Rivals) = 0
    BY <1>3, FS_EmptySet
  <2> QED BY <1>3, <2>1 DEF RivalsKnown
<1>5. HeldPassBridge /\ HooksAreHeld /\ RivalsAreCalled
  BY <1>3 DEF HeldPassBridge, HooksAreHeld, RivalsAreCalled, Held
<1>6. OneAtMost
  BY <1>3 DEF OneAtMost, Awaiting
<1> QED BY <1>1, <1>2, <1>4, <1>5, <1>6 DEF IInv

\* The invariant is inductive.
LEMMA StepIInv == IInv /\ [HooksNext]_hookVars => IInv'
BY StepTypes, StepPhases, StepRivalsKnown, StepHeldPassBridge, StepHooksAreHeld,
   StepRivalsAreCalled, StepOneAtMost DEF IInv

\* In every state the table, what the rivals call and where the worker is agree.
THEOREM HooksInvariance == HooksSpec => []IInv
BY InitIInv, StepIInv, PTL DEF HooksSpec

\* Every variable keeps its type, and the tries stay below their limit.
THEOREM HooksTyped == HooksSpec => []HooksTypeOK
<1>1. IInv => HooksTypeOK
  BY DEF IInv
<1> QED BY <1>1, HooksInvariance, PTL

\* Another module's hook is never lost from its slot's chain of calls, as long
\* as Windows refuses no exchange.
THEOREM RivalsStayCalledHolds == HooksSpec => []RivalsStayCalled
<1>1. IInv => RivalsStayCalled
  <2> SUFFICES ASSUME IInv, NothingFailed, NEW s \in Slots, rivalSaved[s] # "none"
      PROVE  "rival" \in Called(s)
    BY DEF RivalsStayCalled
  <2>1. slot[s] = "rival" \/ (slot[s] = "hook" /\ original[s] = "rival")
    BY DEF IInv, RivalsAreCalled, Rivals
  <2> QED BY <2>1 DEF Called, Callee
<1> QED BY <1>1, HooksInvariance, PTL

\* Until a conflict is found, hooks_ready means that all three slots pass the
\* bridge: a partial set is never announced.
THEOREM ReadyMeansAllHookedHolds == HooksSpec => []ReadyMeansAllHooked
<1>1. IInv => ReadyMeansAllHooked
  <2> SUFFICES ASSUME IInv, hooksReady, ~reportedConflict, NEW s \in Slots
      PROVE  "hook" \in Called(s)
    BY DEF ReadyMeansAllHooked
  <2>1. at = <<"watch", "all">>
    BY PlacesTyped DEF IInv, Phases, Places
  <2>2. slot[s] = "hook" \/ (slot[s] = "rival" /\ rivalSaved[s] = "hook")
    BY <2>1 DEF IInv, HeldPassBridge, Held
  <2> QED BY <2>2 DEF Called, Callee
<1> QED BY <1>1, HooksInvariance, PTL

\* Once a conflict has been dealt with, no slot is left directly at the bridge,
\* unless a call failed.
THEOREM ConflictReleasesAllHolds == HooksSpec => []ConflictReleasesAll
<1>1. IInv => ConflictReleasesAll
  BY DEF IInv, HooksAreHeld, Orderly, Held, ConflictReleasesAll
<1> QED BY <1>1, HooksInvariance, PTL

\* One failed exchange, or one rival, at whatever step it comes, closes no circle:
\* a call through any resolved slot ends in Unity's own function.
THEOREM OneDisturbanceIsHarmlessHolds == HooksSpec => []OneDisturbanceIsHarmless
<1>1. IInv => OneDisturbanceIsHarmless
  <2> SUFFICES ASSUME IInv, disturbances <= 1, NEW s \in Slots,
                      slot[s] # "unresolved"
      PROVE  Callee(s, Callee(s, slot[s])) = "unity"
    BY DEF OneDisturbanceIsHarmless, CallsReachUnity
  <2>1. slot[s] = "rival" => rivalSaved[s] \in {"unity", "hook"}
    BY DEF IInv, RivalsKnown, Rivals
  <2> QED
    BY <2>1 DEF IInv, HooksTypeOK, OneAtMost, Functions, Callee
<1> QED BY <1>1, HooksInvariance, PTL
=============================================================================
