-------------------------- MODULE UiOverrideProofs --------------------------
(***************************************************************************)
(* Proofs about the layout override, for every set of providers and        *)
(* layouts and any number of faults and changes by the game.               *)
(***************************************************************************)
EXTENDS UiOverride, TLAPS

\* UI calls are made only before the first fault.
CallsStopAtFault ==
  ui \in {"look", "claiming", "restoring", "effective", "fault"} => ~uiFault

\* Before the initial store nothing is changed; a disabled bridge stays so.
NothingBeforeStore ==
  ~stored => /\ ~enabled
             /\ changedProvider = NoProvider

\* While the bridge may still claim a provider, what is not Mobile is the
\* game's own value.
UnforcedIsTheGames ==
  (enabled \/ ~stored) =>
    \A p \in Providers : override[p] = Mobile \/ override[p] = gameValue[p]

\* The remembered provider was changed by the bridge, and the saved value is
\* the one the game had given it.
SavedIsTheGames ==
  (/\ changedProvider # NoProvider
   /\ ~uiFault
   /\ ui \notin {"restoring", "fault"})
    => /\ owner[changedProvider] \in {"bridge", "game_again"}
       /\ owner[changedProvider] = "bridge" =>
            savedOverride = gameValue[changedProvider]

IInv ==
  /\ UiTypeOK
  /\ CallsStopAtFault
  /\ NothingBeforeStore
  /\ UnforcedIsTheGames
  /\ SavedIsTheGames

USE DEF Mobile

-----------------------------------------------------------------------------
\* The invariant holds before the bridge is stored.
LEMMA InitInv == UiInit => IInv
<1> SUFFICES ASSUME UiInit PROVE IInv
  OBVIOUS
<1> USE LayoutsAssumption, ProvidersAssumption, BoundsAssumption DEF UiInit
<1>1. /\ savedOverride \in Layouts \ {Mobile}
      /\ owner \in [Providers -> {"game", "bridge", "game_again", "forgotten"}]
      /\ faults \in 0..MaxFaults /\ gameSteps \in 0..MaxGame
      /\ found \in {"unread", "healthy", "unhealthy"}
  OBVIOUS
<1>2. {registered, touchRegistrationAdded, enabled, uiFault, stored, window} \subseteq BOOLEAN
  OBVIOUS
<1>3. UiTypeOK
  BY <1>1, <1>2 DEF UiTypeOK
<1>4. CallsStopAtFault /\ NothingBeforeStore /\ UnforcedIsTheGames /\ SavedIsTheGames
  BY DEF CallsStopAtFault, NothingBeforeStore, UnforcedIsTheGames, SavedIsTheGames
<1> QED
  BY <1>3, <1>4 DEF IInv

\* A call counts at most one fault, within the bound.
LEMMA CallCounts ==
  ASSUME NEW ok \in BOOLEAN, faults \in 0..MaxFaults, Call(ok)
  PROVE  faults' \in 0..MaxFaults
BY BoundsAssumption DEF Call

\* Forgetting changes at most the owner of the provider that was remembered.
LEMMA ForgottenFacts ==
  ASSUME UiTypeOK
  PROVE  /\ Forgotten \in [Providers -> {"game", "bridge", "game_again", "forgotten"}]
         /\ changedProvider = provider => Forgotten = owner
BY DEF Forgotten, UiTypeOK

\* Registering and unregistering the window keep the invariant.
LEMMA MaintainInv == IInv /\ Maintain => IInv'
<1> SUFFICES ASSUME IInv, Maintain PROVE IInv'
  OBVIOUS
<1> USE DEF IInv
<1>1. faults' \in 0..MaxFaults /\ {registered', touchRegistrationAdded'} \subseteq BOOLEAN
  BY CallCounts
  DEF Maintain, Register, Unregister, KeepRegistration, touchVars, UiTypeOK
<1>2. /\ UNCHANGED <<gameVars, override, claim, flagVars, owner>>
      /\ ui = "idle" /\ ui' \in {"idle", "look"}
      /\ ui' = "look" => ~uiFault /\ provider # NoProvider
  BY DEF Maintain
<1>3. UiTypeOK'
  BY <1>1, <1>2 DEF UiTypeOK, gameVars, claim, flagVars
<1>4. (CallsStopAtFault /\ NothingBeforeStore /\ UnforcedIsTheGames /\ SavedIsTheGames)'
  BY <1>2 DEF CallsStopAtFault, NothingBeforeStore, UnforcedIsTheGames,
    SavedIsTheGames, gameVars, claim, flagVars
<1> QED
  BY <1>3, <1>4

\* Claiming the provider, with or without a fault, keeps the invariant.
LEMMA ClaimInv == ASSUME NEW ok \in BOOLEAN PROVE IInv /\ Claim(ok) => IInv'
<1> SUFFICES ASSUME IInv, Claim(ok) PROVE IInv'
  OBVIOUS
<1> USE DEF IInv, gameVars, touchVars, flagVars
<1>1. /\ provider \in Providers
      /\ override[provider] \in Layouts \ {Mobile}
      /\ override[provider] = gameValue[provider]
      /\ stored
  BY DEF Claim, Claimable, UiTypeOK, UnforcedIsTheGames, NothingBeforeStore
<1>2. CASE ok
  <2>1. /\ override' = [override EXCEPT ![provider] = Mobile]
        /\ owner' = [Forgotten EXCEPT ![provider] = "bridge"]
        /\ changedProvider' = provider
        /\ savedOverride' = override[provider]
        /\ ui' = "claiming"
        /\ UNCHANGED <<gameVars, touchVars, flagVars, faults>>
    BY <1>2 DEF Claim, Marked
  <2>2. UiTypeOK'
    BY <1>1, <2>1, ForgottenFacts, LayoutsAssumption DEF UiTypeOK
  <2>3. owner'[provider] = "bridge"
    BY <1>1, <2>1, ForgottenFacts
  <2>4. (CallsStopAtFault /\ NothingBeforeStore /\ SavedIsTheGames)'
    BY <1>1, <2>1, <2>3
    DEF CallsStopAtFault, NothingBeforeStore, SavedIsTheGames, Claim
  <2>5. UnforcedIsTheGames'
    BY <1>1, <2>1 DEF UnforcedIsTheGames, UiTypeOK
  <2> QED
    BY <2>2, <2>4, <2>5
<1>3. CASE ~ok
  <2>1. /\ Call(FALSE)
        /\ owner' = Forgotten
        /\ changedProvider' = provider
        /\ savedOverride' = override[provider]
        /\ ui' = "fault"
        /\ UNCHANGED <<override, gameVars, touchVars, flagVars>>
    BY <1>3 DEF Claim, Marked
  <2>2. faults' \in 0..MaxFaults
    BY <2>1, CallCounts DEF UiTypeOK
  <2>3. UiTypeOK'
    BY <1>1, <2>1, <2>2, ForgottenFacts DEF UiTypeOK
  <2>4. (CallsStopAtFault /\ NothingBeforeStore /\ UnforcedIsTheGames /\ SavedIsTheGames)'
    BY <1>1, <2>1 DEF CallsStopAtFault, NothingBeforeStore, UnforcedIsTheGames,
      SavedIsTheGames, Claim
  <2> QED
    BY <2>3, <2>4
<1> QED
  BY <1>2, <1>3

\* Restoring the layout, with or without a fault, keeps the invariant.
LEMMA RestoreInv == ASSUME NEW ok \in BOOLEAN PROVE IInv /\ Restore(ok) => IInv'
<1> SUFFICES ASSUME IInv, Restore(ok) PROVE IInv'
  OBVIOUS
<1> USE DEF IInv, gameVars, touchVars, flagVars
<1>1. /\ provider \in Providers
      /\ changedProvider = provider
      /\ ui = "look" /\ ~enabled /\ stored
  BY ProvidersAssumption DEF Restore, Restorable, UiTypeOK, NothingBeforeStore
<1>2. CASE ok
  <2>1. /\ override' = [override EXCEPT ![provider] = savedOverride]
        /\ owner' = [owner EXCEPT ![provider] = "game"]
        /\ ui' = "restoring"
        /\ UNCHANGED <<changedProvider, savedOverride, gameVars, touchVars,
                       flagVars, faults>>
    BY <1>2 DEF Restore
  <2>2. UiTypeOK'
    BY <1>1, <2>1 DEF UiTypeOK
  <2>3. (CallsStopAtFault /\ NothingBeforeStore /\ UnforcedIsTheGames /\ SavedIsTheGames)'
    BY <1>1, <2>1 DEF CallsStopAtFault, NothingBeforeStore, UnforcedIsTheGames,
      SavedIsTheGames
  <2> QED
    BY <2>2, <2>3
<1>3. CASE ~ok
  <2>1. /\ Call(FALSE)
        /\ changedProvider' = NoProvider
        /\ ui' = "fault"
        /\ UNCHANGED <<override, owner, savedOverride, gameVars, touchVars, flagVars>>
    BY <1>3 DEF Restore
  <2>2. faults' \in 0..MaxFaults
    BY <2>1, CallCounts DEF UiTypeOK
  <2>3. UiTypeOK'
    BY <1>1, <2>1, <2>2 DEF UiTypeOK
  <2>4. (CallsStopAtFault /\ NothingBeforeStore /\ UnforcedIsTheGames /\ SavedIsTheGames)'
    BY <1>1, <2>1 DEF CallsStopAtFault, NothingBeforeStore, UnforcedIsTheGames,
      SavedIsTheGames
  <2> QED
    BY <2>3, <2>4
<1> QED
  BY <1>2, <1>3

\* Keep and Drop remember at most what was remembered before.
LEMMA SettledInv == IInv /\ (Keep \/ Drop) => IInv'
<1> SUFFICES ASSUME IInv, Keep \/ Drop PROVE IInv'
  OBVIOUS
<1> USE DEF IInv, gameVars, touchVars, flagVars
<1>1. /\ ui = "look" /\ ui' = "effective"
      /\ changedProvider' \in {changedProvider, NoProvider}
      /\ changedProvider' # NoProvider => changedProvider = provider
      /\ owner' = Forgotten
      /\ UNCHANGED <<gameVars, override, savedOverride, touchVars, flagVars, faults>>
  BY DEF Keep, Drop
<1>2. UiTypeOK'
  BY <1>1, ForgottenFacts DEF UiTypeOK
<1>3. SavedIsTheGames'
  BY <1>1, ForgottenFacts DEF SavedIsTheGames
<1>4. (CallsStopAtFault /\ NothingBeforeStore /\ UnforcedIsTheGames)'
  BY <1>1 DEF CallsStopAtFault, NothingBeforeStore, UnforcedIsTheGames
<1> QED
  BY <1>2, <1>3, <1>4

\* Calls that return, and the two steps after a fault.
LEMMA ReturnInv ==
  ASSUME NEW ok \in BOOLEAN
  PROVE  IInv /\ (LookFaults \/ SetterReturns(ok) \/ EffectiveReturns(ok)
                   \/ FaultRaise \/ FaultDisable) => IInv'
<1> SUFFICES ASSUME IInv, LookFaults \/ SetterReturns(ok) \/ EffectiveReturns(ok)
                            \/ FaultRaise \/ FaultDisable
             PROVE  IInv'
  OBVIOUS
<1> USE DEF IInv, gameVars, claim, touchVars, flagVars
<1>1. faults' \in 0..MaxFaults
  BY CallCounts
  DEF UiTypeOK, LookFaults, SetterReturns, EffectiveReturns, FaultRaise, FaultDisable
<1>2. UiTypeOK'
  BY <1>1 DEF UiTypeOK, LookFaults, SetterReturns, EffectiveReturns, FaultRaise,
    FaultDisable
<1>3. (CallsStopAtFault /\ NothingBeforeStore /\ UnforcedIsTheGames)'
  <2>1. CASE LookFaults \/ EffectiveReturns(ok)
    <3>1. /\ UNCHANGED <<gameVars, override, changedProvider, flagVars>>
          /\ ui \in {"look", "effective"}
      BY <2>1 DEF LookFaults, EffectiveReturns
    <3> QED
      BY <3>1 DEF CallsStopAtFault, NothingBeforeStore, UnforcedIsTheGames
  <2>2. CASE SetterReturns(ok)
    <3>1. /\ UNCHANGED <<gameVars, override, flagVars>>
          /\ ui \in {"claiming", "restoring"}
          /\ changedProvider' \in {changedProvider, NoProvider}
      BY <2>2 DEF SetterReturns
    <3> QED
      BY <3>1 DEF CallsStopAtFault, NothingBeforeStore, UnforcedIsTheGames
  <2>3. CASE FaultRaise \/ FaultDisable
    BY <2>3 DEF CallsStopAtFault, NothingBeforeStore, UnforcedIsTheGames,
      FaultRaise, FaultDisable
  <2> QED
    BY <2>1, <2>2, <2>3
<1>4. SavedIsTheGames'
  BY DEF CallsStopAtFault, SavedIsTheGames, LookFaults, SetterReturns,
    EffectiveReturns, FaultRaise, FaultDisable
<1> QED
  BY <1>2, <1>3, <1>4

\* Enabling and disabling the bridge keep the invariant.
LEMMA WorkerInv == IInv /\ (ReadHealth \/ StoreEnabled \/ NoticeHealth \/ Disable) => IInv'
<1> SUFFICES ASSUME IInv, ReadHealth \/ StoreEnabled \/ NoticeHealth \/ Disable
             PROVE  IInv'
  OBVIOUS
<1> USE DEF IInv, gameVars, claim, touchVars
<1>1. UiTypeOK'
  BY DEF UiTypeOK, ReadHealth, StoreEnabled, NoticeHealth, Disable
<1>2. (CallsStopAtFault /\ NothingBeforeStore /\ UnforcedIsTheGames /\ SavedIsTheGames)'
  BY DEF CallsStopAtFault, NothingBeforeStore, UnforcedIsTheGames,
    SavedIsTheGames, ReadHealth, StoreEnabled, NoticeHealth, Disable
<1> QED
  BY <1>1, <1>2

\* What the game does to its providers keeps the invariant.
LEMMA GameInv == IInv /\ Game => IInv'
<1> SUFFICES ASSUME IInv, Game PROVE IInv'
  OBVIOUS
<1> USE DEF IInv, claim
<1>1. ASSUME GameRuns
      PROVE  /\ gameSteps' \in 0..MaxGame
             /\ ui \in {"idle", "claiming", "restoring"}
             /\ UNCHANGED <<claim, touchRegistrationAdded, uiFault, stored, found, ui, faults>>
  BY <1>1, BoundsAssumption DEF GameRuns, UiTypeOK
<1>2. ASSUME NEW v \in Layouts, GameSetsOverride(v) PROVE IInv'
  <2>1. /\ GameRuns
        /\ provider \in Providers
        /\ override' = [override EXCEPT ![provider] = v]
        /\ gameValue' = [gameValue EXCEPT ![provider] = v]
        /\ owner' = [owner EXCEPT ![provider] =
                       IF @ = "game" THEN "game" ELSE "game_again"]
        /\ UNCHANGED <<provider, registered, enabled, window>>
    BY <1>2 DEF GameSetsOverride, UiTypeOK
  <2>2. UiTypeOK'
    BY <1>1, <2>1 DEF UiTypeOK
  <2>3. (CallsStopAtFault /\ NothingBeforeStore)'
    BY <1>1, <2>1 DEF CallsStopAtFault, NothingBeforeStore
  <2>4. UnforcedIsTheGames'
    BY <1>1, <2>1 DEF UnforcedIsTheGames, UiTypeOK
  <2>5. SavedIsTheGames'
    BY <1>1, <2>1 DEF SavedIsTheGames, UiTypeOK
  <2> QED
    BY <2>2, <2>3, <2>4, <2>5
<1>3. ASSUME NEW p \in Providers \cup {NoProvider}, GameReplacesProvider(p)
      PROVE  IInv'
  <2>1. UiTypeOK'
    BY <1>1, <1>3 DEF GameReplacesProvider, UiTypeOK
  <2>2. (CallsStopAtFault /\ NothingBeforeStore /\ UnforcedIsTheGames /\ SavedIsTheGames)'
    BY <1>1, <1>3 DEF GameReplacesProvider, CallsStopAtFault, NothingBeforeStore,
      UnforcedIsTheGames, SavedIsTheGames
  <2> QED
    BY <2>1, <2>2
<1>4. ASSUME GameRegistersTouch \/ WindowDestroyed PROVE IInv'
  <2>1. UiTypeOK'
    BY <1>1, <1>4 DEF GameRegistersTouch, WindowDestroyed, UiTypeOK
  <2>2. (CallsStopAtFault /\ NothingBeforeStore /\ UnforcedIsTheGames /\ SavedIsTheGames)'
    BY <1>1, <1>4 DEF GameRegistersTouch, WindowDestroyed, CallsStopAtFault,
      NothingBeforeStore, UnforcedIsTheGames, SavedIsTheGames
  <2> QED
    BY <2>1, <2>2
<1> QED
  BY <1>2, <1>3, <1>4 DEF Game

\* The invariant is inductive.
LEMMA StepInv == IInv /\ [UiNext]_uiVars => IInv'
<1> SUFFICES ASSUME IInv, [UiNext]_uiVars PROVE IInv'
  OBVIOUS
<1>1. CASE MaintainUi
  BY <1>1, MaintainInv, ClaimInv, RestoreInv, SettledInv, ReturnInv DEF MaintainUi
<1>2. CASE ReadHealth \/ StoreEnabled \/ NoticeHealth \/ Disable
  BY <1>2, WorkerInv
<1>3. CASE Game
  BY <1>3, GameInv
<1>4. CASE UNCHANGED uiVars
  BY <1>4 DEF IInv, UiTypeOK, CallsStopAtFault, NothingBeforeStore,
    UnforcedIsTheGames, SavedIsTheGames, uiVars, gameVars, claim, touchVars, flagVars
<1> QED
  BY <1>1, <1>2, <1>3, <1>4 DEF UiNext

\* The bookkeeping of the override is consistent in every reachable state.
THEOREM OverrideInvariance == UiSpec => []IInv
BY InitInv, StepInv, PTL DEF UiSpec

\* Outside the game's own steps, Mobile is replaced only by restoring, in the
\* remembered provider.
LEMMA RestoringStep ==
  ASSUME IInv, [UiNext]_uiVars, NEW p \in Providers, override'[p] # override[p],
         gameSteps' = gameSteps, override[p] = Mobile
  PROVE  /\ owner[p] \in {"bridge", "game_again"}
         /\ owner[p] = "bridge" => override'[p] = gameValue[p]
<1> USE DEF IInv
<1>1. ~Game
  BY DEF Game, GameRuns, GameSetsOverride, GameReplacesProvider,
    GameRegistersTouch, WindowDestroyed, UiTypeOK
<1>2. PICK ok \in BOOLEAN : Claim(ok) \/ Restore(ok)
  BY <1>1 DEF UiNext, MaintainUi, Maintain, LookFaults, Keep, Drop, FaultRaise,
    FaultDisable, SetterReturns, EffectiveReturns, ReadHealth, StoreEnabled,
    NoticeHealth, Disable, uiVars
<1>3. ~Claim(ok)
  BY DEF Claim, Claimable, UiTypeOK
<1>4. /\ ui = "look" /\ changedProvider = provider /\ provider \in Providers
      /\ override' = [override EXCEPT ![provider] = savedOverride]
  BY <1>2, <1>3 DEF Restore, Restorable, UiTypeOK
<1>5. p = provider /\ override'[p] = savedOverride
  BY <1>4 DEF UiTypeOK
<1> QED
  BY <1>4, <1>5, ProvidersAssumption DEF SavedIsTheGames, CallsStopAtFault

\* Restoring reaches only what the bridge changed, with the game's own value,
\* for every number of providers, layouts, faults and changes.
THEOREM GamesValueReturns == UiSpec => RestoresTheGamesValue
<1>1. IInv /\ [UiNext]_uiVars =>
        [\A p \in Providers :
           (override'[p] # override[p] /\ gameSteps' = gameSteps /\ override[p] = Mobile)
             => /\ owner[p] \in {"bridge", "game_again"}
                /\ owner[p] = "bridge" => override'[p] = gameValue[p]]_uiVars
  BY RestoringStep
<1> QED
  BY <1>1, OverrideInvariance, PTL DEF UiSpec, RestoresTheGamesValue
=============================================================================
