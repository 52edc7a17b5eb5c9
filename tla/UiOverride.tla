----------------------------- MODULE UiOverride -----------------------------
(***************************************************************************)
(* How the payload forces the game's layout to Mobile and gives it back:   *)
(* maintain_ui (games/zzz/src/payload.cpp), called from a timer on the     *)
(* game's window thread.  The game's own UI code runs on the same thread:  *)
(* between two calls of maintain_ui, and within them while the setter's    *)
(* notifications run.  Only the worker thread, which enables and disables  *)
(* the bridge, runs beside it.  A re-entered maintain_ui returns at once   *)
(* (in_ui_call).  What the getter of the effective layout returns is only  *)
(* logged.                                                                 *)
(***************************************************************************)
EXTENDS Naturals

CONSTANTS
  Providers,  \* UI state objects the game may have, one at a time
  Layouts,    \* override values: 0 none, 1 Mobile, 2 PC
  NoProvider, \* no provider, or one not initialised yet
  MaxFaults,  \* bound on failing calls
  MaxGame     \* bound on the game's changes

Mobile == 1

ASSUME LayoutsAssumption == Layouts \subseteq Nat /\ {0, Mobile} \subseteq Layouts
ASSUME ProvidersAssumption == NoProvider \notin Providers
ASSUME BoundsAssumption == MaxFaults \in Nat /\ MaxGame \in Nat

VARIABLES
  provider,          \* what ready_ui_provider would return
  override,          \* the override property of each provider
  changedProvider, savedOverride,
  registered,        \* IsTouchWindow
  touchRegistrationAdded,
  enabled, uiFault,
  stored,            \* the worker has made its initial store of enabled
  found,             \* what it had read before that store
  window,            \* the window, and with it the timer, exists
  ui,                \* where maintain_ui is
  faults, gameSteps,
  gameValue,         \* history: the value the game last gave each provider
  owner              \* history: whose value a provider holds

gameVars == <<provider, gameSteps, gameValue>>
touchVars == <<registered, touchRegistrationAdded>>
flagVars == <<enabled, uiFault, stored, found, window>>
claim == <<changedProvider, savedOverride>>
uiVars == <<gameVars, override, claim, touchVars, flagVars, ui, faults, owner>>

\* A call succeeds, or uses up one fault.
Call(ok) ==
  /\ ok \/ faults < MaxFaults
  /\ faults' = IF ok THEN faults ELSE faults + 1

-----------------------------------------------------------------------------
(* maintain_ui                                                             *)

Register(ok) ==
  /\ enabled /\ ~touchRegistrationAdded /\ ~registered
  /\ Call(ok)
  /\ registered' = ok
  /\ touchRegistrationAdded' = ok

\* Mutant: the flag is cleared although the call failed.
UnregisterUnchecked(ok) ==
  /\ ~enabled /\ touchRegistrationAdded
  /\ Call(ok)
  /\ registered' = (registered /\ ~ok)
  /\ touchRegistrationAdded' = FALSE

Unregister(ok) ==
  /\ ~enabled /\ touchRegistrationAdded
  /\ Call(ok)
  /\ registered' = (registered /\ ~ok)
  /\ touchRegistrationAdded' = ~ok

KeepRegistration ==
  /\ enabled => touchRegistrationAdded \/ registered
  /\ ~enabled => ~touchRegistrationAdded
  /\ UNCHANGED <<touchVars, faults>>

\* The timer fires: touch registration, then the checks before any UI call.
Maintain ==
  /\ ui = "idle"
  /\ window
  /\ (\E ok \in BOOLEAN : Register(ok) \/ Unregister(ok)) \/ KeepRegistration
  /\ ui' = IF uiFault \/ provider = NoProvider THEN "idle" ELSE "look"
  /\ UNCHANGED <<gameVars, override, claim, flagVars, owner>>

\* A provider that is no longer the current one is not remembered.
Forgotten ==
  IF changedProvider \notin {NoProvider, provider}
  THEN [owner EXCEPT ![changedProvider] = "forgotten"]
  ELSE owner

\* The first call, of the getter, faults.
LookFaults ==
  /\ ui = "look"
  /\ Call(FALSE)
  /\ ui' = "fault"
  /\ UNCHANGED <<gameVars, override, claim, touchVars, flagVars, owner>>

\* Mutant: a provider changed before is not changed again.
ClaimableOnce == override[provider] # Mobile /\ changedProvider # provider

Claimable == override[provider] # Mobile

\* Mutant: the changed provider is not remembered.
Unmarked == UNCHANGED changedProvider

Marked == changedProvider' = provider

\* Ownership is marked before the setter is called; the setter may fault
\* before it has written anything.
Claim(written) ==
  /\ ui = "look"
  /\ enabled
  /\ Claimable
  /\ savedOverride' = override[provider]
  /\ Marked
  /\ IF written
     THEN /\ override' = [override EXCEPT ![provider] = Mobile]
          /\ owner' = [Forgotten EXCEPT ![provider] = "bridge"]
          /\ ui' = "claiming"
          /\ UNCHANGED faults
     ELSE /\ Call(FALSE) /\ owner' = Forgotten /\ ui' = "fault"
          /\ UNCHANGED override
  /\ UNCHANGED <<gameVars, touchVars, flagVars>>

\* Enabled, and the provider is in Mobile already.
Keep ==
  /\ ui = "look"
  /\ enabled
  /\ ~Claimable
  /\ changedProvider' =
       IF changedProvider = provider THEN provider ELSE NoProvider
  /\ owner' = Forgotten
  /\ ui' = "effective"
  /\ UNCHANGED <<gameVars, override, savedOverride, touchVars, flagVars, faults>>

\* Mutant: any provider in Mobile is taken for the changed one.
RestorableAnywhere == changedProvider # NoProvider /\ override[provider] = Mobile

Restorable == changedProvider = provider /\ override[provider] = Mobile

\* Disabled: give the saved value back.
Restore(written) ==
  /\ ui = "look"
  /\ ~enabled
  /\ Restorable
  /\ IF written
     THEN /\ override' = [override EXCEPT ![provider] = savedOverride]
          /\ owner' = [owner EXCEPT ![provider] = "game"]
          /\ ui' = "restoring"
          /\ UNCHANGED <<changedProvider, faults>>
     ELSE /\ Call(FALSE) /\ changedProvider' = NoProvider /\ ui' = "fault"
          /\ UNCHANGED <<override, owner>>
  /\ UNCHANGED <<gameVars, savedOverride, touchVars, flagVars>>

\* Disabled, and there is nothing to give back, or no longer.
Drop ==
  /\ ui = "look"
  /\ ~enabled
  /\ ~Restorable
  /\ changedProvider' = NoProvider
  /\ owner' = Forgotten
  /\ ui' = "effective"
  /\ UNCHANGED <<gameVars, override, savedOverride, touchVars, flagVars, faults>>

\* The setter returns from its notifications, or faults in one.
SetterReturns(ok) ==
  /\ ui \in {"claiming", "restoring"}
  /\ changedProvider' = IF ui = "restoring" THEN NoProvider ELSE changedProvider
  /\ Call(ok)
  /\ ui' = IF ok THEN "effective" ELSE "fault"
  /\ UNCHANGED <<gameVars, override, savedOverride, touchVars, flagVars, owner>>

EffectiveReturns(ok) ==
  /\ ui = "effective"
  /\ Call(ok)
  /\ ui' = IF ok THEN "idle" ELSE "fault"
  /\ UNCHANGED <<gameVars, override, claim, touchVars, flagVars, owner>>

FaultRaise ==
  /\ ui = "fault"
  /\ uiFault' = TRUE
  /\ ui' = "disable"
  /\ UNCHANGED <<gameVars, override, claim, touchVars, enabled, stored, found, window,
                 faults, owner>>

FaultDisable ==
  /\ ui = "disable"
  /\ enabled' = FALSE
  /\ ui' = "idle"
  /\ UNCHANGED <<gameVars, override, claim, touchVars, uiFault, stored, found, window,
                 faults, owner>>

MaintainUi ==
  \/ Maintain \/ LookFaults \/ Keep \/ Drop \/ FaultRaise \/ FaultDisable
  \/ \E ok \in BOOLEAN :
       Claim(ok) \/ Restore(ok) \/ SetterReturns(ok) \/ EffectiveReturns(ok)

-----------------------------------------------------------------------------
(* The worker thread: the initial store, then its loop.                     *)

ReadHealth ==
  /\ found = "unread"
  /\ found' = IF ~uiFault /\ window THEN "healthy" ELSE "unhealthy"
  /\ UNCHANGED <<gameVars, override, claim, touchVars, enabled, uiFault, stored,
                 window, ui, faults, owner>>

StoreEnabled ==
  /\ ~stored /\ found # "unread"
  /\ stored' = TRUE
  /\ enabled' = (found = "healthy")
  /\ UNCHANGED <<gameVars, override, claim, touchVars, uiFault, found, window, ui,
                 faults, owner>>

\* The loop notices a fault or a window that is gone.
NoticeHealth ==
  /\ stored /\ enabled
  /\ uiFault \/ ~window
  /\ enabled' = FALSE
  /\ UNCHANGED <<gameVars, override, claim, touchVars, uiFault, stored, found, window,
                 ui, faults, owner>>

\* Another writer changed the table.
Disable ==
  /\ stored /\ enabled
  /\ enabled' = FALSE
  /\ UNCHANGED <<gameVars, override, claim, touchVars, uiFault, stored, found, window,
                 ui, faults, owner>>

-----------------------------------------------------------------------------
(* The game, on the window thread                                          *)

GameRuns ==
  /\ ui \in {"idle", "claiming", "restoring"}
  /\ gameSteps < MaxGame
  /\ gameSteps' = gameSteps + 1
  /\ UNCHANGED <<claim, touchRegistrationAdded, uiFault, stored, found, ui, faults>>

GameSetsOverride(v) ==
  /\ GameRuns
  /\ provider # NoProvider
  /\ override[provider] # v
  /\ override' = [override EXCEPT ![provider] = v]
  /\ gameValue' = [gameValue EXCEPT ![provider] = v]
  /\ owner' = [owner EXCEPT ![provider] = IF @ = "game" THEN "game" ELSE "game_again"]
  /\ UNCHANGED <<provider, registered, enabled, window>>

GameReplacesProvider(p) ==
  /\ GameRuns
  /\ p # provider
  /\ provider' = p
  /\ UNCHANGED <<override, gameValue, owner, registered, enabled, window>>

GameRegistersTouch ==
  /\ GameRuns
  /\ ~registered
  /\ registered' = TRUE
  /\ UNCHANGED <<provider, override, gameValue, owner, enabled, window>>

\* WM_NCDESTROY; the timer dies with the window.
WindowDestroyed ==
  /\ GameRuns
  /\ window
  /\ window' = FALSE
  /\ enabled' = FALSE
  /\ UNCHANGED <<provider, override, gameValue, owner, registered>>

Game ==
  \/ \E v \in Layouts : GameSetsOverride(v)
  \/ \E p \in Providers \cup {NoProvider} : GameReplacesProvider(p)
  \/ GameRegistersTouch
  \/ WindowDestroyed

UiInit ==
  /\ provider \in Providers \cup {NoProvider}
  /\ override \in [Providers -> Layouts]
  /\ gameValue = override
  /\ changedProvider = NoProvider
  /\ savedOverride = 0
  /\ registered \in BOOLEAN
  /\ touchRegistrationAdded = FALSE
  /\ enabled = FALSE
  /\ uiFault = FALSE
  /\ stored = FALSE
  /\ found = "unread"
  /\ window = TRUE
  /\ ui = "idle"
  /\ faults = 0
  /\ gameSteps = 0
  /\ owner = [p \in Providers |-> "game"]

UiNext ==
  MaintainUi \/ ReadHealth \/ StoreEnabled \/ NoticeHealth \/ Disable \/ Game

UiSpec == UiInit /\ [][UiNext]_uiVars

-----------------------------------------------------------------------------
\* Every variable has its type; Mobile is never the value to go back to.
UiTypeOK ==
  /\ provider \in Providers \cup {NoProvider}
  /\ changedProvider \in Providers \cup {NoProvider}
  /\ override \in [Providers -> Layouts]
  /\ gameValue \in [Providers -> Layouts]
  /\ savedOverride \in Layouts \ {Mobile}
  /\ owner \in [Providers -> {"game", "bridge", "game_again", "forgotten"}]
  /\ {registered, touchRegistrationAdded, enabled, uiFault, stored, window}
       \subseteq BOOLEAN
  /\ found \in {"unread", "healthy", "unhealthy"}
  /\ ui \in {"idle", "look", "claiming", "restoring", "effective", "fault", "disable"}
  /\ (ui = "look" => provider # NoProvider)
  /\ faults \in 0..MaxFaults
  /\ gameSteps \in 0..MaxGame

\* A restoring write reaches only a provider this bridge had changed and
\* still knows, and gives it the value the game had chosen there, however the
\* game replaced providers and values in between (docs/ZZZ_INTERNALS.md: "so
\* an external writer's later value survives").  Mobile chosen by the game
\* over the bridge's own Mobile cannot be told apart and is the exception.
RestoresTheGamesValue ==
  [][\A p \in Providers :
       (override'[p] # override[p] /\ gameSteps' = gameSteps /\ override[p] = Mobile)
         => /\ owner[p] \in {"bridge", "game_again"}
            /\ owner[p] = "bridge" => override'[p] = gameValue[p]]_uiVars

\* A provider the bridge put into Mobile, and still knows, gets its value back
\* when the bridge is disabled, unless UI calls are suppressed by a fault, the
\* window is gone, or the game replaced the provider.
ChangedProvidersAreGivenBack ==
  \A p \in Providers :
    (owner[p] = "bridge" /\ ~enabled) ~>
      (owner[p] # "bridge" \/ provider # p \/ uiFault \/ ~window)

\* As long as the bridge is enabled the current provider ends up in Mobile,
\* whatever the game sets.
MobileWhileEnabled ==
  (enabled /\ provider # NoProvider) ~>
    (provider = NoProvider \/ override[provider] = Mobile \/ ~enabled)

\* The touch registration the bridge added is taken back after it is
\* disabled, even if the first calls fail.
RegistrationIsTakenBack ==
  (touchRegistrationAdded /\ ~enabled) ~>
    ((~touchRegistrationAdded /\ ~registered) \/ enabled \/ ~window)
=============================================================================
