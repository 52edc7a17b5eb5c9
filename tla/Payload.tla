------------------------------ MODULE Payload ------------------------------
(***************************************************************************)
(* What the payload changes in the game besides its touches                *)
(* (games/zzz/src/payload.cpp): the icall table, by the worker, and the    *)
(* UI's layout, by the timer of the game's window.  The override waits for *)
(* `enabled`, which the worker stores only after all hooks are in place; a *)
(* conflict over the table disables it.  A behaviour follows the table     *)
(* all the way, or up to an installation nobody disturbed and from there   *)
(* the override, with the conflict as one of the worker's reasons in       *)
(* Disable.                                                                *)
(***************************************************************************)
EXTENDS IcallHooks, UiOverride

VARIABLE follows  \* which of the two a behaviour follows

vars == <<hookVars, uiVars, follows>>

Init == HooksInit /\ UiInit /\ follows = "table"

Table == follows = "table" /\ HooksNext /\ UNCHANGED <<uiVars, follows>>

\* hooks_ready is published; what follows in worker() is the override's.
Installed ==
  /\ follows = "table"
  /\ hooksReady /\ disturbances = 0
  /\ follows' = "override"
  /\ UNCHANGED <<hookVars, uiVars>>

Override(step) == follows = "override" /\ step /\ UNCHANGED <<hookVars, follows>>

Next == Table \/ Installed \/ Override(UiNext)

Spec == Init /\ [][Next]_vars

\* The timer fires again and again while the window lives, the UI calls return, and
\* the worker polls.
LiveSpec ==
  Spec /\ WF_vars(Override(MaintainUi)) /\ WF_vars(Override(NoticeHealth))
=============================================================================
