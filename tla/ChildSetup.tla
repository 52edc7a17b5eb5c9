----------------------------- MODULE ChildSetup -----------------------------
(***************************************************************************)
(* A launcher sets up one owned child in one of three ways and lets it go  *)
(* or terminates it, while threads run in the child.                       *)
(***************************************************************************)
EXTENDS GiStub, GiTouch

vars == <<owned, remoteVars, stubVars, touchVars>>

Init == OwnedInit /\ RemoteInit /\ StubInit /\ TouchInit

\* The destructors of what initialize() has on its stack when it throws.
Unwind ==
  /\ Unwound
  /\ block' = FreedBlocks
  /\ helper' = FreedHelper
  /\ UNCHANGED <<remote, uiState, started, polls, target, stubVars, site, open, next>>

\* ResumeThread may fail, then the child is terminated.
ResumeFails == pc = "resume" /\ Throw

OwnedStep ==
  /\ Resume \/ ResumeFails \/ Terminate
  /\ UNCHANGED <<remoteVars, stubVars, touchVars>>

Launcher ==
  \/ RemoteStep /\ UNCHANGED <<stubVars, touchVars>>
  \/ TouchStep /\ UNCHANGED <<remoteVars, stubVars>>
  \/ Unwind
  \/ OwnedStep

ChildThreads ==
  \/ RemoteThread /\ UNCHANGED <<stubVars, touchVars>>
  \/ Worker /\ UNCHANGED <<stubVars, touchVars>>
  \/ \E t \in Threads : GameThread(t) /\ UNCHANGED touchVars
  \/ GameSetsUi /\ UNCHANGED <<stubVars, touchVars>>

Next ==
  \/ Launcher
  \/ ChildThreads
  \/ ForeignSite /\ UNCHANGED <<remoteVars, stubVars>>

Spec == Init /\ [][Next]_vars

\* The launcher's calls return or time out, a thread of the game that has
\* entered the function is scheduled, and so is the worker.  Nothing is assumed
\* of the loader thread, which may hang for ever.
Fairness ==
  /\ WF_vars(Launcher)
  /\ \A t \in Threads : WF_vars(Runs(t) /\ UNCHANGED touchVars)
  /\ WF_vars(Worker /\ UNCHANGED <<stubVars, touchVars>>)

LiveSpec == Spec /\ Fairness

-----------------------------------------------------------------------------
TypeOK == OwnedTypeOK /\ RemoteTypeOK /\ StubTypeOK /\ TouchTypeOK

\* docs/ARCHITECTURE.md: "Once a live thread or installed callback can reference
\* a block, retain it."  However waits time out and destructors run, a thread
\* alive in the child has its code, its context and a restorable target.
ThreadsKeepTheirMemory ==
  child # "dead" =>
    /\ remote.loader = "running" => Fit("loader")
    /\ remote.worker # "none" => Fit("ui")
    /\ \A t \in Threads :
         /\ at[t] # "idle" /\ at[t] # "original" => Fit("ui")
         /\ at[t] = "restore" => target.prot = "RWX"

\* A child is resumed only when everything was done, whatever failed before:
\* the layout word is set, or the hook is in place, or every window is patched,
\* protected again and its helper stays; and no loader block is left behind.
ResumedChildIsComplete ==
  [][child' = "running" /\ child = "suspended" =>
       /\ block.loader.mem \in {"none", "freed"}
       /\ kind = "SR" => uiState = "mobile" /\ remote.worker # "none"
       /\ kind = "legacy" => target.bytes = "jump" /\ block.ui.retained
       /\ kind = "GI" => /\ \A s \in Sites : site[s] = "patched"
                         /\ open = {}
                         /\ helper = [mem |-> "RX", owned |-> FALSE]]_vars

\* A window is written only when the whole plan was as expected at the last
\* look: a child in which any of them differs is not touched.
WrittenOnlyAsAWhole ==
  (\E s \in Sites : site[s] \in {"torn", "patched"}) =>
     \A s \in Sites : site[s] # "foreign"

\* No thread calls the original function before its bytes are back, and the
\* game's setters run at most once each, after the function has returned.
HookIsOneShot ==
  /\ \A t \in Threads :
       /\ at[t] = "call" => target.bytes = "original"
       /\ at[t] \in {"set_ui", "set_input"} => ran[t] = calls[t]
  /\ setters <= 2

\* Nobody waits for ever.  The set-up ends: its child is resumed, or Windows is
\* asked to terminate it, even if the loader thread never returns.  Every call of the
\* hooked function comes back to the game having run the original exactly
\* once, also when the winner's flush or protection call failed.
NobodyWaitsForEver ==
  /\ <>(pc \in {"released", "ended"})
  /\ \A t \in Threads : at[t] # "idle" ~> at[t] = "idle" /\ ran[t] = calls[t]

\* The SR worker puts its word back after the game has changed it.
UiStateComesBack ==
  (child = "running" /\ kind = "SR") ~> uiState = "mobile"
=============================================================================
