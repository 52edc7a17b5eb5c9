----------------------------- MODULE OwnedChild -----------------------------
(***************************************************************************)
(* The child process a launcher owns while it sets it up: created          *)
(* suspended, prepared call by call, then resumed and released, or         *)
(* terminated (game::Child, and launcher.cpp around it).                   *)
(***************************************************************************)
EXTENDS Naturals, FiniteSets

VARIABLES
  kind,    \* which set-up runs
  pc,      \* the launcher's next system call or library call
  child    \* what became of the child

owned == <<kind, pc, child>>

\* GI is patched (gi_touch.hpp), SR gets a worker (sr_mobile.hpp); "legacy" is
\* the retained GI adapter (gi_mobile.hpp), which installs a one-shot hook.
Kinds == {"GI", "SR", "legacy"}

OwnedTypeOK ==
  /\ kind \in Kinds
  /\ pc \in STRING
  /\ child \in {"suspended", "running", "dead"}

OwnedInit ==
  /\ kind \in Kinds
  /\ pc = IF kind = "GI" THEN "snapshot" ELSE "bootstrap"
  /\ child = "suspended"

\* A call succeeds and the code goes on with the next one.
Proceed(from, to) ==
  /\ pc = from
  /\ pc' = to
  /\ UNCHANGED <<kind, child>>

\* A require() or check() throws: the destructors of the set-up run next.
Throw == pc' = "unwind" /\ UNCHANGED <<kind, child>>

\* The destructors of the set-up are through, ~Child comes next.
Unwound == Proceed("unwind", "terminate")

\* child.resume(); child.release().
Resume ==
  /\ pc = "resume"
  /\ pc' = "released"
  /\ child' = "running"
  /\ UNCHANGED kind

\* ~Child terminates what was not released; what TerminateProcess returns is
\* ignored.
Terminate ==
  /\ pc = "terminate"
  /\ pc' = "ended"
  /\ child' \in {"dead", child}
  /\ UNCHANGED kind
=============================================================================
