------------------------------ MODULE GiTouch ------------------------------
(***************************************************************************)
(* touchui::gi::initialize (gi_touch.hpp, gi_touch_plan.hpp): the plan     *)
(* found in the file is found again in the suspended child, validated,     *)
(* given a helper near the image, and applied window by window.            *)
(***************************************************************************)
EXTENDS OwnedChild

CONSTANT NumSites      \* windows of the plan: 11
ASSUME NumSitesAssumption == NumSites \in Nat \ {0}
Sites == 1 .. NumSites

VARIABLES
  site,      \* the bytes of each window in the child
  open,      \* windows left writable
  helper,    \* the joystick helper's allocation
  next       \* the window apply_plan is at

touchVars == <<site, open, helper, next>>

TouchTypeOK ==
  /\ site \in [Sites -> {"expected", "foreign", "torn", "patched"}]
  /\ open \subseteq Sites
  /\ helper \in [mem : {"none", "RW", "RX", "freed"}, owned : BOOLEAN]
  /\ next \in 1 .. NumSites + 1

\* The child's image may differ from the file the plan was found in.
TouchInit ==
  /\ site \in [Sites -> {"expected", "foreign"}]
  /\ open = {}
  /\ helper = [mem |-> "none", owned |-> FALSE]
  /\ next = 1

AsExpected == \A s \in Sites : site[s] = "expected"

-----------------------------------------------------------------------------
\* resolve() over the loaded image gives the plan of the file, or throws.
Snapshot ==
  /\ AsExpected
  /\ Proceed("snapshot", "validate")
  /\ UNCHANGED touchVars

\* validate_plan reads every window before anything is allocated.
Validate ==
  /\ AsExpected
  /\ Proceed("validate", "helper")
  /\ UNCHANGED touchVars

AllocateHelper ==
  /\ Proceed("helper", "helper_code")
  /\ helper' = [mem |-> "RW", owned |-> TRUE]
  /\ UNCHANGED <<site, open, next>>

\* prepare(): the calls are encoded, the code is written and read back.
WriteHelper == Proceed("helper_code", "helper_protect") /\ UNCHANGED touchVars

ProtectHelper ==
  /\ Proceed("helper_protect", "apply")
  /\ helper' = [helper EXCEPT !.mem = "RX"]
  /\ UNCHANGED <<site, open, next>>

\* Mutant: apply_plan looks at the window it is about to write only.
ApplyUnvalidated ==
  /\ site[1] = "expected"
  /\ Proceed("apply", "open")
  /\ UNCHANGED touchVars

\* apply_plan begins by validating the whole plan again.
Apply ==
  /\ AsExpected
  /\ Proceed("apply", "open")
  /\ UNCHANGED touchVars

\* write_code: the window is one executable region, now made writable.
OpenSite ==
  /\ Proceed("open", "write")
  /\ open' = open \cup {next}
  /\ UNCHANGED <<site, helper, next>>

\* Written or not, the protection is given back before anything is reported.
WriteSite ==
  /\ \/ Proceed("write", "flush") /\ site' = [site EXCEPT ![next] = "patched"]
     \/ /\ Proceed("write", "close_failed")
        /\ \E left \in {"expected", "torn"} : site' = [site EXCEPT ![next] = left]
  /\ UNCHANGED <<open, helper, next>>

FlushSite ==
  /\ Proceed("flush", "close") \/ Proceed("flush", "close_failed")
  /\ UNCHANGED touchVars

CloseSite ==
  /\ \/ /\ Proceed("close", "verify") \/ Proceed("close_failed", "unwind")
        /\ open' = open \ {next}
     \/ /\ pc \in {"close", "close_failed"}
        /\ Throw
        /\ UNCHANGED open
  /\ UNCHANGED <<site, helper, next>>

VerifySite ==
  /\ Proceed("verify", IF next = NumSites THEN "release" ELSE "open")
  /\ site[next] = "patched"
  /\ next' = next + 1
  /\ UNCHANGED <<site, open, helper>>

ReleaseHelper ==
  /\ Proceed("release", "resume")
  /\ helper' = [helper EXCEPT !.owned = FALSE]
  /\ UNCHANGED <<site, open, next>>

-----------------------------------------------------------------------------
\* Where a failing call or a failing check changes nothing and throws.
TouchCalls == {"snapshot", "validate", "helper", "helper_code", "helper_protect",
               "apply", "open", "verify"}

TouchCallFails == pc \in TouchCalls /\ Throw /\ UNCHANGED touchVars

TouchStep ==
  \/ Snapshot \/ Validate \/ AllocateHelper \/ WriteHelper \/ ProtectHelper
  \/ Apply \/ OpenSite \/ WriteSite \/ FlushSite \/ CloseSite \/ VerifySite
  \/ ReleaseHelper \/ TouchCallFails

\* ~JoystickCode frees what was not released.
FreedHelper ==
  IF helper.mem \in {"RW", "RX"} /\ helper.owned
  THEN [helper EXCEPT !.mem = "freed"] ELSE helper

\* Another process changes code of the suspended child before apply_plan has
\* looked at it for the last time.
ForeignSite ==
  /\ child = "suspended" /\ kind = "GI"
  /\ pc \in TouchCalls \ {"open", "verify"}
  /\ \E s \in Sites : site[s] = "expected" /\ site' = [site EXCEPT ![s] = "foreign"]
  /\ UNCHANGED <<owned, open, helper, next>>
=============================================================================
