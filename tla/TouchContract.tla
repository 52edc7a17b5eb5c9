---------------------------- MODULE TouchContract ----------------------------
(***************************************************************************)
(* What the game may rely on when it polls Input.touches once per frame,   *)
(* whatever the order in which Windows messages arrive: the promise that   *)
(* touch::State makes to Unity, without contacts, keys or flags.           *)
(*                                                                         *)
(*   - a finger appears once, with phase Began and no delta;               *)
(*   - it is then in every frame, and its deltas telescope (each one       *)
(*     starts where the previous frame left it);                           *)
(*   - it leaves only after one frame of Ended or Canceled, and its number *)
(*     is never used again;                                                *)
(*   - within one frame id the answer does not change.                     *)
(***************************************************************************)
EXTENDS ContactOps

CONSTANTS FrameIds

VARIABLES
  view,   \* the touches of the current frame, by finger
  used,   \* fingers that can no longer begin
  frame   \* the frame id `view` belongs to

vars == <<view, used, frame>>

NoFrame == -1

Init == view = NoTouches /\ used = {} /\ frame = NoFrame

Starts(t) == t.phase = "Began" /\ t.from = t.position

Continues(t, next) ==
  /\ next.from = t.position
  /\ next.phase # "Began"
  /\ next.phase \notin TerminalPhases =>
       (next.phase = "Moved" <=> next.from # next.position)

Finished(v) == {f \in DOMAIN v : v[f].phase \in TerminalPhases}

\* A new frame continues every unfinished finger and may start fresh ones.
Advance ==
  /\ DOMAIN view \ Finished(view) = DOMAIN view' \cap used
  /\ \A f \in DOMAIN view \ Finished(view) : Continues(view[f], view'[f])
  /\ \A f \in DOMAIN view' \ used :
       Starts(view'[f]) /\ \A g \in used : g < f
  /\ Cardinality(DOMAIN view') <= Capacity
  /\ used' = used \cup DOMAIN view'

NewFrame(id) ==
  /\ id # frame
  /\ frame' = id
  /\ Advance

\* The owner forgets every touch; fingers it never reported are lost too.
Reset ==
  /\ view' = NoTouches
  /\ frame' = NoFrame
  /\ used \subseteq used'

Next == (\E id \in FrameIds : NewFrame(id)) \/ Reset

Spec == Init /\ [][Next]_vars
=============================================================================
