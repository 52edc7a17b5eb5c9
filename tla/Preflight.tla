----------------------------- MODULE Preflight -----------------------------
(***************************************************************************)
(* What a launcher does before it touches a game: it reads its command,    *)
(* and it reads the executable.  The two share nothing but the file's      *)
(* name, and a behaviour shows one of them.                                *)
(***************************************************************************)
EXTENDS CommandLine, PeImage

vars == <<commandVars, imageVars>>

NoImage == [loaded |-> FALSE, sections |-> <<>>, bytes |-> <<>>]

Init ==
  \/ CommandInit /\ image = NoImage /\ stage = "refused" /\ answer = NoAnswer
  \/ /\ ImageInit
     /\ argv = <<>> /\ at = 1 /\ pc = "launch" /\ opt = NothingRead
     /\ log = FALSE /\ elevated = TRUE /\ asked = NotAsked

Next ==
  \/ CommandNext /\ UNCHANGED imageVars
  \/ ImageNext /\ UNCHANGED commandVars

Spec == Init /\ [][Next]_vars
=============================================================================
