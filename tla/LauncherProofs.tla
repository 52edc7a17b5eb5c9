--------------------------- MODULE LauncherProofs ---------------------------
(***************************************************************************)
(* Proofs about the launcher, for every set of commands and any number of  *)
(* killed processes.                                                       *)
(*                                                                         *)
(* The first invariant, Guarded, is about the mutex and the games that are *)
(* alive; the second, Books, rests on it and says of each process what its *)
(* place and its exit code mean for its game, the path and the thread in   *)
(* it, and the logging event.                                              *)
(***************************************************************************)
EXTENDS Launcher, TLAPS

\* A process that has not yet created a game has none; when it is about to
\* create one, there is no launched game at all.
NoGameYet ==
  /\ \A p \in Processes : pc[p] \in Before \cup {"recheck", "create"} =>
       game[p].state = "none"
  /\ \A p \in Processes : pc[p] = "create" =>
       \A q \in Processes : game[q].state \notin Alive

\* Only an original process asks for an elevated one, and it does so once.
ChildrenWait ==
  \A p \in Processes :
    /\ pc[p] \in {"absent", "ask"} => p[2] = (IF pc[p] = "ask" THEN "original" ELSE "elevated")
    /\ p[2] = "original" /\ pc[p] \in {"check", "elevate", "ask"} => pc[ChildOf(p)] = "absent"

Guarded == TypeOK /\ ChildrenWait /\ NoGameYet /\ OneLaunchedGame

-----------------------------------------------------------------------------
\* The invariant holds when the commands are given.
LEMMA InitGuarded == Init => Guarded
<1> SUFFICES ASSUME Init PROVE Guarded
  OBVIOUS
<1>1. TypeOK
  BY NobodyAssumption DEF Init, TypeOK, Locations, Codes, Games, Remotes, Before, Holding
<1>2. NoGameYet /\ OneLaunchedGame
  BY DEF Init, NoGameYet, OneLaunchedGame, Alive
<1>3. ChildrenWait
  BY DEF Init, ChildrenWait, Processes, ChildOf
<1> QED
  BY <1>1, <1>2, <1>3 DEF Guarded

\* The elevated process of a command is one of the processes.
LEMMA ChildIsProcess ==
  ASSUME NEW p \in Processes
  PROVE  ChildOf(p) \in Processes /\ ChildOf(p)[2] = "elevated"
BY DEF Processes, ChildOf

\* Type of a game whose setup was completed.
LEMMA GameWith ==
  ASSUME NEW g \in Games, NEW complete \in BOOLEAN
  PROVE  [g EXCEPT !.complete = complete] \in Games
BY DEF Games

\* Type of a game just created.
LEMMA NewGame ==
  ASSUME NEW g \in Games, NEW state \in Alive, NEW complete \in BOOLEAN
  PROVE  [g EXCEPT !.state = state, !.complete = complete] \in Games
BY DEF Games

\* Assigning one game keeps the type of all.
LEMMA SetGameTyped ==
  ASSUME TypeOK, NEW p \in Processes, NEW g \in Games, SetGame(p, g)
  PROVE  game' \in [Processes -> Games]
BY DEF TypeOK, SetGame

\* Assigning one game's loader keeps the type of all.
LEMMA SetRemoteTyped ==
  ASSUME TypeOK, NEW p \in Processes, NEW r \in Remotes, SetRemote(p, r)
  PROVE  remote' \in [Processes -> Remotes]
BY DEF TypeOK, SetRemote

\* Type of a loader whose path was written or freed.
LEMMA RemoteWith ==
  ASSUME NEW r \in Remotes, NEW path \in {"none", "written"}
  PROVE  [r EXCEPT !.path = path] \in Remotes
BY DEF Remotes

\* What a step of a launcher does to its place, and to nobody else's.
MovesTo(p, from, to) ==
  /\ pc[p] = from
  /\ pc'[p] = to
  /\ pc' \in [Processes -> Locations]
  /\ \A q \in Processes \ {p} : pc'[q] = pc[q]
  /\ exit' \in [Processes -> Codes]

\* Going on is a move to the place named.
LEMMA GoesMoves ==
  ASSUME TypeOK, NEW p \in Processes, NEW from, NEW to \in Locations, Goes(p, from, to)
  PROVE  MovesTo(p, from, to)
BY DEF TypeOK, Goes, MovesTo

\* Exiting is a move to the end.
LEMMA ExitsMoves ==
  ASSUME TypeOK, NEW p \in Processes, NEW from, NEW code \in Codes, Exits(p, from, code)
  PROVE  MovesTo(p, from, "done")
BY DEF TypeOK, Exits, MovesTo, Locations

\* A step that stays on its side of the mutex.
LEMMA SameSideTyped ==
  ASSUME TypeOK, NEW p \in Processes, NEW from, NEW to, MovesTo(p, from, to),
         from \in Holding <=> to \in Holding,
         UNCHANGED <<config, admin, mutex, manual>>,
         game' \in [Processes -> Games], remote' \in [Processes -> Remotes],
         logEvent' \in [Processes -> BOOLEAN]
  PROVE  TypeOK'
BY DEF TypeOK, MovesTo, config

\* Every step of a launcher keeps the types and the ownership of the mutex.
LEMMA LauncherTyped ==
  ASSUME TypeOK, ChildrenWait, NEW p \in Processes, LauncherStep(p)
  PROVE  TypeOK'
<1>1. CASE Check(p)
  <2>1. \E to \in {"elevate", "done"} : MovesTo(p, "check", to)
    BY <1>1, GoesMoves, ExitsMoves DEF Check, Locations, Before, Holding, Codes
  <2> QED
    BY <1>1, <2>1, SameSideTyped DEF Check, gameVars, Holding, TypeOK
<1>2. CASE Elevate(p)
  <2>1. \E to \in {"lock", "ask", "done"} : MovesTo(p, "elevate", to)
    BY <1>2, GoesMoves, ExitsMoves DEF Elevate, Locations, Before, Holding, Codes
  <2> QED
    BY <1>2, <2>1, SameSideTyped DEF Elevate, gameVars, Holding, TypeOK
<1>3. CASE WaitChild(p)
  <2>1. exit[ChildOf(p)] \in Codes /\ "failed" \in Codes
    BY ChildIsProcess DEF TypeOK, Codes
  <2>2. MovesTo(p, "wait_child", "done")
    BY <1>3, <2>1, ExitsMoves DEF WaitChild
  <2> QED
    BY <1>3, <2>2, SameSideTyped DEF WaitChild, gameVars, Holding, TypeOK
<1>4. CASE Recheck(p)
  <2>1. \E to \in {"create", "unlock_failed"} : MovesTo(p, "recheck", to)
    BY <1>4, GoesMoves, ExitsMoves DEF Recheck, Locations, Before, Holding, Codes
  <2> QED
    BY <1>4, <2>1, SameSideTyped DEF Recheck, gameVars, Holding, TypeOK
<1>5. CASE WaitExit(p)
  <2>1. \E to \in {"unlock_failed"} : MovesTo(p, "wait_exit", to)
    BY <1>5, GoesMoves, ExitsMoves DEF WaitExit, Locations, Before, Holding, Codes
  <2> QED
    BY <1>5, <2>1, SameSideTyped DEF WaitExit, gameVars, Holding, TypeOK
<1>6. CASE WaitAssembly(p)
  <2>1. \E to \in {"log_event", "terminate"} : MovesTo(p, "wait_assembly", to)
    BY <1>6, GoesMoves, ExitsMoves DEF WaitAssembly, Step, Locations, Before, Holding, Codes
  <2> QED
    BY <1>6, <2>1, SameSideTyped DEF WaitAssembly, gameVars, Holding, TypeOK
<1>7. CASE Verify(p)
  <2>1. \E to \in {"wait_started", "terminate"} : MovesTo(p, "verify", to)
    BY <1>7, GoesMoves, ExitsMoves DEF Verify, Step, Locations, Before, Holding, Codes
  <2> QED
    BY <1>7, <2>1, SameSideTyped DEF Verify, gameVars, Holding, TypeOK
<1>8. CASE Setup(p)
  <2>1. \E to \in {"resume", "terminate"} : MovesTo(p, "setup", to)
    BY <1>8, GoesMoves DEF Setup, Locations, Holding
  <2>2. game' \in [Processes -> Games]
    <3>1. game[p] \in Games
      BY DEF TypeOK
    <3>2. [game[p] EXCEPT !.complete = TRUE] \in Games
      BY <3>1, GameWith
    <3>3. SetGame(p, [game[p] EXCEPT !.complete = TRUE]) \/ UNCHANGED game
      BY <1>8 DEF Setup
    <3> QED
      BY <3>2, <3>3, SetGameTyped DEF TypeOK
  <2> QED
    BY <1>8, <2>1, <2>2, SameSideTyped DEF Setup, Holding, TypeOK
<1>9. CASE Resume(p)
  <2>1. \E to \in {"release", "terminate"} : MovesTo(p, "resume", to)
    BY <1>9, GoesMoves DEF Resume, Locations, Holding
  <2>2. game' \in [Processes -> Games]
    BY <1>9 DEF Resume, SetGame, TypeOK, Games, Alive
  <2> QED
    BY <1>9, <2>1, <2>2, SameSideTyped DEF Resume, Holding, TypeOK
<1>10. CASE Release(p)
  <2>1. \E to \in {"unlock_ok"} : MovesTo(p, "release", to)
    BY <1>10, GoesMoves DEF Release, Locations, Holding
  <2>2. game' \in [Processes -> Games]
    BY <1>10 DEF Release, SetGame, TypeOK, Games
  <2> QED
    BY <1>10, <2>1, <2>2, SameSideTyped DEF Release, Holding, TypeOK
<1>11. CASE Terminate(p)
  <2>1. \E to \in {"wait_exit"} : MovesTo(p, "terminate", to)
    BY <1>11, GoesMoves DEF Terminate, Locations, Holding
  <2>2. game' \in [Processes -> Games]
    <3> DEFINE state == IF game[p].state \in Alive THEN "dying" ELSE game[p].state
    <3>1. game[p] \in Games
      BY DEF TypeOK
    <3>2. /\ [game[p] EXCEPT !.state = state] \in Games
          /\ [game[p] EXCEPT !.refused = TRUE] \in Games
      BY <3>1 DEF Games, Alive
    <3>3. \/ SetGame(p, [game[p] EXCEPT !.state = state])
          \/ SetGame(p, [game[p] EXCEPT !.refused = TRUE])
      BY <1>11 DEF Terminate
    <3> QED
      BY <3>2, <3>3, SetGameTyped
  <2>3. logEvent' \in [Processes -> BOOLEAN]
    BY <1>11 DEF Terminate, TypeOK
  <2> QED
    BY <1>11, <2>1, <2>2, <2>3, SameSideTyped DEF Terminate, Holding, TypeOK
<1>12. CASE CreateLogEvent(p)
  <2>1. \E to \in {"write_path", "terminate"} : MovesTo(p, "log_event", to)
    BY <1>12, GoesMoves DEF CreateLogEvent, Step, Locations, Holding
  <2>2. logEvent' \in [Processes -> BOOLEAN]
    BY <1>12 DEF CreateLogEvent, TypeOK
  <2> QED
    BY <1>12, <2>1, <2>2, SameSideTyped DEF CreateLogEvent, gameVars, Holding, TypeOK
<1>13. CASE WritePath(p)
  <2>1. \E to \in {"start_loader", "terminate"} : MovesTo(p, "write_path", to)
    BY <1>13, GoesMoves DEF WritePath, Step, Locations, Holding
  <2>2. remote' \in [Processes -> Remotes]
    <3> DEFINE path == IF pc'[p] = "start_loader" THEN "written" ELSE "none"
               r == [remote[p] EXCEPT !.path = path]
    <3>1. remote[p] \in Remotes /\ path \in {"none", "written"}
      BY DEF TypeOK
    <3>2. r \in Remotes
      BY <3>1, RemoteWith
    <3>3. SetRemote(p, r)
      BY <1>13 DEF WritePath
    <3> HIDE DEF r
    <3> QED
      BY <3>2, <3>3, SetRemoteTyped
  <2> QED
    BY <1>13, <2>1, <2>2, SameSideTyped DEF WritePath, Holding, TypeOK
<1>14. CASE StartLoader(p)
  <2>1. \E to \in {"wait_loader", "terminate"} : MovesTo(p, "start_loader", to)
    BY <1>14, GoesMoves DEF StartLoader, Step, Locations, Holding
  <2>2. remote' \in [Processes -> Remotes]
    BY <1>14 DEF StartLoader, SetRemote, TypeOK, Remotes
  <2> QED
    BY <1>14, <2>1, <2>2, SameSideTyped DEF StartLoader, Holding, TypeOK
<1>15. CASE WaitLoader(p)
  <2>1. \E to \in {"verify", "terminate"} : MovesTo(p, "wait_loader", to)
    BY <1>15, GoesMoves DEF WaitLoader, Locations, Holding
  <2>2. remote' \in [Processes -> Remotes]
    BY <1>15 DEF WaitLoader, SetRemote, TypeOK, Remotes
  <2> QED
    BY <1>15, <2>1, <2>2, SameSideTyped DEF WaitLoader, Holding, TypeOK
<1>16. CASE WaitStarted(p)
  <2>1. \E to \in {"release", "terminate"} : MovesTo(p, "wait_started", to)
    BY <1>16, GoesMoves DEF WaitStarted, Locations, Holding
  <2>2. game' \in [Processes -> Games]
    <3>1. game[p] \in Games
      BY DEF TypeOK
    <3>2. [game[p] EXCEPT !.complete = TRUE] \in Games
      BY <3>1, GameWith
    <3>3. SetGame(p, [game[p] EXCEPT !.complete = TRUE]) \/ UNCHANGED game
      BY <1>16 DEF WaitStarted
    <3> QED
      BY <3>2, <3>3, SetGameTyped DEF TypeOK
  <2> QED
    BY <1>16, <2>1, <2>2, SameSideTyped DEF WaitStarted, Holding, TypeOK
<1>17. CASE Create(p)
  <2>1. \E to \in {"release", "wait_assembly", "setup", "unlock_failed"} : MovesTo(p, "create", to)
    BY <1>17, GoesMoves, KindsAssumption
    DEF Create, MobilePatch, Locations, Holding, TypeOK
  <2>2. game' \in [Processes -> Games]
    <3> DEFINE state == IF MobilePatch THEN "suspended" ELSE "running"
               g == [game[p] EXCEPT !.state = state, !.complete = (kind = "WW")]
    <3>1. game[p] \in Games /\ state \in Alive /\ (kind = "WW") \in BOOLEAN
      BY DEF TypeOK, Alive
    <3>2. g \in Games
      BY <3>1, NewGame
    <3>3. SetGame(p, g) \/ UNCHANGED game
      BY <1>17 DEF Create
    <3> HIDE DEF g
    <3> QED
      BY <3>2, <3>3, SetGameTyped DEF TypeOK
  <2> QED
    BY <1>17, <2>1, <2>2, SameSideTyped DEF Create, Holding, TypeOK
<1>18. CASE Ask(p)
  <2>1. ChildOf(p) \in Processes /\ pc[p] = "ask"
    BY <1>18, ChildIsProcess DEF Ask, Exits
  <2>2. pc' \in [Processes -> Locations] /\ exit' \in [Processes -> Codes]
    BY <1>18, <2>1 DEF Ask, Exits, TypeOK, Locations, Before, Codes
  <2>3. admin' \in [Processes -> BOOLEAN]
    BY <1>18, <2>1 DEF Ask, TypeOK
  <2>4. \A q \in Processes \ {p, ChildOf(p)} : pc'[q] = pc[q]
    BY <1>18, <2>1 DEF Ask, Exits, TypeOK
  <2>5. pc'[p] \notin Holding /\ pc[p] \notin Holding
    BY <1>18, <2>1 DEF Ask, Exits, TypeOK, Holding
  <2> QED
    <3>1. UNCHANGED <<config, mutex, gameVars, logEvent, manual>>
      BY <1>18 DEF Ask
    <3>2. pc'[ChildOf(p)] \in Holding => pc[ChildOf(p)] \in Holding
      <4>1. CASE pc'[ChildOf(p)] = "check"
        BY <4>1 DEF Holding
      <4>2. CASE UNCHANGED pc \/ \E to \in {"wait_child", "done"} : pc' = [pc EXCEPT ![p] = to]
        BY <4>2, <2>1 DEF TypeOK, Holding
      <4> QED
        BY <1>18, <2>1, <4>1, <4>2 DEF Ask, Exits, TypeOK
    <3>3. pc[ChildOf(p)] \notin Holding
      BY <2>1 DEF ChildrenWait, Holding
    <3> QED
      BY <2>1, <2>2, <2>3, <2>4, <2>5, <3>1, <3>2, <3>3 DEF TypeOK, config, gameVars
<1>19. CASE Lock(p)
  <2>1. CASE /\ mutex = Nobody /\ mutex' = p
             /\ Goes(p, "lock", "recheck")
    <3>1. MovesTo(p, "lock", "recheck")
      BY <2>1, GoesMoves DEF Locations, Holding
    <3> QED
      BY <1>19, <2>1, <3>1, NobodyAssumption DEF Lock, MovesTo, TypeOK, Holding, config, gameVars
  <2>2. CASE Exits(p, "lock", "failed") /\ UNCHANGED mutex
    <3>1. MovesTo(p, "lock", "done")
      BY <2>2, ExitsMoves DEF Codes
    <3> QED
      BY <1>19, <2>2, <3>1, SameSideTyped DEF Lock, TypeOK, Holding, gameVars
  <2> QED
    BY <1>19, <2>1, <2>2 DEF Lock
<1>20. CASE Unlock(p)
  <2>1. \E from \in {"unlock_ok", "unlock_failed"} : MovesTo(p, from, "done")
    BY <1>20, ExitsMoves DEF Unlock, Codes
  <2>2. mutex = p
    BY <2>1 DEF MovesTo, TypeOK, Holding
  <2>3. logEvent' \in [Processes -> BOOLEAN]
    BY <1>20 DEF Unlock, TypeOK
  <2> QED
    BY <1>20, <2>1, <2>2, <2>3, NobodyAssumption
    DEF Unlock, MovesTo, TypeOK, Holding, config, gameVars
<1> QED
  BY <1>1, <1>2, <1>3, <1>4, <1>5, <1>6, <1>7, <1>8, <1>9, <1>10, <1>11, <1>12,
     <1>13, <1>14, <1>15, <1>16, <1>17, <1>18, <1>19, <1>20 DEF LauncherStep

\* What every step of a launcher but Ask keeps to.
Orderly(p) ==
  /\ \E to \in Locations : MovesTo(p, pc[p], to)
  /\ pc[p] \notin {"absent", "ask"}
  /\ pc'[p] \notin {"absent", "check"}
  /\ pc'[p] = "elevate" => pc[p] = "check"
  /\ pc'[p] = "ask" => pc[p] = "elevate" /\ p[2] = "original"
  /\ pc'[p] \in Before \cup {"recheck"} => pc[p] \in Before
  /\ pc'[p] = "create" => pc[p] = "recheck" /\ ~Running
  /\ pc[p] \in Before \cup {"recheck"} => UNCHANGED game
  /\ \A q \in Processes \ {p} : game'[q] = game[q]
  /\ pc[p] # "create" /\ game'[p].state \in Alive => game[p].state \in Alive

\* What a step does to the games: it may revive none.
Tame(p) ==
  /\ \A q \in Processes \ {p} : game'[q] = game[q]
  /\ game'[p].state \in Alive => game[p].state \in Alive

\* A game given a state no more alive than before stays tame.
LEMMA SettingTame ==
  ASSUME TypeOK, NEW p \in Processes, NEW g, SetGame(p, g),
         g.state \in Alive => game[p].state \in Alive
  PROVE  Tame(p)
BY DEF TypeOK, SetGame, Tame

\* A step made with the mutex, other than the check under it and Create.
LEMMA HoldingOrderly ==
  ASSUME TypeOK, NEW p \in Processes, NEW from \in Holding \ {"recheck", "create"},
         NEW to \in (Holding \ {"recheck", "create"}) \cup {"done"},
         MovesTo(p, from, to), Tame(p)
  PROVE  Orderly(p)
BY DEF TypeOK, MovesTo, Tame, Orderly, Locations, Before, Holding

\* Every step of a launcher but Ask is orderly.
LEMMA LauncherOrderly ==
  ASSUME TypeOK, NEW p \in Processes, LauncherStep(p), ~Ask(p)
  PROVE  Orderly(p)
<1>1. CASE Check(p)
  <2>1. \E to \in {"elevate", "done"} : MovesTo(p, "check", to)
    BY <1>1, GoesMoves, ExitsMoves DEF Check, Locations, Before, Holding, Codes
  <2>2. UNCHANGED game
    BY <1>1 DEF Check, gameVars
  <2> QED
    BY <2>1, <2>2 DEF Orderly, MovesTo, Locations, Before, Holding, TypeOK
<1>2. CASE Elevate(p)
  <2>1. \E to \in {"lock", "ask", "done"} : MovesTo(p, "elevate", to)
    BY <1>2, GoesMoves, ExitsMoves DEF Elevate, Locations, Before, Holding, Codes
  <2>2. UNCHANGED game
    BY <1>2 DEF Elevate, gameVars
  <2>3. pc'[p] = "ask" => p[2] = "original"
    <3>1. pc'[p] = "ask" => Goes(p, "elevate", "ask") /\ p[2] = "original"
      BY <1>2 DEF Elevate, Goes, Exits, TypeOK
    <3> QED
      BY <3>1
  <2> QED
    BY <2>1, <2>2, <2>3 DEF Orderly, MovesTo, Locations, Before, Holding, TypeOK
<1>3. CASE WaitChild(p)
  <2>0. exit[ChildOf(p)] \in Codes /\ "failed" \in Codes
    BY ChildIsProcess DEF TypeOK, Codes
  <2>1. \E to \in {"done"} : MovesTo(p, "wait_child", to)
    BY <1>3, <2>0, ExitsMoves DEF WaitChild
  <2>2. UNCHANGED game
    BY <1>3 DEF WaitChild, gameVars
  <2> QED
    BY <2>1, <2>2 DEF Orderly, MovesTo, Locations, Before, Holding, TypeOK
<1>4. CASE Lock(p)
  <2>1. \E to \in {"recheck", "done"} : MovesTo(p, "lock", to)
    BY <1>4, GoesMoves, ExitsMoves DEF Lock, Locations, Before, Holding, Codes
  <2>2. UNCHANGED game
    BY <1>4 DEF Lock, gameVars
  <2> QED
    BY <2>1, <2>2 DEF Orderly, MovesTo, Locations, Before, Holding, TypeOK
<1>5. CASE Recheck(p)
  <2>1. \E to \in {"create", "unlock_failed"} : MovesTo(p, "recheck", to)
    BY <1>5, GoesMoves, ExitsMoves DEF Recheck, Locations, Before, Holding, Codes
  <2>2. UNCHANGED game
    BY <1>5 DEF Recheck, gameVars
  <2>3. pc'[p] = "create" => ~Running
    BY <1>5 DEF Recheck, Goes, TypeOK
  <2> QED
    BY <2>1, <2>2, <2>3 DEF Orderly, MovesTo, Locations, Before, Holding, TypeOK
<1>6. CASE Create(p)
  <2>1. \E to \in {"release", "wait_assembly", "setup", "unlock_failed"} : MovesTo(p, "create", to)
    BY <1>6, GoesMoves, KindsAssumption
    DEF Create, MobilePatch, Locations, Holding, TypeOK
  <2>2. \A q \in Processes \ {p} : game'[q] = game[q]
    BY <1>6 DEF Create, SetGame, TypeOK
  <2> QED
    BY <2>1, <2>2 DEF Orderly, MovesTo, Locations, Before, Holding, TypeOK
<1>7. CASE Setup(p)
  <2>1. \E to \in {"resume", "terminate"} : MovesTo(p, "setup", to)
    BY <1>7, GoesMoves DEF Setup, Locations, Holding
  <2>2. Tame(p)
    BY <1>7 DEF Setup, SetGame, Tame, TypeOK, Games
  <2> QED
    BY <2>1, <2>2, HoldingOrderly DEF Holding
<1>8. CASE Resume(p)
  <2>1. \E to \in {"release", "terminate"} : MovesTo(p, "resume", to)
    BY <1>8, GoesMoves DEF Resume, Locations, Holding
  <2>2. Tame(p)
    BY <1>8 DEF Resume, SetGame, Tame, TypeOK, Games, Alive
  <2> QED
    BY <2>1, <2>2, HoldingOrderly DEF Holding
<1>9. CASE Release(p)
  <2>1. \E to \in {"unlock_ok"} : MovesTo(p, "release", to)
    BY <1>9, GoesMoves DEF Release, Locations, Holding
  <2>2. Tame(p)
    BY <1>9 DEF Release, SetGame, Tame, TypeOK, Games
  <2> QED
    BY <2>1, <2>2, HoldingOrderly DEF Holding
<1>10. CASE Terminate(p)
  <2>1. \E to \in {"wait_exit"} : MovesTo(p, "terminate", to)
    BY <1>10, GoesMoves DEF Terminate, Locations, Holding
  <2>2. Tame(p)
    BY <1>10 DEF Terminate, SetGame, Tame, TypeOK, Games, Alive
  <2> QED
    BY <2>1, <2>2, HoldingOrderly DEF Holding
<1>11. CASE WaitExit(p)
  <2>1. \E to \in {"unlock_failed"} : MovesTo(p, "wait_exit", to)
    BY <1>11, GoesMoves DEF WaitExit, Locations, Holding
  <2>2. Tame(p)
    BY <1>11 DEF WaitExit, gameVars, Tame
  <2> QED
    BY <2>1, <2>2, HoldingOrderly DEF Holding
<1>12. CASE Unlock(p)
  <2>1. \E from \in {"unlock_ok", "unlock_failed"} : MovesTo(p, from, "done")
    BY <1>12, ExitsMoves DEF Unlock, Codes
  <2>2. Tame(p)
    BY <1>12 DEF Unlock, gameVars, Tame
  <2> QED
    BY <2>1, <2>2, HoldingOrderly DEF Holding
<1>13. CASE WaitAssembly(p)
  <2>1. \E to \in {"log_event", "terminate"} : MovesTo(p, "wait_assembly", to)
    BY <1>13, GoesMoves DEF WaitAssembly, Step, Locations, Holding
  <2>2. Tame(p)
    BY <1>13 DEF WaitAssembly, gameVars, Tame
  <2> QED
    BY <2>1, <2>2, HoldingOrderly DEF Holding
<1>14. CASE CreateLogEvent(p)
  <2>1. \E to \in {"write_path", "terminate"} : MovesTo(p, "log_event", to)
    BY <1>14, GoesMoves DEF CreateLogEvent, Step, Locations, Holding
  <2>2. Tame(p)
    BY <1>14 DEF CreateLogEvent, gameVars, Tame
  <2> QED
    BY <2>1, <2>2, HoldingOrderly DEF Holding
<1>15. CASE WritePath(p)
  <2>1. \E to \in {"start_loader", "terminate"} : MovesTo(p, "write_path", to)
    BY <1>15, GoesMoves DEF WritePath, Step, Locations, Holding
  <2>2. Tame(p)
    BY <1>15 DEF WritePath, gameVars, Tame
  <2> QED
    BY <2>1, <2>2, HoldingOrderly DEF Holding
<1>16. CASE StartLoader(p)
  <2>1. \E to \in {"wait_loader", "terminate"} : MovesTo(p, "start_loader", to)
    BY <1>16, GoesMoves DEF StartLoader, Step, Locations, Holding
  <2>2. Tame(p)
    BY <1>16 DEF StartLoader, gameVars, Tame
  <2> QED
    BY <2>1, <2>2, HoldingOrderly DEF Holding
<1>17. CASE WaitLoader(p)
  <2>1. \E to \in {"verify", "terminate"} : MovesTo(p, "wait_loader", to)
    BY <1>17, GoesMoves DEF WaitLoader, Locations, Holding
  <2>2. Tame(p)
    BY <1>17 DEF WaitLoader, gameVars, Tame
  <2> QED
    BY <2>1, <2>2, HoldingOrderly DEF Holding
<1>18. CASE Verify(p)
  <2>1. \E to \in {"wait_started", "terminate"} : MovesTo(p, "verify", to)
    BY <1>18, GoesMoves DEF Verify, Step, Locations, Holding
  <2>2. Tame(p)
    BY <1>18 DEF Verify, gameVars, Tame
  <2> QED
    BY <2>1, <2>2, HoldingOrderly DEF Holding
<1>19. CASE WaitStarted(p)
  <2>1. \E to \in {"release", "terminate"} : MovesTo(p, "wait_started", to)
    BY <1>19, GoesMoves DEF WaitStarted, Locations, Holding
  <2>2. Tame(p)
    BY <1>19 DEF WaitStarted, SetGame, Tame, TypeOK, Games
  <2> QED
    BY <2>1, <2>2, HoldingOrderly DEF Holding
<1> QED
  BY <1>1, <1>2, <1>3, <1>4, <1>5, <1>6, <1>7, <1>8, <1>9, <1>10, <1>11, <1>12, <1>13, <1>14, <1>15, <1>16, <1>17, <1>18, <1>19
  DEF LauncherStep

\* Asking for an elevated process starts a child that was not there.
LEMMA AskKeeps ==
  ASSUME TypeOK, ChildrenWait, NoGameYet, OneLaunchedGame,
         NEW p \in Processes, Ask(p)
  PROVE  ChildrenWait' /\ NoGameYet' /\ OneLaunchedGame'
<1>1. /\ ChildOf(p) \in Processes
      /\ ChildOf(p)[2] = "elevated"
      /\ pc[p] = "ask"
  BY ChildIsProcess DEF Ask, Exits
<1>2. UNCHANGED game
  BY DEF Ask, gameVars
<1>3. \A q \in Processes : pc'[q] = pc[q] \/ (q = p /\ pc'[q] \in {"wait_child", "done"})
                          \/ (q = ChildOf(p) /\ pc'[q] = "check")
  BY <1>1 DEF Ask, Exits, TypeOK
<1>4. p[2] = "original" /\ pc[ChildOf(p)] = "absent"
  BY <1>1 DEF ChildrenWait
<1>5. ChildrenWait'
  <2> SUFFICES ASSUME NEW q \in Processes
               PROVE  /\ pc'[q] \in {"absent", "ask"} =>
                           q[2] = (IF pc'[q] = "ask" THEN "original" ELSE "elevated")
                      /\ q[2] = "original" /\ pc'[q] \in {"check", "elevate", "ask"} =>
                           pc'[ChildOf(q)] = "absent"
    BY DEF ChildrenWait
  <2>1. pc'[q] \in {"absent", "ask"} => pc'[q] = pc[q]
    BY <1>3
  <2>2. ASSUME q[2] = "original", pc'[q] \in {"check", "elevate", "ask"}
        PROVE  pc'[ChildOf(q)] = "absent"
    <3>1. pc'[q] = pc[q] /\ q # p
      <4>1. p # ChildOf(p) /\ q # ChildOf(p)
        BY <1>1, <1>4, <2>2
      <4>2. pc'[p] \in {"wait_child", "done"}
        BY <1>1, <4>1 DEF Ask, Exits, TypeOK
      <4> QED
        BY <1>3, <2>2, <4>1, <4>2
    <3>2. ChildOf(q) # ChildOf(p) /\ ChildOf(q) # p
      BY <1>4, <2>2, <3>1 DEF ChildOf, Processes
    <3>3. ChildOf(q) \in Processes /\ pc[ChildOf(q)] = "absent"
      BY <2>2, <3>1, ChildIsProcess DEF ChildrenWait
    <3> QED
      BY <1>3, <3>2, <3>3
  <2> QED
    BY <2>1, <2>2 DEF ChildrenWait
<1>6. NoGameYet'
  BY <1>1, <1>2, <1>3, <1>4 DEF NoGameYet, Before
<1> QED
  BY <1>2, <1>5, <1>6 DEF OneLaunchedGame

\* An orderly step keeps the bookkeeping and the single launched game.
LEMMA OrderlyKeeps ==
  ASSUME TypeOK, ChildrenWait, NoGameYet, OneLaunchedGame,
         NEW p \in Processes, Orderly(p)
  PROVE  ChildrenWait' /\ NoGameYet' /\ OneLaunchedGame'
<1>1. \A q \in Processes \ {p} : pc'[q] = pc[q] /\ game'[q] = game[q]
  BY DEF Orderly, MovesTo
<1>2. ChildrenWait'
  <2> SUFFICES ASSUME NEW q \in Processes
               PROVE  /\ pc'[q] \in {"absent", "ask"} =>
                           q[2] = (IF pc'[q] = "ask" THEN "original" ELSE "elevated")
                      /\ q[2] = "original" /\ pc'[q] \in {"check", "elevate", "ask"} =>
                           pc'[ChildOf(q)] = "absent"
    BY DEF ChildrenWait
  <2>1. pc'[q] \in {"absent", "ask"} =>
          q[2] = (IF pc'[q] = "ask" THEN "original" ELSE "elevated")
    BY <1>1 DEF ChildrenWait, Orderly
  <2>2. ASSUME q[2] = "original", pc'[q] \in {"check", "elevate", "ask"}
        PROVE  pc'[ChildOf(q)] = "absent"
    <3>1. pc[q] \in {"check", "elevate", "ask"}
      BY <1>1, <2>2 DEF Orderly
    <3>2. ChildOf(q) \in Processes /\ pc[ChildOf(q)] = "absent"
      BY <2>2, <3>1, ChildIsProcess DEF ChildrenWait
    <3> QED
      BY <1>1, <3>2 DEF Orderly
  <2> QED
    BY <2>1, <2>2
<1>3. ASSUME pc[p] # "create"
      PROVE  NoGameYet' /\ OneLaunchedGame'
  <2>1. \A q \in Processes : game'[q].state \in Alive => game[q].state \in Alive
    BY <1>1, <1>3 DEF Orderly
  <2>2. OneLaunchedGame'
    BY <2>1 DEF OneLaunchedGame
  <2>3. \A q \in Processes : pc'[q] \in Before \cup {"recheck", "create"} =>
          game'[q].state = "none"
    BY <1>1 DEF NoGameYet, Orderly
  <2>4. ASSUME NEW q \in Processes, pc'[q] = "create", NEW r \in Processes
        PROVE  game'[r].state \notin Alive
    BY <1>1, <2>1, <2>4 DEF NoGameYet, Orderly, Running
  <2> QED
    BY <2>2, <2>3, <2>4 DEF NoGameYet
<1>4. ASSUME pc[p] = "create"
      PROVE  NoGameYet' /\ OneLaunchedGame'
  <2>1. \A q \in Processes \ {p} : game'[q].state \notin Alive
    BY <1>1, <1>4 DEF NoGameYet
  <2>2. pc'[p] \notin Before \cup {"recheck", "create"}
    BY <1>4 DEF Orderly, Before
  <2>3. \A q \in Processes : pc'[q] # "create"
    BY <1>1, <1>4, <2>2 DEF TypeOK, Holding
  <2> QED
    BY <1>1, <2>1, <2>2, <2>3 DEF NoGameYet, OneLaunchedGame
<1> QED
  BY <1>2, <1>3, <1>4

\* Games and their payloads go on by themselves, but never come back.
LEMMA GameStepKeeps ==
  ASSUME Guarded, NEW p \in Processes, GameStep(p)
  PROVE  Guarded'
<1> USE DEF Guarded
<1>1. UNCHANGED <<config, admin, procVars, mutex, logEvent, manual>>
  BY DEF GameStep, LoaderEnds, PayloadOpensLog, PayloadPublishes, GameEnds
<1>2. remote[p] \in Remotes /\ game[p] \in Games
  BY DEF TypeOK
<1>3. CASE LoaderEnds(p)
  <2>1. PICK result \in {"absent", "loaded"} :
          SetRemote(p, [remote[p] EXCEPT !.loader = "done", !.payload = result])
    BY <1>3 DEF LoaderEnds
  <2>2. [remote[p] EXCEPT !.loader = "done", !.payload = result] \in Remotes
    BY <1>2 DEF Remotes
  <2>3. remote' \in [Processes -> Remotes] /\ UNCHANGED game
    BY <1>3, <2>1, <2>2, SetRemoteTyped DEF LoaderEnds
  <2> QED
    BY <1>1, <2>3 DEF TypeOK, ChildrenWait, NoGameYet, OneLaunchedGame, config, procVars
<1>4. CASE PayloadOpensLog(p)
  <2> DEFINE logs == logEvent[p] /\ log
             r == [remote[p] EXCEPT !.payload = "opened", !.logs = logs]
  <2>1. logs \in BOOLEAN
    BY DEF TypeOK
  <2>2. SetRemote(p, r)
    BY <1>4 DEF PayloadOpensLog
  <2> HIDE DEF logs
  <2>3. r \in Remotes
    BY <1>2, <2>1 DEF Remotes
  <2> HIDE DEF r
  <2>4. remote' \in [Processes -> Remotes] /\ UNCHANGED game
    BY <1>4, <2>2, <2>3, SetRemoteTyped DEF PayloadOpensLog
  <2> QED
    BY <1>1, <2>4 DEF TypeOK, ChildrenWait, NoGameYet, OneLaunchedGame, config, procVars
<1>5. CASE PayloadPublishes(p)
  <2>1. PICK result \in {"started", "failed"} :
          SetRemote(p, [remote[p] EXCEPT !.payload = result])
    BY <1>5 DEF PayloadPublishes
  <2>2. [remote[p] EXCEPT !.payload = result] \in Remotes
    BY <1>2 DEF Remotes
  <2>3. remote' \in [Processes -> Remotes] /\ UNCHANGED game
    BY <1>5, <2>1, <2>2, SetRemoteTyped DEF PayloadPublishes
  <2> QED
    BY <1>1, <2>3 DEF TypeOK, ChildrenWait, NoGameYet, OneLaunchedGame, config, procVars
<1>6. CASE GameEnds(p)
  <2>1. [game[p] EXCEPT !.state = "gone"] \in Games
    BY <1>2 DEF Games
  <2>2. SetGame(p, [game[p] EXCEPT !.state = "gone"]) /\ game[p].state \in Alive
    BY <1>6 DEF GameEnds
  <2>3. game' \in [Processes -> Games]
    BY <2>1, <2>2, SetGameTyped
  <2>4. remote' \in [Processes -> Remotes]
    BY <1>2, <1>6 DEF GameEnds, SetRemote, TypeOK, Remotes
  <2>5. /\ \A q \in Processes \ {p} : game'[q] = game[q]
        /\ game'[p].state = "gone"
    BY <1>2, <2>2 DEF SetGame, TypeOK, Games
  <2>6. TypeOK' /\ ChildrenWait'
    BY <1>1, <2>3, <2>4 DEF TypeOK, ChildrenWait, config, procVars
  <2>7. NoGameYet'
    BY <1>1, <2>2, <2>5 DEF NoGameYet, procVars, Alive
  <2>8. OneLaunchedGame'
    BY <2>5 DEF OneLaunchedGame, Alive
  <2> QED
    BY <2>6, <2>7, <2>8
<1> QED
  BY <1>3, <1>4, <1>5, <1>6 DEF GameStep

\* A killed launcher leaves its game, but not its mutex.
LEMMA KillKeeps ==
  ASSUME Guarded, NEW p \in Processes, Kill(p)
  PROVE  Guarded'
<1> USE DEF Guarded
<1>1. /\ pc[p] \notin {"absent", "done"}
      /\ MovesTo(p, pc[p], "done")
  BY ExitsMoves DEF Kill, Codes
<1>2. /\ UNCHANGED <<config, admin, gameVars, manual>>
      /\ mutex' = IF mutex = p THEN Nobody ELSE mutex
      /\ logEvent' = [logEvent EXCEPT ![p] = FALSE]
  BY DEF Kill
<1>3. \A q \in Processes : pc'[q] \in Holding <=> mutex' = q
  BY <1>1, <1>2, NobodyAssumption DEF MovesTo, TypeOK, Holding
<1>4. TypeOK'
  BY <1>1, <1>2, <1>3 DEF MovesTo, TypeOK, config, gameVars
<1>5. ChildrenWait'
  BY <1>1, ChildIsProcess DEF MovesTo, ChildrenWait
<1>6. NoGameYet' /\ OneLaunchedGame'
  BY <1>1, <1>2 DEF MovesTo, NoGameYet, OneLaunchedGame, gameVars, Before
<1> QED
  BY <1>4, <1>5, <1>6

-----------------------------------------------------------------------------
\* The mutex is owned by the one process between taking it and unwinding, and
\* a game is created only when, under it, no launched game was listed.
THEOREM LauncherInvariance == Spec => []Guarded
<1>1. Guarded /\ [Next]_vars => Guarded'
  <2> SUFFICES ASSUME Guarded, [Next]_vars PROVE Guarded'
    OBVIOUS
  <2>1. ASSUME NEW p \in Processes, LauncherStep(p) PROVE Guarded'
    <3>1. TypeOK'
      BY <2>1, LauncherTyped DEF Guarded
    <3>2. ChildrenWait' /\ NoGameYet' /\ OneLaunchedGame'
      BY <2>1, AskKeeps, LauncherOrderly, OrderlyKeeps DEF Guarded
    <3> QED
      BY <3>1, <3>2 DEF Guarded
  <2>2. CASE ByHand
    BY <2>2 DEF ByHand, Guarded, TypeOK, ChildrenWait, NoGameYet, OneLaunchedGame,
       config, procVars, gameVars
  <2>3. CASE UNCHANGED vars
    BY <2>3 DEF vars, Guarded, TypeOK, ChildrenWait, NoGameYet, OneLaunchedGame,
       config, procVars, gameVars
  <2> QED
    BY <2>1, <2>2, <2>3, GameStepKeeps, KillKeeps DEF Next
<1> QED
  BY <1>1, InitGuarded, PTL DEF Spec

\* Every variable has its type and the mutex its owner (Mutex in elevation.hpp).
THEOREM LauncherTypes == Spec => []TypeOK
<1>1. Guarded => TypeOK
  BY DEF Guarded
<1> QED
  BY <1>1, LauncherInvariance, PTL

\* However many commands are given, relaunched with rights, killed or timed
\* out, there are never two live games created by launchers (run()).
THEOREM NeverTwoGames == Spec => []OneLaunchedGame
<1>1. Guarded => OneLaunchedGame
  BY DEF Guarded
<1> QED
  BY <1>1, LauncherInvariance, PTL

-----------------------------------------------------------------------------
(* What each place of a launcher knows of its game                         *)

\* Before the loading thread is started.
Unloaded == Before \cup {"recheck", "create", "setup", "resume", "wait_assembly",
                         "log_event", "write_path", "start_loader"}

\* The launcher holds the logging event of its game.
Logging == {"write_path", "start_loader", "wait_loader", "verify", "wait_started"}

\* The game has been created with its main thread running.
Injecting == Logging \cup {"wait_assembly", "log_event"}

\* The path is freed only when no loading thread can read it.
LoaderBook(p) ==
  /\ pc[p] \in Unloaded => remote[p].loader = "none"
  /\ pc[p] = "start_loader" => remote[p].path = "written"
  /\ remote[p].loader = "running" => remote[p].path = "written"
  /\ remote[p].payload # "absent" => remote[p].loader = "done"

\* A payload that has opened its log while the launcher waited found the event.
LogBook(p) ==
  kind = "ZZZ" =>
    /\ pc[p] \in Logging => logEvent[p]
    /\ pc[p] \in Logging /\ remote[p].payload \in {"opened", "started", "failed"} =>
         remote[p].logs = log
    /\ pc[p] \in {"release", "unlock_ok"} =>
         remote[p].payload = "started" /\ remote[p].logs = log

\* How far the game is, by the place of its launcher.
GameBook(p) ==
  /\ pc[p] \in {"setup", "resume"} => MobilePatch
  /\ pc[p] = "setup" => game[p].state \in {"suspended", "gone"}
  /\ pc[p] = "resume" => game[p].state \in {"suspended", "gone"} /\ game[p].complete
  /\ pc[p] \in Injecting => game[p].state \in {"running", "gone"}
  /\ pc[p] \in {"release", "unlock_ok"} =>
       game[p].state \in {"running", "gone"} /\ game[p].complete
  /\ pc[p] \in {"wait_exit", "unlock_failed"} => ~LeftBehind(game[p])
  /\ pc[p] = "unlock_ok" => game[p].released
  /\ game[p].released =>
       /\ pc[p] \in {"unlock_ok", "done"}
       /\ kind = "ZZZ" => remote[p].payload = "started" /\ remote[p].logs = log

\* What a code that names no failure says of the game its process created.
OwnFate(p, code) ==
  /\ code = "ok" => /\ game[p].complete /\ game[p].released
                    /\ game[p].state \in {"running", "gone"}
  /\ code = "canceled" => game[p].state = "none"

\* A failure is about the process's own game; any other code as well, or it is that
\* of the child.  A process that was never asked to wait for a child has none, except
\* a failed one.
FateBook(p) ==
  /\ exit[p] = "none" <=> pc[p] # "done"
  /\ exit[p] = "failed" => ~LeftBehind(game[p])
  /\ p[2] = "elevated" =>
       /\ pc[p] \notin {"ask", "wait_child"}
       /\ exit[p] # "canceled"
       /\ OwnFate(p, exit[p])
  /\ p[2] = "original" =>
       /\ pc[p] \notin {"wait_child", "done"} => pc[ChildOf(p)] = "absent"
       /\ exit[p] \in {"ok", "canceled"} =>
            \/ pc[ChildOf(p)] = "absent" /\ OwnFate(p, exit[p])
            \/ exit[p] = "ok" /\ exit[ChildOf(p)] = "ok"

Books == \A p \in Processes : LoaderBook(p) /\ LogBook(p) /\ GameBook(p) /\ FateBook(p)

-----------------------------------------------------------------------------
\* A step of one process leaves what the others have alone.
OthersAlone(p) ==
  \A q \in Processes \ {p} :
    /\ pc'[q] = pc[q] /\ exit'[q] = exit[q]
    /\ game'[q] = game[q] /\ remote'[q] = remote[q]
    /\ logEvent'[q] = logEvent[q]

\* Only Ask, which starts a child, reaches beyond its own process.
LEMMA OneActs ==
  ASSUME TypeOK, NEW p \in Processes,
         \/ LauncherStep(p) /\ ~Ask(p)
         \/ GameStep(p)
         \/ Kill(p)
  PROVE  OthersAlone(p) /\ UNCHANGED config
<1> USE DEF TypeOK, OthersAlone, gameVars, procVars, config, SetGame, SetRemote, Goes,
            Exits, Step
<1>1. CASE Check(p) \/ Elevate(p) \/ WaitChild(p) \/ Lock(p) \/ Recheck(p)
  BY <1>1 DEF Check, Elevate, WaitChild, Lock, Recheck
<1>2. CASE Create(p) \/ Setup(p) \/ Resume(p) \/ Release(p)
  BY <1>2 DEF Create, Setup, Resume, Release
<1>3. CASE Terminate(p) \/ WaitExit(p) \/ Unlock(p)
  BY <1>3 DEF Terminate, WaitExit, Unlock
<1>4. CASE WaitAssembly(p) \/ CreateLogEvent(p) \/ WritePath(p) \/ StartLoader(p)
  BY <1>4 DEF WaitAssembly, CreateLogEvent, WritePath, StartLoader
<1>5. CASE WaitLoader(p) \/ Verify(p) \/ WaitStarted(p)
  BY <1>5 DEF WaitLoader, Verify, WaitStarted
<1>6. CASE GameStep(p)
  BY <1>6 DEF GameStep, LoaderEnds, PayloadOpensLog, PayloadPublishes, GameEnds
<1>7. CASE Kill(p)
  BY <1>7 DEF Kill
<1> QED
  BY <1>1, <1>2, <1>3, <1>4, <1>5, <1>6, <1>7 DEF LauncherStep

\* The path is not freed while the loading thread may read it.
LEMMA LoaderBookKept ==
  ASSUME TypeOK, NEW p \in Processes, LoaderBook(p),
         (LauncherStep(p) /\ ~Ask(p)) \/ GameStep(p) \/ Kill(p)
  PROVE  LoaderBook(p)'
<1> USE DEF TypeOK, LoaderBook, gameVars, procVars, Goes, Exits, Step, Unloaded,
            Before, Remotes, SetRemote
<1>1. CASE Check(p) \/ Elevate(p) \/ WaitChild(p) \/ Lock(p) \/ Recheck(p)
  BY <1>1 DEF Check, Elevate, WaitChild, Lock, Recheck
<1>2. CASE Create(p) \/ Setup(p) \/ Resume(p) \/ Release(p)
  BY <1>2, KindsAssumption DEF Create, Setup, Resume, Release, MobilePatch
<1>3. CASE Terminate(p) \/ WaitExit(p) \/ Unlock(p)
  BY <1>3 DEF Terminate, WaitExit, Unlock
<1>4. CASE WaitAssembly(p) \/ CreateLogEvent(p)
  BY <1>4 DEF WaitAssembly, CreateLogEvent
<1>5. CASE WritePath(p)
  BY <1>5 DEF WritePath
<1>6. CASE StartLoader(p)
  BY <1>6 DEF StartLoader
<1>7. CASE WaitLoader(p) \/ Verify(p) \/ WaitStarted(p)
  BY <1>7 DEF WaitLoader, Verify, WaitStarted
<1>8. CASE GameStep(p)
  <2>1. CASE LoaderEnds(p)
    BY <2>1 DEF LoaderEnds
  <2>2. CASE PayloadOpensLog(p)
    BY <2>2 DEF PayloadOpensLog
  <2>3. CASE PayloadPublishes(p)
    BY <2>3 DEF PayloadPublishes
  <2>4. CASE GameEnds(p)
    BY <2>4 DEF GameEnds
  <2> QED BY <1>8, <2>1, <2>2, <2>3, <2>4 DEF GameStep
<1>9. CASE Kill(p)
  BY <1>9 DEF Kill
<1> QED
  BY <1>1, <1>2, <1>3, <1>4, <1>5, <1>6, <1>7, <1>8, <1>9 DEF LauncherStep

\* The event is held until the payload has opened it.
LEMMA LogBookKept ==
  ASSUME TypeOK, NEW p \in Processes, LoaderBook(p), LogBook(p), GameBook(p),
         (LauncherStep(p) /\ ~Ask(p)) \/ GameStep(p) \/ Kill(p)
  PROVE  LogBook(p)'
<1> USE DEF TypeOK, LoaderBook, LogBook, gameVars, procVars, config, Goes, Exits, Step,
            Unloaded, Logging, Remotes, SetRemote
<1>1. CASE Check(p) \/ Elevate(p) \/ WaitChild(p) \/ Lock(p) \/ Recheck(p)
  BY <1>1 DEF Check, Elevate, WaitChild, Lock, Recheck
<1>2. CASE Create(p) \/ Setup(p) \/ Resume(p) \/ Release(p)
  BY <1>2, KindsAssumption DEF Create, Setup, Resume, Release, MobilePatch, GameBook
<1>3. CASE Terminate(p) \/ WaitExit(p) \/ Unlock(p)
  BY <1>3 DEF Terminate, WaitExit, Unlock
<1>4. CASE WaitAssembly(p) \/ CreateLogEvent(p)
  BY <1>4 DEF WaitAssembly, CreateLogEvent
<1>5. CASE WritePath(p)
  BY <1>5 DEF WritePath
<1>6. CASE StartLoader(p)
  BY <1>6 DEF StartLoader
<1>7. CASE WaitLoader(p) \/ Verify(p) \/ WaitStarted(p)
  BY <1>7 DEF WaitLoader, Verify, WaitStarted, Started
<1>8. CASE GameStep(p)
  <2>1. CASE LoaderEnds(p)
    BY <2>1 DEF LoaderEnds
  <2>2. CASE PayloadOpensLog(p)
    BY <2>2 DEF PayloadOpensLog
  <2>3. CASE PayloadPublishes(p)
    BY <2>3 DEF PayloadPublishes
  <2>4. CASE GameEnds(p)
    BY <2>4 DEF GameEnds
  <2> QED BY <1>8, <2>1, <2>2, <2>3, <2>4 DEF GameStep
<1>9. CASE Kill(p)
  BY <1>9 DEF Kill
<1> QED
  BY <1>1, <1>2, <1>3, <1>4, <1>5, <1>6, <1>7, <1>8, <1>9 DEF LauncherStep

\* Every place knows how far its game is.
LEMMA GameBookKept ==
  ASSUME TypeOK, NoGameYet, NEW p \in Processes, LoaderBook(p), LogBook(p), GameBook(p),
         (LauncherStep(p) /\ ~Ask(p)) \/ GameStep(p) \/ Kill(p)
  PROVE  GameBook(p)'
<1> USE DEF TypeOK, GameBook, gameVars, procVars, config, Goes, Exits, Step,
            Injecting, Logging, Games, Alive, SetGame, MobilePatch, LeftBehind
<1>1. CASE Check(p) \/ Elevate(p) \/ WaitChild(p) \/ Lock(p) \/ Recheck(p)
  BY <1>1 DEF Check, Elevate, WaitChild, Lock, Recheck, NoGameYet
<1>2. CASE Create(p)
  <2>1. CASE Goes(p, "create", "unlock_failed") /\ UNCHANGED game
    BY <1>2, <2>1 DEF Create, NoGameYet
  <2>2. CASE ~(Goes(p, "create", "unlock_failed") /\ UNCHANGED game)
    <3> DEFINE state == IF MobilePatch THEN "suspended" ELSE "running"
               ready == (kind = "WW")
    <3>1. game' = [game EXCEPT ![p] = [game[p] EXCEPT !.state = state, !.complete = ready]]
      BY <1>2, <2>2 DEF Create
    <3>2. /\ pc'[p] = CASE kind = "WW" -> "release"
                         [] kind = "ZZZ" -> "wait_assembly"
                         [] MobilePatch -> "setup"
          /\ pc[p] = "create" /\ UNCHANGED <<config, remote>>
      BY <1>2, <2>2 DEF Create
    <3> HIDE DEF state, ready
    <3>3. /\ game'[p].state = state
          /\ game'[p].complete = ready
          /\ game'[p].released = game[p].released
      BY <3>1
    <3>4. CASE kind = "WW"
      BY <3>2, <3>3, <3>4 DEF state, ready
    <3>5. CASE kind = "ZZZ"
      BY <3>2, <3>3, <3>5 DEF state
    <3>6. CASE MobilePatch
      BY <3>2, <3>3, <3>6 DEF state
    <3> QED BY <3>4, <3>5, <3>6, KindsAssumption
  <2> QED BY <2>1, <2>2
<1>3. CASE Setup(p)
  BY <1>3 DEF Setup
<1>4. CASE Resume(p)
  BY <1>4 DEF Resume
<1>5. CASE Release(p)
  BY <1>5 DEF Release, LogBook
<1>6. CASE Terminate(p) \/ WaitExit(p) \/ Unlock(p)
  BY <1>6 DEF Terminate, WaitExit, Unlock
<1>7. CASE WaitAssembly(p) \/ CreateLogEvent(p) \/ WritePath(p) \/ StartLoader(p)
  BY <1>7 DEF WaitAssembly, CreateLogEvent, WritePath, StartLoader
<1>8. CASE WaitLoader(p) \/ Verify(p) \/ WaitStarted(p)
  BY <1>8 DEF WaitLoader, Verify, WaitStarted
<1>9. CASE GameStep(p)
  <2> USE DEF Remotes, SetRemote
  <2>1. CASE LoaderEnds(p)
    BY <2>1 DEF LoaderEnds, LoaderBook
  <2>2. CASE PayloadOpensLog(p)
    BY <2>2 DEF PayloadOpensLog
  <2>3. CASE PayloadPublishes(p)
    BY <2>3 DEF PayloadPublishes
  <2>4. CASE GameEnds(p)
    BY <2>4 DEF GameEnds
  <2> QED BY <1>9, <2>1, <2>2, <2>3, <2>4 DEF GameStep
<1>10. CASE Kill(p)
  BY <1>10 DEF Kill
<1> QED
  BY <1>1, <1>2, <1>3, <1>4, <1>5, <1>6, <1>7, <1>8, <1>9, <1>10 DEF LauncherStep

\* Exiting with a code, and not before, says what became of the game.
LEMMA FateBookKept ==
  ASSUME TypeOK, NoGameYet, NEW p \in Processes, GameBook(p),
         \A q \in Processes : FateBook(q),
         (LauncherStep(p) /\ ~Ask(p)) \/ GameStep(p) \/ Kill(p)
  PROVE  FateBook(p)'
<1>0. p[2] = "original" => /\ ChildOf(p) \in Processes \ {p}
                           /\ pc'[ChildOf(p)] = pc[ChildOf(p)]
                           /\ exit'[ChildOf(p)] = exit[ChildOf(p)]
  BY ChildIsProcess, OneActs DEF OthersAlone
<1>a. p[2] \in {"original", "elevated"} /\ FateBook(p)
  BY DEF Processes
<1> USE <1>0, <1>a DEF TypeOK, FateBook, OwnFate, GameBook, NoGameYet, Before, gameVars,
            procVars, Goes, Exits, Step, Games, Alive, SetGame, LeftBehind
<1>1. CASE Check(p) \/ Elevate(p) \/ Lock(p) \/ Recheck(p)
  BY <1>1 DEF Check, Elevate, Lock, Recheck
<1>2. CASE WaitChild(p)
  <2>1. /\ p[2] = "original" /\ pc[p] = "wait_child" /\ UNCHANGED game
        /\ exit'[p] \in {exit[ChildOf(p)], "failed"} /\ pc'[p] = "done"
        /\ exit'[p] # "none"
    BY <1>2 DEF WaitChild
  <2>2. exit[ChildOf(p)] # "canceled"
    BY <2>1, ChildIsProcess DEF FateBook
  <2> QED BY <2>1, <2>2
<1>3. CASE Create(p)
  BY <1>3, KindsAssumption DEF Create, MobilePatch
<1>4. CASE Setup(p) \/ Resume(p) \/ Release(p)
  BY <1>4 DEF Setup, Resume, Release
<1>5. CASE Terminate(p) \/ WaitExit(p)
  BY <1>5 DEF Terminate, WaitExit
<1>6. CASE Unlock(p)
  BY <1>6 DEF Unlock
<1>7. CASE WaitAssembly(p) \/ CreateLogEvent(p) \/ WritePath(p) \/ StartLoader(p)
  BY <1>7 DEF WaitAssembly, CreateLogEvent, WritePath, StartLoader
<1>8. CASE WaitLoader(p) \/ Verify(p) \/ WaitStarted(p)
  BY <1>8 DEF WaitLoader, Verify, WaitStarted
<1>9. CASE GameStep(p)
  BY <1>9 DEF GameStep, LoaderEnds, PayloadOpensLog, PayloadPublishes, GameEnds
<1>10. CASE Kill(p)
  BY <1>10 DEF Kill
<1> QED
  BY <1>1, <1>2, <1>3, <1>4, <1>5, <1>6, <1>7, <1>8, <1>9, <1>10 DEF LauncherStep

\* A process that has not begun, or has ended, has no step of its own.
LEMMA NoStepOutside ==
  ASSUME TypeOK, NEW p \in Processes, pc[p] \in {"absent", "done"},
         (LauncherStep(p) /\ ~Ask(p)) \/ GameStep(p) \/ Kill(p)
  PROVE  UNCHANGED procVars
<1>1. ~LauncherStep(p)
  BY DEF LauncherStep, Goes, Exits, Step, Check, Elevate, Ask, WaitChild, Lock, Recheck,
     Create, Setup, Resume, Release, Terminate, WaitExit, Unlock, WaitAssembly,
     CreateLogEvent, WritePath, StartLoader, WaitLoader, Verify, WaitStarted
<1>2. ~Kill(p)
  BY DEF Kill
<1>3. GameStep(p) => UNCHANGED procVars
  BY DEF GameStep, LoaderEnds, PayloadOpensLog, PayloadPublishes, GameEnds
<1> QED BY <1>1, <1>2, <1>3

\* What is known of one process survives a step of another.
LEMMA BystandersKeep ==
  ASSUME TypeOK, NEW p \in Processes, NEW q \in Processes \ {p}, FateBook(p),
         LoaderBook(q), LogBook(q), GameBook(q), FateBook(q),
         (LauncherStep(p) /\ ~Ask(p)) \/ GameStep(p) \/ Kill(p)
  PROVE  LoaderBook(q)' /\ LogBook(q)' /\ GameBook(q)' /\ FateBook(q)'
<1>1. /\ pc'[q] = pc[q] /\ exit'[q] = exit[q]
      /\ game'[q] = game[q] /\ remote'[q] = remote[q]
      /\ logEvent'[q] = logEvent[q]
      /\ kind' = kind /\ log' = log
  BY OneActs DEF OthersAlone, config
<1>2. LoaderBook(q)'
  BY <1>1 DEF LoaderBook
<1>3. LogBook(q)'
  BY <1>1 DEF LogBook
<1>4. GameBook(q)'
  BY <1>1 DEF GameBook, MobilePatch
<1>5. q[2] = "original" =>
        /\ ChildOf(q) \in Processes
        /\ pc[ChildOf(q)] \in {"absent", "done"} =>
             /\ pc'[ChildOf(q)] = pc[ChildOf(q)]
             /\ exit'[ChildOf(q)] = exit[ChildOf(q)]
  BY ChildIsProcess, OneActs, NoStepOutside DEF OthersAlone, procVars
<1>6. FateBook(q)'
  <2>1. \A r \in Processes : exit[r] # "none" /\ FateBook(r) => pc[r] = "done"
    BY DEF FateBook
  <2>2. /\ OwnFate(q, exit[q])' <=> OwnFate(q, exit[q])
        /\ LeftBehind(game[q])' <=> LeftBehind(game[q])
    BY <1>1 DEF OwnFate, LeftBehind
  <2>3. q[2] = "elevated" \/ q[2] = "original"
    BY DEF Processes
  <2>4. CASE q[2] = "elevated"
    BY <1>1, <2>2, <2>4 DEF FateBook
  <2>5. CASE q[2] = "original"
    <3>1. pc[ChildOf(q)] = "absent" => pc'[ChildOf(q)] = "absent"
      BY <1>5, <2>5
    <3>2. exit[ChildOf(q)] # "none" => exit'[ChildOf(q)] = exit[ChildOf(q)]
      <4>1. CASE ChildOf(q) = p
        BY <1>5, <2>1, <2>5, <4>1
      <4>2. CASE ChildOf(q) # p
        BY <1>5, <2>5, <4>2, OneActs DEF OthersAlone
      <4> QED BY <4>1, <4>2
    <3> QED
      BY <1>1, <2>2, <2>5, <3>1, <3>2 DEF FateBook
  <2> QED BY <2>3, <2>4, <2>5
<1> QED BY <1>2, <1>3, <1>4, <1>6

\* Asking starts the child, which knows as little as its parent.
LEMMA AskKeepsBooks ==
  ASSUME TypeOK, ChildrenWait, NoGameYet, Books, NEW p \in Processes, Ask(p)
  PROVE  Books'
<1> SUFFICES ASSUME NEW q \in Processes
    PROVE  (LoaderBook(q) /\ LogBook(q) /\ GameBook(q) /\ FateBook(q))'
  BY DEF Books
<1>1. /\ ChildOf(p) \in Processes /\ ChildOf(p)[2] = "elevated"
      /\ pc[p] = "ask" /\ p[2] = "original" /\ pc[ChildOf(p)] = "absent"
  BY ChildIsProcess DEF Ask, Exits, ChildrenWait
<1>2. /\ UNCHANGED <<game, remote, logEvent, kind, log>>
      /\ \A r \in Processes \ {p} : exit'[r] = exit[r]
      /\ \A r \in Processes \ {p, ChildOf(p)} : pc'[r] = pc[r]
  BY <1>1 DEF Ask, Exits, gameVars, config, TypeOK
<1>3. \/ /\ pc'[p] = "wait_child" /\ pc'[ChildOf(p)] = "check" /\ exit'[p] = exit[p]
      \/ /\ pc'[p] = "done" /\ pc'[ChildOf(p)] = "absent"
         /\ exit'[p] \in {"canceled", "failed"}
      \/ /\ pc'[p] = "done" /\ pc'[ChildOf(p)] = "check"
         /\ exit'[p] = "failed"
  BY <1>1 DEF Ask, Exits, TypeOK
<1>4. LoaderBook(q) /\ LogBook(q) /\ GameBook(q) /\ FateBook(q)
  BY DEF Books
<1>5. game[p].state = "none"
  BY <1>1 DEF NoGameYet, Before
<1>6. CASE q = p
  BY <1>1, <1>2, <1>3, <1>4, <1>5, <1>6
  DEF LoaderBook, LogBook, GameBook, FateBook, OwnFate, LeftBehind, Unloaded, Before,
      Logging, Injecting, MobilePatch
<1>7. CASE q = ChildOf(p)
  BY <1>1, <1>2, <1>3, <1>4, <1>7
  DEF LoaderBook, LogBook, GameBook, FateBook, OwnFate, LeftBehind, Unloaded, Before,
      Logging, Injecting, MobilePatch
<1>8. CASE q \notin {p, ChildOf(p)}
  <2>1. q[2] = "original" => ChildOf(q) \in Processes \ {p, ChildOf(p)}
    BY <1>1, <1>8, ChildIsProcess DEF Processes, ChildOf
  <2> QED
    BY <1>2, <1>4, <1>8, <2>1
    DEF LoaderBook, LogBook, GameBook, FateBook, OwnFate, LeftBehind, MobilePatch
<1> QED BY <1>6, <1>7, <1>8

\* When the commands are given, no process has done anything.
LEMMA InitBooks == Init => Books
<1> SUFFICES ASSUME Init, NEW p \in Processes
    PROVE  LoaderBook(p) /\ LogBook(p) /\ GameBook(p) /\ FateBook(p)
  BY DEF Books
<1>1. /\ pc[p] = IF p[2] = "original" THEN "check" ELSE "absent"
      /\ exit[p] = "none" /\ game[p].state = "none" /\ ~game[p].released
      /\ remote[p].loader = "none" /\ remote[p].payload = "absent"
      /\ p[2] = "original" => pc[ChildOf(p)] = "absent"
  BY ChildIsProcess DEF Init
<1> QED
  BY <1>1
  DEF LoaderBook, LogBook, GameBook, FateBook, OwnFate, LeftBehind, Logging, Injecting

\* Every step keeps what is known of every process.
LEMMA BooksKept == Guarded /\ Books /\ [Next]_vars => Books'
<1> SUFFICES ASSUME Guarded, Books, [Next]_vars PROVE Books'
  OBVIOUS
<1> USE DEF Guarded
<1>1. ASSUME NEW p \in Processes,
             (LauncherStep(p) /\ ~Ask(p)) \/ GameStep(p) \/ Kill(p)
      PROVE  Books'
  <2>1. \A q \in Processes : LoaderBook(q) /\ LogBook(q) /\ GameBook(q) /\ FateBook(q)
    BY DEF Books
  <2>2. LoaderBook(p)' /\ LogBook(p)' /\ GameBook(p)' /\ FateBook(p)'
    BY <1>1, <2>1, LoaderBookKept, LogBookKept, GameBookKept, FateBookKept
  <2>3. \A q \in Processes \ {p} :
          LoaderBook(q)' /\ LogBook(q)' /\ GameBook(q)' /\ FateBook(q)'
    BY <1>1, <2>1, BystandersKeep
  <2> QED BY <2>2, <2>3 DEF Books
<1>2. ASSUME NEW p \in Processes, Ask(p) PROVE Books'
  BY <1>2, AskKeepsBooks
<1>3. CASE ByHand \/ UNCHANGED vars
  BY <1>3 DEF ByHand, vars, config, procVars, gameVars, Books, LoaderBook, LogBook,
     GameBook, FateBook, OwnFate, LeftBehind, MobilePatch
<1> QED BY <1>1, <1>2, <1>3 DEF Next

\* Each place of each process knows its game, its loading thread and its payload.
THEOREM BooksInvariance == Spec => []Books
BY InitBooks, BooksKept, LauncherInvariance, PTL DEF Spec

\* The path is not freed while the loading thread may read it, even if the launcher
\* gave up waiting for the thread or was killed.
THEOREM PathOutlivesLoader == Spec => []LoaderPathStays
<1>1. Books => LoaderPathStays
  BY DEF Books, LoaderBook, LoaderPathStays
<1> QED BY <1>1, BooksInvariance, PTL

\* A payload left running in ZZZ logs if and only if its command asked for a log.
THEOREM LogsAsAsked == Spec => []LoggingAsAsked
<1>1. Books => LoggingAsAsked
  BY DEF Books, GameBook, LoggingAsAsked
<1> QED BY <1>1, BooksInvariance, PTL

\* A failed process leaves no game of its own behind, and the code 0 or the canceled
\* one of a command, its own or passed on from the elevated process, tells what became
\* of the game, whatever else runs, fails or is killed.
THEOREM ExitCodesTell == Spec => []ExitCodeIsTheGamesFate
<1>1. NoGameYet /\ Books => ExitCodeIsTheGamesFate
  <2> SUFFICES ASSUME NoGameYet, Books PROVE ExitCodeIsTheGamesFate
    OBVIOUS
  <2>1. \A p \in Processes : exit[p] = "failed" => ~LeftBehind(game[p])
    BY DEF Books, FateBook
  <2>2. ASSUME NEW c \in Commands
        PROVE  LET games == {game[<<c, w>>] : w \in {"original", "elevated"}}
                   code == exit[<<c, "original">>]
               IN  /\ code = "ok" =>
                        \E g \in games : g.complete /\ g.released /\ g.state # "suspended"
                   /\ code = "canceled" => \A g \in games : g.state = "none"
    <3> DEFINE p == <<c, "original">>
               q == <<c, "elevated">>
    <3>1. p \in Processes /\ q \in Processes /\ ChildOf(p) = q
          /\ p[2] = "original" /\ q[2] = "elevated"
      BY DEF Processes, ChildOf
    <3>2. {game[<<c, w>>] : w \in {"original", "elevated"}} = {game[p], game[q]}
      OBVIOUS
    <3>3. FateBook(p) /\ FateBook(q)
      BY <3>1 DEF Books
    <3>4. pc[q] = "absent" => game[q].state = "none"
      BY <3>1 DEF NoGameYet, Before
    <3> HIDE DEF p, q
    <3>5. exit[p] = "ok" =>
            \E g \in {game[p], game[q]} : g.complete /\ g.released /\ g.state # "suspended"
      BY <3>1, <3>3, <3>4 DEF FateBook, OwnFate
    <3>6. exit[p] = "canceled" => \A g \in {game[p], game[q]} : g.state = "none"
      BY <3>1, <3>3, <3>4 DEF FateBook, OwnFate
    <3> QED BY <3>2, <3>5, <3>6 DEF p, q
  <2> QED BY <2>1, <2>2 DEF ExitCodeIsTheGamesFate
<1>2. Guarded => NoGameYet
  BY DEF Guarded
<1> QED BY <1>1, <1>2, LauncherInvariance, BooksInvariance, PTL
=============================================================================
