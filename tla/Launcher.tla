------------------------------ MODULE Launcher ------------------------------
(***************************************************************************)
(* The launcher (launcher/src/launcher.cpp, launcher/include/game.hpp,     *)
(* common/windows/include/elevation.hpp): what the processes of several    *)
(* commands do from the running-game check to their exit codes, and the    *)
(* payload's side of the startup protocol (worker() in payload.cpp).       *)
(*                                                                         *)
(* A command starts one process; without administrator rights that asks    *)
(* for a second, elevated one and waits for it.  Every call that can fail  *)
(* may fail, every wait may time out, every process may be killed at any   *)
(* point, and games may be started by hand.  All commands are for the same *)
(* game, since commands for different ones share nothing, and run in one   *)
(* session of Windows, since the mutex is a Local one.  Arguments, logging *)
(* output and the read-only probe are left out.                            *)
(***************************************************************************)
EXTENDS Naturals, FiniteSets

CONSTANTS
  Commands,  \* commands given by the user
  Kinds,     \* games they may be for
  Nobody,    \* the mutex is free
  MaxKills   \* bound on launcher processes killed

ASSUME KindsAssumption == Kinds \subseteq {"GI", "SR", "ZZZ", "WW"}
ASSUME KillsAssumption == MaxKills \in Nat

Processes == Commands \X {"original", "elevated"}

ASSUME NobodyAssumption == Nobody \notin Processes

VARIABLES
  kind, log,   \* the game; whether the commands ask for a log
  admin,       \* processes with administrator rights
  pc, exit,    \* where each process is; its exit code
  mutex,       \* owner of the game's launch mutex
  game,        \* the game process each process created
  remote,      \* the path, the loading thread and the payload in it
  logEvent,    \* processes holding the logging event of their game
  manual       \* a game started by hand is running

config == <<kind, log>>
procVars == <<pc, exit>>
gameVars == <<game, remote>>
vars == <<config, admin, procVars, mutex, gameVars, logEvent, manual>>

ChildOf(p) == <<p[1], "elevated">>
MobilePatch == kind \in {"GI", "SR"}

\* A process being terminated is listed until it is gone.
Alive == {"suspended", "running", "dying"}

\* find_games finds something.
Running == manual \/ \E p \in Processes : game[p].state \in Alive

Goes(p, from, to) ==
  /\ pc[p] = from
  /\ pc' = [pc EXCEPT ![p] = to]
  /\ UNCHANGED exit

Exits(p, from, code) ==
  /\ pc[p] = from
  /\ pc' = [pc EXCEPT ![p] = "done"]
  /\ exit' = [exit EXCEPT ![p] = code]

SetGame(p, g) == game' = [game EXCEPT ![p] = g]
SetRemote(p, r) == remote' = [remote EXCEPT ![p] = r]

-----------------------------------------------------------------------------
(* Before the launch mutex                                                 *)

\* The game runs already, processes cannot be listed, or the payload is missing.
Check(p) ==
  /\ \/ ~Running /\ Goes(p, "check", "elevate")
     \/ Exits(p, "check", "failed")
  /\ UNCHANGED <<config, admin, mutex, gameVars, logEvent, manual>>

\* needs_relaunch: an elevated relaunch never asks again.
Elevate(p) ==
  /\ \/ admin[p] /\ Goes(p, "elevate", "lock")
     \/ ~admin[p] /\ p[2] = "original" /\ Goes(p, "elevate", "ask")
     \/ Exits(p, "elevate", "failed")
  /\ UNCHANGED <<config, admin, mutex, gameVars, logEvent, manual>>

\* relaunch(): approved (with or without rights), then with or without a handle to
\* wait for; or canceled; or failed.
Ask(p) ==
  /\ \/ /\ pc[p] = "ask"
        /\ \E granted \in BOOLEAN : admin' = [admin EXCEPT ![ChildOf(p)] = granted]
        /\ \/ /\ pc' = [pc EXCEPT ![p] = "wait_child", ![ChildOf(p)] = "check"]
              /\ UNCHANGED exit
           \/ /\ pc' = [pc EXCEPT ![p] = "done", ![ChildOf(p)] = "check"]
              /\ exit' = [exit EXCEPT ![p] = "failed"]
     \/ /\ \E code \in {"canceled", "failed"} : Exits(p, "ask", code)
        /\ UNCHANGED admin
  /\ UNCHANGED <<config, mutex, gameVars, logEvent, manual>>

\* The child's exit code is passed on, unless the process cannot wait for the child
\* or cannot read its code.
WaitChild(p) ==
  /\ \/ exit[ChildOf(p)] # "none" /\ Exits(p, "wait_child", exit[ChildOf(p)])
     \/ Exits(p, "wait_child", "failed")
  /\ UNCHANGED <<config, admin, mutex, gameVars, logEvent, manual>>

\* A wait of zero length; an abandoned mutex is taken as well.
Lock(p) ==
  /\ \/ /\ mutex = Nobody
        /\ mutex' = p
        /\ Goes(p, "lock", "recheck")
     \/ Exits(p, "lock", "failed") /\ UNCHANGED mutex
  /\ UNCHANGED <<config, admin, gameVars, logEvent, manual>>

-----------------------------------------------------------------------------
(* With the mutex                                                          *)

\* Mutant: the check made before the mutex was taken is trusted.
RecheckNothing(p) ==
  /\ Goes(p, "recheck", "create") \/ Goes(p, "recheck", "unlock_failed")
  /\ UNCHANGED <<config, admin, mutex, gameVars, logEvent, manual>>

Recheck(p) ==
  /\ \/ ~Running /\ Goes(p, "recheck", "create")
     \/ Goes(p, "recheck", "unlock_failed")
  /\ UNCHANGED <<config, admin, mutex, gameVars, logEvent, manual>>

\* The image of GI is prepared and the process created, or neither.
Create(p) ==
  /\ \/ /\ Goes(p, "create", CASE kind = "WW" -> "release"
                               [] kind = "ZZZ" -> "wait_assembly"
                               [] MobilePatch -> "setup")
        /\ SetGame(p, [game[p] EXCEPT
                         !.state = IF MobilePatch THEN "suspended" ELSE "running",
                         !.complete = (kind = "WW")])
     \/ Goes(p, "create", "unlock_failed") /\ UNCHANGED game
  /\ UNCHANGED <<config, admin, mutex, remote, logEvent, manual>>

\* gi::initialize or sr::initialize as a whole; it may fail at any point.
Setup(p) ==
  /\ \/ /\ game[p].state = "suspended"
        /\ Goes(p, "setup", "resume")
        /\ SetGame(p, [game[p] EXCEPT !.complete = TRUE])
     \/ Goes(p, "setup", "terminate") /\ UNCHANGED game
  /\ UNCHANGED <<config, admin, mutex, remote, logEvent, manual>>

\* Mutant: a failing ResumeThread is not noticed.
ResumeUnchecked(p) ==
  /\ Goes(p, "resume", "release")
  /\ \/ game[p].state = "suspended" /\ SetGame(p, [game[p] EXCEPT !.state = "running"])
     \/ UNCHANGED game
  /\ UNCHANGED <<config, admin, mutex, remote, logEvent, manual>>

Resume(p) ==
  /\ \/ /\ game[p].state = "suspended"
        /\ Goes(p, "resume", "release")
        /\ SetGame(p, [game[p] EXCEPT !.state = "running"])
     \/ Goes(p, "resume", "terminate") /\ UNCHANGED game
  /\ UNCHANGED <<config, admin, mutex, remote, logEvent, manual>>

Release(p) ==
  /\ Goes(p, "release", "unlock_ok")
  /\ SetGame(p, [game[p] EXCEPT !.released = TRUE])
  /\ UNCHANGED <<config, admin, mutex, remote, logEvent, manual>>

\* ~Child(): what was not released is terminated, unless Windows refuses, which
\* goes unnoticed, and waited for, but not for longer than 5 s.  The event's
\* handle was closed before.
Terminate(p) ==
  /\ Goes(p, "terminate", "wait_exit")
  /\ \/ SetGame(p, [game[p] EXCEPT !.state = IF @ \in Alive THEN "dying" ELSE @])
     \/ SetGame(p, [game[p] EXCEPT !.refused = TRUE])
  /\ logEvent' = [logEvent EXCEPT ![p] = FALSE]
  /\ UNCHANGED <<config, admin, mutex, remote, manual>>

WaitExit(p) ==
  /\ Goes(p, "wait_exit", "unlock_failed")
  /\ UNCHANGED <<config, admin, mutex, gameVars, logEvent, manual>>

Unlock(p) ==
  /\ Exits(p, "unlock_ok", "ok") \/ Exits(p, "unlock_failed", "failed")
  /\ mutex' = Nobody
  /\ logEvent' = [logEvent EXCEPT ![p] = FALSE]
  /\ UNCHANGED <<config, admin, gameVars, manual>>

-----------------------------------------------------------------------------
(* The payload of ZZZ                                                      *)

\* Every step of the injection fails or finds the game running.
Step(p, from, to) ==
  \/ game[p].state = "running" /\ Goes(p, from, to)
  \/ Goes(p, from, "terminate")

WaitAssembly(p) ==
  /\ Step(p, "wait_assembly", "log_event")
  /\ UNCHANGED <<config, admin, mutex, gameVars, logEvent, manual>>

CreateLogEvent(p) ==
  /\ Step(p, "log_event", "write_path")
  /\ logEvent' = [logEvent EXCEPT ![p] = (pc'[p] = "write_path")]
  /\ UNCHANGED <<config, admin, mutex, gameVars, manual>>

\* inject() up to WriteProcessMemory; a path not written is freed again.
WritePath(p) ==
  /\ Step(p, "write_path", "start_loader")
  /\ SetRemote(p, [remote[p] EXCEPT
                     !.path = IF pc'[p] = "start_loader" THEN "written" ELSE "none"])
  /\ UNCHANGED <<config, admin, mutex, game, logEvent, manual>>

StartLoader(p) ==
  /\ Step(p, "start_loader", "wait_loader")
  /\ SetRemote(p, IF pc'[p] = "wait_loader"
                  THEN [remote[p] EXCEPT !.loader = "running"]
                  ELSE [remote[p] EXCEPT !.path = "none"])
  /\ UNCHANGED <<config, admin, mutex, game, logEvent, manual>>

\* Mutant: the path is freed when the wait is over, however it ended.
WaitLoaderFreeing(p) ==
  /\ \/ remote[p].loader = "done" /\ Goes(p, "wait_loader", "verify")
     \/ Goes(p, "wait_loader", "terminate")
  /\ SetRemote(p, [remote[p] EXCEPT !.path = "none"])
  /\ UNCHANGED <<config, admin, mutex, game, logEvent, manual>>

\* The path is freed when the thread has ended, and kept after a timeout.
WaitLoader(p) ==
  /\ \/ /\ remote[p].loader = "done"
        /\ Goes(p, "wait_loader", "verify")
        /\ SetRemote(p, [remote[p] EXCEPT !.path = "none"])
     \/ Goes(p, "wait_loader", "terminate") /\ UNCHANGED remote
  /\ UNCHANGED <<config, admin, mutex, game, logEvent, manual>>

Verify(p) ==
  /\ \/ Goes(p, "verify", "terminate")
     \/ remote[p].payload # "absent" /\ Step(p, "verify", "wait_started")
  /\ UNCHANGED <<config, admin, mutex, gameVars, logEvent, manual>>

\* Mutant: the loaded module counts as a started payload.
StartedWhenLoaded(p) == remote[p].payload # "absent"

\* The started event exists as long as the payload's process.
Started(p) == remote[p].payload = "started"

\* Up to 20 s.
WaitStarted(p) ==
  /\ \/ /\ Started(p) /\ game[p].state = "running"
        /\ Goes(p, "wait_started", "release")
        /\ SetGame(p, [game[p] EXCEPT !.complete = TRUE])
     \/ Goes(p, "wait_started", "terminate") /\ UNCHANGED game
  /\ UNCHANGED <<config, admin, mutex, remote, logEvent, manual>>

LauncherStep(p) ==
  \/ Check(p) \/ Elevate(p) \/ Ask(p) \/ WaitChild(p) \/ Lock(p)
  \/ Recheck(p) \/ Create(p) \/ Setup(p) \/ Resume(p) \/ Release(p)
  \/ Terminate(p) \/ WaitExit(p) \/ Unlock(p)
  \/ WaitAssembly(p) \/ CreateLogEvent(p) \/ WritePath(p) \/ StartLoader(p)
  \/ WaitLoader(p) \/ Verify(p) \/ WaitStarted(p)

-----------------------------------------------------------------------------
(* In the game                                                             *)

\* LoadLibrary returns, with the payload loaded or not.
LoaderEnds(p) ==
  /\ game[p].state = "running"
  /\ remote[p].loader = "running"
  /\ \E result \in {"absent", "loaded"} :
       SetRemote(p, [remote[p] EXCEPT !.loader = "done", !.payload = result])
  /\ UNCHANGED <<config, admin, procVars, mutex, game, logEvent, manual>>

\* worker(): without the event nothing is logged.
PayloadOpensLog(p) ==
  /\ game[p].state = "running"
  /\ remote[p].payload = "loaded"
  /\ SetRemote(p, [remote[p] EXCEPT !.payload = "opened",
                                    !.logs = logEvent[p] /\ log])
  /\ UNCHANGED <<config, admin, procVars, mutex, game, logEvent, manual>>

PayloadPublishes(p) ==
  /\ game[p].state = "running"
  /\ remote[p].payload = "opened"
  /\ \E result \in {"started", "failed"} :
       SetRemote(p, [remote[p] EXCEPT !.payload = result])
  /\ UNCHANGED <<config, admin, procVars, mutex, game, logEvent, manual>>

\* The game ends, by itself or by the launcher's order; so do its threads.
GameEnds(p) ==
  /\ game[p].state \in Alive
  /\ SetGame(p, [game[p] EXCEPT !.state = "gone"])
  /\ SetRemote(p, [remote[p] EXCEPT !.loader = IF @ = "running" THEN "done" ELSE @])
  /\ UNCHANGED <<config, admin, procVars, mutex, logEvent, manual>>

GameStep(p) ==
  LoaderEnds(p) \/ PayloadOpensLog(p) \/ PayloadPublishes(p) \/ GameEnds(p)

-----------------------------------------------------------------------------
(* The user                                                                *)

\* Windows closes a killed process's handles and abandons its mutex.
Kill(p) ==
  /\ pc[p] \notin {"absent", "done"}
  /\ Cardinality({q \in Processes : exit[q] = "killed"}) < MaxKills
  /\ Exits(p, pc[p], "killed")
  /\ mutex' = IF mutex = p THEN Nobody ELSE mutex
  /\ logEvent' = [logEvent EXCEPT ![p] = FALSE]
  /\ UNCHANGED <<config, admin, gameVars, manual>>

ByHand ==
  /\ manual' = ~manual
  /\ UNCHANGED <<config, admin, procVars, mutex, gameVars, logEvent>>

Init ==
  /\ kind \in Kinds
  /\ log \in BOOLEAN
  /\ admin \in [Processes -> BOOLEAN]
  /\ \A p \in Processes : p[2] = "elevated" => ~admin[p]
  /\ pc = [p \in Processes |-> IF p[2] = "original" THEN "check" ELSE "absent"]
  /\ exit = [p \in Processes |-> "none"]
  /\ mutex = Nobody
  /\ game = [p \in Processes |->
               [state |-> "none", complete |-> FALSE, released |-> FALSE,
                refused |-> FALSE]]
  /\ remote = [p \in Processes |->
                 [path |-> "none", loader |-> "none", payload |-> "absent",
                  logs |-> FALSE]]
  /\ logEvent = [p \in Processes |-> FALSE]
  /\ manual = FALSE

Next ==
  \/ \E p \in Processes : LauncherStep(p) \/ GameStep(p) \/ Kill(p)
  \/ ByHand

Spec == Init /\ [][Next]_vars

-----------------------------------------------------------------------------
(* Properties                                                              *)

Before == {"absent", "check", "elevate", "ask", "wait_child", "lock"}

Holding == {"recheck", "create", "setup", "resume", "release", "terminate",
            "wait_exit", "unlock_ok", "unlock_failed", "wait_assembly", "log_event",
            "write_path", "start_loader", "wait_loader", "verify", "wait_started"}

Locations == Before \cup Holding \cup {"done"}

Codes == {"none", "ok", "failed", "canceled", "killed"}

\* refused: Windows did not terminate it.
Games == [state : Alive \cup {"none", "gone"},
          complete : BOOLEAN, released : BOOLEAN, refused : BOOLEAN]

Remotes == [path : {"none", "written"}, loader : {"none", "running", "done"},
            payload : {"absent", "loaded", "opened", "started", "failed"},
            logs : BOOLEAN]

\* Every variable has its type, and the mutex is owned exactly by the process
\* between taking it and unwinding.
TypeOK ==
  /\ kind \in Kinds
  /\ log \in BOOLEAN
  /\ admin \in [Processes -> BOOLEAN]
  /\ pc \in [Processes -> Locations]
  /\ exit \in [Processes -> Codes]
  /\ mutex \in Processes \cup {Nobody}
  /\ game \in [Processes -> Games]
  /\ remote \in [Processes -> Remotes]
  /\ logEvent \in [Processes -> BOOLEAN]
  /\ manual \in BOOLEAN
  /\ \A p \in Processes : pc[p] \in Holding <=> mutex = p

\* However many launchers run, are killed, give up or cannot end their game, no two
\* live games were created by launchers: the mutex and the check made under it.
OneLaunchedGame ==
  \A p, q \in Processes :
    (game[p].state \in Alive /\ game[q].state \in Alive) => p = q

\* Alive although its launcher was to end it, and Windows would have let it.
LeftBehind(g) == g.state \in {"suspended", "running"} /\ ~g.refused

\* What the exit codes tell.  A process that fails leaves no game of its own
\* behind.  A command that ends with 0, its own or passed on through an elevated
\* relaunch, has let go a game set up completely, which runs or ran; a canceled one
\* has created none.  A command that fails says nothing of an elevated process it
\* lost sight of.
ExitCodeIsTheGamesFate ==
  /\ \A p \in Processes : exit[p] = "failed" => ~LeftBehind(game[p])
  /\ \A c \in Commands :
       LET games == {game[<<c, w>>] : w \in {"original", "elevated"}}
           code == exit[<<c, "original">>]
       IN  /\ code = "ok" =>
                \E g \in games : g.complete /\ g.released /\ g.state # "suspended"
           /\ code = "canceled" => \A g \in games : g.state = "none"

\* The path is there as long as the loading thread may read it, even if the
\* launcher stopped waiting for the thread.
LoaderPathStays ==
  \A p \in Processes :
    remote[p].loader = "running" => remote[p].path = "written"

\* A payload left running logs if and only if its command asked for it: the
\* launcher holds the logging event until the payload has opened it.
LoggingAsAsked ==
  \A p \in Processes :
    game[p].released /\ kind = "ZZZ" => remote[p].logs = log
=============================================================================
