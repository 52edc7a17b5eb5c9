-------------------------- MODULE ButtonLayoutPatch --------------------------
(***************************************************************************)
(* The optional patch of the game's button-layout gates                    *)
(* (games/zzz/include/button_layout_patch.hpp) and the worker loop of      *)
(* payload.cpp that installs, watches and withdraws it.                    *)
(*                                                                         *)
(* Each site is one aligned word of executable code.  A word is changed by *)
(* opening its page, exchanging the word conditionally, flushing and       *)
(* closing the page.  Every one of these calls can fail, and another       *)
(* writer in the process may change a word or a page between any two of    *)
(* them.  Sites may share a page.  One call of Memory is one step.         *)
(***************************************************************************)
EXTENDS Naturals

CONSTANTS
  NumSites,    \* sites of the plan: 2, or 4 for the branched gates
  Pages,
  PageOf,      \* the page of each site
  MaxAttempts, \* layout_restore_attempts < MaxAttempts (3 in the code)
  MaxFaults,   \* bound on failed memory calls
  MaxForeign   \* bound on the other writer's changes

Sites == 1..NumSites

ASSUME SitesAssumption == NumSites \in Nat \ {0}
ASSUME PagesAssumption == PageOf \in [Sites -> Pages]
ASSUME BoundsAssumption ==
  MaxAttempts \in Nat /\ MaxFaults \in Nat /\ MaxForeign \in Nat

Words == {"expected", "replacement", "other"}
Protections == {"RX", "RWX", "NX"}  \* NX: not executable, or not accessible

VARIABLES
  word,            \* the eight bytes of each site
  prot,            \* the protection of each page
  state,           \* states_
  conflict,        \* conflict_
  pc,              \* where the worker thread is
  enabled,         \* the bridge's enabled flag
  layoutDisabled, attempts,
  faults, foreign, \* how many faults and foreign changes happened
  touched          \* pages whose protection another writer has set

memory == <<word, prot>>
environment == <<enabled, foreign, touched>>
workerVars == <<layoutDisabled, attempts>>
vars == <<memory, state, conflict, pc, environment, workerVars, faults>>

FreshState ==
  [owned |-> FALSE, protection_pending |-> FALSE, flush_pending |-> FALSE,
   abandoned |-> FALSE, protection |-> "none"]

Executable(protection) == protection # "NX"

HasPending ==
  \E s \in Sites : \/ state[s].owned
                   \/ state[s].protection_pending
                   \/ state[s].flush_pending

Installed ==
  \A s \in Sites : /\ state[s].owned
                   /\ ~state[s].protection_pending
                   /\ ~state[s].flush_pending

Intact ==
  \A s \in Sites : /\ prot[PageOf[s]] = state[s].protection
                   /\ Executable(prot[PageOf[s]])
                   /\ word[s] = "replacement"

-----------------------------------------------------------------------------
(* Control.  `at` is the next call; inside an exchange, `part` says which  *)
(* finish() is running: the one before, the one after a changed or an      *)
(* unchanged word, or the only one (restore() of a site not owned).        *)

At(location) == [at |-> location]

RestoreAt(s, then) == [at |-> "restore", site |-> s, then |-> then]

FinishOf(s, installing, part, then) ==
  [at |-> "flush", site |-> s, installing |-> installing, part |-> part,
   seen |-> "none", then |-> then]

Here == state[pc.site]
Page == prot[PageOf[pc.site]]
SetHere(s) == state' = [state EXCEPT ![pc.site] = s]

Expected == IF pc.installing THEN "expected" ELSE "replacement"
Desired == IF pc.installing THEN "replacement" ELSE "expected"

\* exchange() returns: install goes on or rolls back, restore goes on.
Leave(result) ==
  pc' = IF ~pc.installing THEN RestoreAt(pc.site - 1, pc.then)
        ELSE IF ~result THEN RestoreAt(NumSites, pc.then)
        ELSE IF pc.site < NumSites
        THEN FinishOf(pc.site + 1, TRUE, "before", pc.then)
        ELSE At(pc.then)

\* A call succeeds, or uses up one fault.
Call(ok) ==
  /\ ok \/ faults < MaxFaults
  /\ faults' = IF ok THEN faults ELSE faults + 1

\* finish() returns with the site in state s.
AfterFinish(s) ==
  LET complete == ~s.flush_pending /\ ~s.protection_pending
  IN  IF pc.part = "before" /\ complete /\ ~s.abandoned
      THEN pc' = [pc EXCEPT !.at = "word"]
      ELSE Leave(pc.part = "changed" /\ complete)

-----------------------------------------------------------------------------
(* finish()                                                                *)

Flush ==
  /\ pc.at = "flush"
  /\ \E ok \in BOOLEAN :
       /\ ~Here.flush_pending => ok
       /\ Call(ok)
       /\ SetHere([Here EXCEPT !.flush_pending = ~ok])
  /\ pc' = [pc EXCEPT !.at = "query"]
  /\ UNCHANGED <<memory, conflict, workerVars>>

\* The page is no longer as this patch left it.
Abandon(s) == [s EXCEPT !.owned = FALSE, !.abandoned = TRUE]

QuerySettled ==
  /\ ~Here.protection_pending \/ Page = Here.protection
  /\ SetHere([Here EXCEPT !.protection_pending = FALSE])
  /\ AfterFinish([Here EXCEPT !.protection_pending = FALSE])
  /\ UNCHANGED <<faults, conflict>>

QueryFails ==
  /\ Here.protection_pending
  /\ Call(FALSE)
  /\ AfterFinish(Here)
  /\ UNCHANGED <<state, conflict>>

QueryOpen ==
  /\ Here.protection_pending
  /\ Page = "RWX" /\ Here.protection # "RWX"
  /\ pc' = [pc EXCEPT !.at = "reprotect"]
  /\ UNCHANGED <<state, faults, conflict>>

\* Mutant: the patch's own RWX counts as somebody else's.
QueryForeignOpen ==
  /\ Here.protection_pending
  /\ Page # Here.protection
  /\ LET s == [Abandon(Here) EXCEPT !.protection_pending = FALSE]
     IN  SetHere(s) /\ AfterFinish(s)
  /\ conflict' = TRUE
  /\ UNCHANGED faults

QueryForeign ==
  /\ Here.protection_pending
  /\ Page \notin {"RWX", Here.protection}
  /\ LET s == [Abandon(Here) EXCEPT !.protection_pending = FALSE]
     IN  SetHere(s) /\ AfterFinish(s)
  /\ conflict' = TRUE
  /\ UNCHANGED faults

Query ==
  /\ pc.at = "query"
  /\ QuerySettled \/ QueryFails \/ QueryOpen \/ QueryForeign
  /\ UNCHANGED <<memory, workerVars>>

\* Mutant: a failed call counts as done.
ReprotectOnce ==
  /\ pc.at = "reprotect"
  /\ \E ok \in BOOLEAN :
       LET s == [Here EXCEPT !.protection_pending = FALSE]
       IN  /\ Call(ok)
           /\ prot' = IF ok THEN [prot EXCEPT ![PageOf[pc.site]] = s.protection]
                      ELSE prot
           /\ SetHere(s)
           /\ AfterFinish(s)
  /\ UNCHANGED <<word, conflict, workerVars>>

Reprotect ==
  /\ pc.at = "reprotect"
  /\ \E ok \in BOOLEAN :
       LET s == [Here EXCEPT !.protection_pending = ~ok]
       IN  /\ Call(ok)
           /\ prot' = IF ok THEN [prot EXCEPT ![PageOf[pc.site]] = s.protection]
                      ELSE prot
           /\ SetHere(s)
           /\ AfterFinish(s)
  /\ UNCHANGED <<word, conflict, workerVars>>

-----------------------------------------------------------------------------
(* The rest of exchange()                                                  *)

WordUnreadable ==
  /\ IF Executable(Page) THEN Call(FALSE) ELSE UNCHANGED faults
  /\ Leave(FALSE)
  /\ UNCHANGED <<state, conflict>>

WordMismatch ==
  /\ Executable(Page)
  /\ word[pc.site] # Expected
  /\ SetHere([Here EXCEPT !.owned = FALSE])
  /\ conflict' = TRUE
  /\ Leave(FALSE)
  /\ UNCHANGED faults

WordMatches ==
  /\ Executable(Page)
  /\ word[pc.site] = Expected
  /\ pc' = [pc EXCEPT !.at = "region"]
  /\ UNCHANGED <<state, conflict, faults>>

ReadWord ==
  /\ pc.at = "word"
  /\ WordUnreadable \/ WordMismatch \/ WordMatches
  /\ UNCHANGED <<memory, workerVars>>

RegionFails ==
  /\ IF Executable(Page) THEN Call(FALSE) ELSE UNCHANGED faults
  /\ Leave(FALSE)
  /\ UNCHANGED <<state, conflict>>

RegionChanged ==
  /\ Executable(Page)
  /\ ~pc.installing /\ Page # Here.protection
  /\ SetHere(Abandon(Here))
  /\ conflict' = TRUE
  /\ Leave(FALSE)
  /\ UNCHANGED faults

RegionAsSaved ==
  /\ Executable(Page)
  /\ pc.installing \/ Page = Here.protection
  /\ pc' = [pc EXCEPT !.at = "open", !.seen = Page]
  /\ UNCHANGED <<state, conflict, faults>>

ReadRegion ==
  /\ pc.at = "region"
  /\ RegionFails \/ RegionChanged \/ RegionAsSaved
  /\ UNCHANGED <<memory, workerVars>>

OpenFails ==
  /\ Call(FALSE)
  /\ Leave(FALSE)
  /\ UNCHANGED <<state, prot>>

\* Mutant: the page is opened before it is noted as pending.
OpenUntracked ==
  /\ prot' = [prot EXCEPT ![PageOf[pc.site]] = "RWX"]
  /\ SetHere([Here EXCEPT !.protection = Page,
                          !.protection_pending = pc.installing])
  /\ pc' = IF Executable(Page) /\ Page = pc.seen
           THEN [pc EXCEPT !.at = "cas"]
           ELSE [pc EXCEPT !.at = "flush", !.part = "unchanged"]
  /\ UNCHANGED faults

\* VirtualProtect returns the protection it replaced.
Opened ==
  /\ prot' = [prot EXCEPT ![PageOf[pc.site]] = "RWX"]
  /\ SetHere([Here EXCEPT !.protection = Page, !.protection_pending = TRUE])
  /\ pc' = IF Executable(Page) /\ Page = pc.seen
           THEN [pc EXCEPT !.at = "cas"]
           ELSE [pc EXCEPT !.at = "flush", !.part = "unchanged"]
  /\ UNCHANGED faults

Open ==
  /\ pc.at = "open"
  /\ OpenFails \/ Opened
  /\ UNCHANGED <<word, conflict, workerVars>>

\* Mutant: an exchange that faulted counts as one that found another word.
ExchangeFaultsDisowning ==
  /\ IF Page = "RWX" THEN Call(FALSE) ELSE UNCHANGED faults
  /\ SetHere([Here EXCEPT !.owned = FALSE])
  /\ conflict' = TRUE
  /\ pc' = [pc EXCEPT !.at = "flush", !.part = "unchanged"]
  /\ UNCHANGED word

\* The exchange faults when the page is not writable any more.
ExchangeFaults ==
  /\ IF Page = "RWX" THEN Call(FALSE) ELSE UNCHANGED faults
  /\ pc' = [pc EXCEPT !.at = "flush", !.part = "unchanged"]
  /\ UNCHANGED <<word, state, conflict>>

ExchangeMismatch ==
  /\ Page = "RWX"
  /\ word[pc.site] # Expected
  /\ SetHere([Here EXCEPT !.owned = FALSE])
  /\ conflict' = TRUE
  /\ pc' = [pc EXCEPT !.at = "flush", !.part = "unchanged"]
  /\ UNCHANGED <<word, faults>>

\* Mutant: a plain store instead of the conditional exchange.
StoreWord ==
  /\ Page = "RWX"
  /\ word' = [word EXCEPT ![pc.site] = Desired]
  /\ SetHere([Here EXCEPT !.owned = pc.installing, !.flush_pending = TRUE])
  /\ pc' = [pc EXCEPT !.at = "flush", !.part = "changed"]
  /\ UNCHANGED <<conflict, faults>>

ExchangeWord ==
  /\ Page = "RWX"
  /\ word[pc.site] = Expected
  /\ word' = [word EXCEPT ![pc.site] = Desired]
  /\ SetHere([Here EXCEPT !.owned = pc.installing, !.flush_pending = TRUE])
  /\ pc' = [pc EXCEPT !.at = "flush", !.part = "changed"]
  /\ UNCHANGED <<conflict, faults>>

CompareExchange ==
  /\ pc.at = "cas"
  /\ ExchangeFaults \/ ExchangeMismatch \/ ExchangeWord
  /\ UNCHANGED <<prot, workerVars>>

-----------------------------------------------------------------------------
(* install(), restore() and the worker                                     *)

\* Evidence and words are read first; nothing is written when one differs.
\* The plan itself is taken as valid.
Install ==
  /\ pc.at = "install"
  /\ \/ /\ \A s \in Sites : word[s] = "expected" /\ Executable(prot[PageOf[s]])
        /\ pc' = FinishOf(1, TRUE, "before", "check")
        /\ UNCHANGED faults
     \/ /\ \E s \in Sites : word[s] # "expected" \/ ~Executable(prot[PageOf[s]])
        /\ pc' = At("check")
        /\ UNCHANGED faults
     \/ /\ Call(FALSE)
        /\ pc' = At("check")
  /\ UNCHANGED <<memory, state, conflict, workerVars>>

\* Mutant: only owned words are looked at.
RestoreOwned ==
  /\ pc.at = "restore"
  /\ pc' = IF pc.site = 0 THEN At(pc.then)
           ELSE IF state[pc.site].owned
           THEN FinishOf(pc.site, FALSE, "before", pc.then)
           ELSE RestoreAt(pc.site - 1, pc.then)
  /\ UNCHANGED <<memory, state, conflict, workerVars, faults>>

\* The loop of restore(), from the last site to the first.
Restore ==
  /\ pc.at = "restore"
  /\ pc' = IF pc.site = 0 THEN At(pc.then)
           ELSE FinishOf(pc.site, FALSE,
                         IF state[pc.site].owned THEN "before" ELSE "only",
                         pc.then)
  /\ UNCHANGED <<memory, state, conflict, workerVars, faults>>

\* The loop of worker(): words that changed disable the patch ...
WatchIntact ==
  /\ pc.at = "check"
  /\ \E ok \in BOOLEAN :
       /\ (layoutDisabled \/ ~Installed \/ ~Intact) => ok
       /\ Call(ok)
       /\ IF ~layoutDisabled /\ Installed /\ ~(Intact /\ ok)
          THEN layoutDisabled' = TRUE /\ pc' = RestoreAt(NumSites, "retry")
          ELSE UNCHANGED layoutDisabled /\ pc' = At("retry")
  /\ UNCHANGED <<memory, state, conflict, attempts>>

RestoreWanted ==
  /\ ~enabled \/ layoutDisabled \/ ~Installed
  /\ HasPending
  /\ attempts < MaxAttempts

\* ... and what is left over is restored, at most once a second.
RetryRestore ==
  /\ pc.at = "retry"
  /\ RestoreWanted
  /\ attempts' = attempts + 1
  /\ pc' = RestoreAt(NumSites, "check")
  /\ UNCHANGED <<memory, state, conflict, layoutDisabled, faults>>

SkipRestore ==
  /\ pc.at = "retry"
  /\ pc' = At("check")
  /\ UNCHANGED <<memory, state, conflict, workerVars, faults>>

Worker ==
  /\ \/ Flush \/ Query \/ Reprotect
     \/ ReadWord \/ ReadRegion \/ Open \/ CompareExchange
     \/ Install \/ Restore \/ WatchIntact \/ RetryRestore \/ SkipRestore
  /\ UNCHANGED environment

-----------------------------------------------------------------------------
(* The rest of the process                                                 *)

BridgeDisabled ==
  /\ enabled
  /\ enabled' = FALSE
  /\ UNCHANGED <<memory, state, conflict, pc, workerVars, faults, foreign,
                 touched>>

ForeignWord(s, w) ==
  /\ foreign < MaxForeign
  /\ word[s] # w
  /\ foreign' = foreign + 1
  /\ word' = [word EXCEPT ![s] = w]
  /\ UNCHANGED <<prot, state, conflict, pc, enabled, workerVars, faults,
                 touched>>

ForeignProtection(p, protection) ==
  /\ foreign < MaxForeign
  /\ prot[p] # protection
  /\ foreign' = foreign + 1
  /\ touched' = touched \cup {p}
  /\ prot' = [prot EXCEPT ![p] = protection]
  /\ UNCHANGED <<word, state, conflict, pc, enabled, workerVars, faults>>

\* Another writer restores or replaces words, but never writes this patch's.
Foreign ==
  \/ \E s \in Sites, w \in {"expected", "other"} : ForeignWord(s, w)
  \/ \E p \in Pages, protection \in Protections : ForeignProtection(p, protection)

Init ==
  /\ word = [s \in Sites |-> "expected"]
  /\ prot = [p \in Pages |-> "RX"]
  /\ state = [s \in Sites |-> FreshState]
  /\ conflict = FALSE
  /\ pc = At("install")
  /\ enabled = TRUE
  /\ layoutDisabled = FALSE
  /\ attempts = 0
  /\ faults = 0
  /\ foreign = 0
  /\ touched = {}

Next == Worker \/ BridgeDisabled \/ Foreign

Spec == Init /\ [][Next]_vars

\* The worker keeps looping, and a second passes again and again.
LiveSpec == Spec /\ WF_vars(Worker) /\ SF_vars(RetryRestore /\ UNCHANGED environment)

-----------------------------------------------------------------------------
(* Properties                                                              *)

InLoop == pc.at \in {"check", "retry"}

SiteStates ==
  [owned : BOOLEAN, protection_pending : BOOLEAN, flush_pending : BOOLEAN,
   abandoned : BOOLEAN, protection : Protections \cup {"none"}]

Calls == {"flush", "query", "reprotect", "word", "region", "open", "cas"}

Locations ==
  [at : {"install", "check", "retry"}]
    \cup [at : {"restore"}, site : 0..NumSites, then : {"check", "retry"}]
    \cup [at : Calls, site : Sites, installing : BOOLEAN,
          part : {"before", "only", "changed", "unchanged"},
          seen : Protections \cup {"none"}, then : {"check", "retry"}]

\* Every variable has its type, and the counters stay within their bounds.
TypeOK ==
  /\ word \in [Sites -> Words]
  /\ prot \in [Pages -> Protections]
  /\ state \in [Sites -> SiteStates]
  /\ conflict \in BOOLEAN
  /\ pc \in Locations
  /\ enabled \in BOOLEAN
  /\ layoutDisabled \in BOOLEAN
  /\ attempts \in 0..MaxAttempts
  /\ faults \in 0..MaxFaults
  /\ foreign \in 0..MaxForeign
  /\ touched \subseteq Pages

\* A replaced word is owned, so that it will be put back, unless its page was
\* abandoned to somebody else.
ReplacedWordsAreTracked ==
  \A s \in Sites :
    word[s] = "replacement" => state[s].owned \/ state[s].abandoned

\* A page this patch opened, and nobody else has set, is one it still means
\* to close.
OpenPagesAreTracked ==
  \A p \in Pages \ touched :
    prot[p] # "RX" =>
      \E s \in Sites : PageOf[s] = p /\ state[s].protection_pending

\* A site is abandoned only when somebody else has set its page: failed calls
\* alone never strand a replaced word.
AbandonedOnlyToOthers ==
  \A s \in Sites : state[s].abandoned => PageOf[s] \in touched

\* When nothing is pending and no conflict was seen, the code is the
\* original code again: what restore() = true promises.
CleanWhenDone ==
  (InLoop /\ ~HasPending /\ ~conflict) =>
     /\ \A s \in Sites : word[s] # "replacement"
     /\ \A p \in Pages \ touched : prot[p] = "RX"

\* The patch never changes a word another writer has put there.
ForeignWordsKept ==
  [][\A s \in Sites :
       (word[s] = "other" /\ foreign' = foreign) => word'[s] = word[s]]_vars

\* Once the bridge is disabled the original words and protections return, if
\* fewer calls fail than there are attempts and nobody else writes there.
OriginalCodeReturns ==
  ~enabled ~> \/ /\ word = [s \in Sites |-> "expected"]
                 /\ prot = [p \in Pages |-> "RX"]
              \/ foreign > 0
=============================================================================
