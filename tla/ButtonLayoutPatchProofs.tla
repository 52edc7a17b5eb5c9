----------------------- MODULE ButtonLayoutPatchProofs -----------------------
(***************************************************************************)
(* Proofs about ButtonLayoutPatch for every number of sites, every         *)
(* placement of sites on pages and every bound.                            *)
(***************************************************************************)
EXTENDS ButtonLayoutPatch, TLAPS

Calling == pc.at \in Calls

\* What the worker knows about the site it is working on.
SiteInHand ==
  Calling =>
    /\ pc.at \in {"word", "region", "open", "cas"} => pc.part = "before"
    /\ pc.at \in {"word", "region", "open"} =>
         ~Here.protection_pending /\ ~Here.flush_pending
    /\ pc.at \in {"reprotect", "cas"} => Here.protection_pending
    /\ (pc.part = "before" /\ ~pc.installing) => Here.owned
    /\ (pc.at = "open" /\ PageOf[pc.site] \notin touched) => Page = "RX"

Untried(s) == word[s] # "replacement" /\ state[s] = FreshState

\* Before install() nothing is replaced; while it runs, earlier sites are
\* complete and later ones untried.
InstallingInOrder ==
  /\ pc.at = "install" => \A s \in Sites : Untried(s)
  /\ (Calling /\ pc.installing) =>
       /\ \A s \in Sites : s > pc.site => Untried(s)
       /\ \A s \in Sites : s < pc.site =>
            ~state[s].protection_pending /\ ~state[s].flush_pending
       /\ pc.part = "before" => word[pc.site] # "replacement"

\* A pending site has a saved protection; that of a page nobody else has set
\* is the original one.
SavedIsOriginal ==
  /\ \A s \in Sites : state[s].protection_pending =>
       state[s].protection \in Protections
  /\ \A s \in Sites :
       (PageOf[s] \notin touched /\ (state[s].protection_pending \/ state[s].owned))
         => state[s].protection = "RX"
  /\ \A p \in Pages \ touched : prot[p] \in {"RX", "RWX"}

AbandonedInConflict == \A s \in Sites : state[s].abandoned => conflict

IInv ==
  /\ TypeOK
  /\ SiteInHand
  /\ InstallingInOrder
  /\ SavedIsOriginal
  /\ AbandonedInConflict
  /\ ReplacedWordsAreTracked
  /\ OpenPagesAreTracked

-----------------------------------------------------------------------------
\* Inside a call the worker has a site, a mode and a way back.
LEMMA CallFields ==
  ASSUME pc \in Locations, pc.at \in Calls
  PROVE  /\ pc.site \in Sites
         /\ pc.installing \in BOOLEAN
         /\ pc.part \in {"before", "only", "changed", "unchanged"}
         /\ pc.seen \in Protections \cup {"none"}
         /\ pc.then \in {"check", "retry"}
         /\ pc = [at |-> pc.at, site |-> pc.site, installing |-> pc.installing,
                  part |-> pc.part, seen |-> pc.seen, then |-> pc.then]
  BY DEF Locations, Calls

\* Leave goes back to the loop, on to the next site, or into a restore.
LEMMA LeaveGoes ==
  ASSUME pc \in Locations, pc.at \in Calls, NEW result \in BOOLEAN,
         Leave(result)
  PROVE  \/ \E k \in 0..NumSites : pc' = RestoreAt(k, pc.then)
         \/ /\ pc.installing /\ result /\ pc.site + 1 \in Sites
            /\ pc' = FinishOf(pc.site + 1, TRUE, "before", pc.then)
         \/ pc' = At(pc.then)
<1>1. pc.site \in 1..NumSites /\ NumSites \in Nat /\ pc.installing \in BOOLEAN
  BY CallFields, SitesAssumption DEF Sites
<1>2. CASE ~pc.installing
  <2>1. pc.site - 1 \in 0..NumSites
    BY <1>1
  <2>2. pc' = RestoreAt(pc.site - 1, pc.then)
    BY <1>2 DEF Leave
  <2> QED
    BY <2>1, <2>2
<1>3. CASE pc.installing /\ ~result
  <2>1. NumSites \in 0..NumSites
    BY <1>1
  <2>2. pc' = RestoreAt(NumSites, pc.then)
    BY <1>3 DEF Leave
  <2> QED
    BY <2>1, <2>2
<1>4. CASE pc.installing /\ result /\ pc.site < NumSites
  <2>1. pc.site + 1 \in Sites
    BY <1>1, <1>4 DEF Sites
  <2>2. pc' = FinishOf(pc.site + 1, TRUE, "before", pc.then)
    BY <1>4 DEF Leave
  <2> QED
    BY <1>4, <2>1, <2>2
<1>5. CASE pc.installing /\ result /\ ~(pc.site < NumSites)
  BY <1>5 DEF Leave
<1> QED
  BY <1>2, <1>3, <1>4, <1>5, <1>1

\* ... which are locations.
LEMMA LeaveType ==
  ASSUME pc \in Locations, pc.at \in Calls, NEW result \in BOOLEAN,
         Leave(result)
  PROVE  pc' \in Locations
<1>1. CASE \E k \in 0..NumSites : pc' = RestoreAt(k, pc.then)
  BY <1>1, CallFields DEF Locations, RestoreAt
<1>2. CASE /\ pc.site + 1 \in Sites
           /\ pc' = FinishOf(pc.site + 1, TRUE, "before", pc.then)
  BY <1>2, CallFields DEF Locations, FinishOf, Calls
<1>3. CASE pc' = At(pc.then)
  BY <1>3, CallFields DEF Locations, At
<1> QED
  BY <1>1, <1>2, <1>3, LeaveGoes

\* After Leave the worker holds no site, or takes up the next one in order.
LEMMA LeaveControl ==
  ASSUME pc \in Locations, pc.at \in Calls, NEW result \in BOOLEAN,
         Leave(result),
         (pc.installing /\ result) =>
           \A s \in Sites :
             /\ s > pc.site => word'[s] # "replacement" /\ state'[s] = FreshState
             /\ s <= pc.site => /\ ~state'[s].protection_pending
                               /\ ~state'[s].flush_pending
  PROVE  pc' \in Locations /\ SiteInHand' /\ InstallingInOrder'
<1>1. pc' \in Locations
  BY LeaveType
<1>2. CASE \E k \in 0..NumSites : pc' = RestoreAt(k, pc.then)
  BY <1>1, <1>2 DEF RestoreAt, SiteInHand, InstallingInOrder, Calling, Calls
<1>3. CASE pc' = At(pc.then)
  BY <1>1, <1>3, CallFields DEF At, SiteInHand, InstallingInOrder, Calling, Calls
<1>4. CASE /\ pc.installing /\ result /\ pc.site + 1 \in Sites
           /\ pc' = FinishOf(pc.site + 1, TRUE, "before", pc.then)
  <2>1. /\ pc'.at = "flush" /\ pc'.site = pc.site + 1 /\ pc'.installing = TRUE
        /\ pc'.part = "before"
    BY <1>4 DEF FinishOf
  <2>2. SiteInHand'
    BY <2>1 DEF SiteInHand, Calling, Calls
  <2>3. pc.site \in Nat /\ \A s \in Sites : s \in Nat
    BY CallFields, SitesAssumption DEF Sites
  <2>4. \A s \in Sites : s > pc.site + 1 => s > pc.site
    BY <2>3
  <2>5. \A s \in Sites : s < pc.site + 1 => s <= pc.site
    BY <2>3
  <2>6. pc.site + 1 > pc.site
    BY <2>3
  <2> QED
    BY <1>1, <1>4, <2>1, <2>2, <2>4, <2>5, <2>6
    DEF InstallingInOrder, Calling, Calls, Untried
<1> QED
  BY <1>2, <1>3, <1>4, LeaveGoes

\* finish() hands over to the rest of exchange() with the site settled, or
\* leaves.
LEMMA FinishControl ==
  ASSUME TypeOK, Calling, SiteInHand, InstallingInOrder,
         NEW s \in SiteStates, AfterFinish(s),
         state' = [state EXCEPT ![pc.site] = s], word' = word,
         (pc.part = "before" /\ ~pc.installing /\ ~s.abandoned) => s.owned
  PROVE  pc' \in Locations /\ SiteInHand' /\ InstallingInOrder'
<1> DEFINE complete == ~s.flush_pending /\ ~s.protection_pending
<1>1. /\ pc \in Locations /\ pc.at \in Calls /\ pc.site \in Sites
      /\ pc.installing \in BOOLEAN
      /\ pc.part \in {"before", "only", "changed", "unchanged"}
      /\ state' = [state EXCEPT ![pc.site] = s] /\ state'[pc.site] = s
      /\ \A x \in Sites \ {pc.site} : state'[x] = state[x]
  BY CallFields DEF TypeOK, Calling
<1>2. complete \in BOOLEAN
  BY DEF SiteStates
<1>3. CASE pc.part = "before" /\ complete /\ ~s.abandoned
  <2>1. pc' = [pc EXCEPT !.at = "word"]
    BY <1>3 DEF AfterFinish
  <2>2. pc' = [at |-> "word", site |-> pc.site, installing |-> pc.installing,
               part |-> pc.part, seen |-> pc.seen, then |-> pc.then]
    BY <2>1, <1>1, CallFields
  <2>3. pc' \in Locations
    BY <2>2, <1>1, CallFields DEF Locations, Calls
  <2>4. SiteInHand'
    BY <2>2, <1>1, <1>3 DEF SiteInHand, Calling, Calls, Here
  <2>5. InstallingInOrder'
    <3>1. \A x \in Sites : (x > pc.site \/ x < pc.site) => x # pc.site
      BY <1>1, SitesAssumption DEF Sites
    <3> QED
      BY <2>2, <1>1, <3>1
      DEF InstallingInOrder, Calling, Calls, Untried
  <2> QED
    BY <2>3, <2>4, <2>5
<1>4. CASE ~(pc.part = "before" /\ complete /\ ~s.abandoned)
  <2>1. Leave(pc.part = "changed" /\ complete)
    BY <1>4 DEF AfterFinish
  <2>2. (pc.part = "changed" /\ complete) \in BOOLEAN
    OBVIOUS
  <2>3. ASSUME pc.installing, complete, NEW x \in Sites
        PROVE  /\ x > pc.site => word'[x] # "replacement" /\ state'[x] = FreshState
               /\ x <= pc.site => /\ ~state'[x].protection_pending
                                 /\ ~state'[x].flush_pending
    <3>1. x \in Nat /\ pc.site \in Nat
      BY <1>1, SitesAssumption DEF Sites
    <3>2. CASE x = pc.site
      BY <1>1, <2>3, <3>1, <3>2
    <3>3. CASE x # pc.site
      <4>1. state'[x] = state[x] /\ (x <= pc.site => x < pc.site)
        BY <1>1, <3>1, <3>3
      <4> QED
        BY <2>3, <4>1 DEF InstallingInOrder, Untried, Calling
    <3> QED
      BY <3>2, <3>3
  <2> HIDE DEF complete
  <2> QED
    BY <1>1, <2>1, <2>2, <2>3, LeaveControl
<1> QED
  BY <1>3, <1>4

\* A failed call stays within the bound.
LEMMA CallBound ==
  ASSUME TypeOK, NEW ok \in BOOLEAN, Call(ok)
  PROVE  faults' \in 0..MaxFaults
  BY BoundsAssumption DEF TypeOK, Call

\* The parts of the invariant that are not about control, for a step that
\* touches one site, its word and its page.
LEMMA OneSiteStep ==
  ASSUME IInv, NEW x \in Sites, NEW s \in SiteStates,
         UNCHANGED touched,
         state' = [state EXCEPT ![x] = s],
         word' \in [Sites -> Words], prot' \in [Pages -> Protections],
         \A y \in Sites \ {x} : word'[y] = word[y],
         \A p \in Pages \ {PageOf[x]} : prot'[p] = prot[p],
         conflict' \in BOOLEAN, conflict => conflict',
         s.abandoned => conflict',
         word'[x] = "replacement" => s.owned \/ s.abandoned,
         s.protection_pending => s.protection \in Protections,
         PageOf[x] \notin touched =>
           /\ (s.protection_pending \/ s.owned) => s.protection = "RX"
           /\ prot'[PageOf[x]] \in {"RX", "RWX"}
           /\ \/ prot'[PageOf[x]] = "RX"
              \/ s.protection_pending
              \/ /\ prot'[PageOf[x]] = prot[PageOf[x]]
                 /\ ~state[x].protection_pending
  PROVE  /\ state' \in [Sites -> SiteStates]
         /\ SavedIsOriginal' /\ AbandonedInConflict'
         /\ ReplacedWordsAreTracked' /\ OpenPagesAreTracked'
<1>1. /\ state \in [Sites -> SiteStates] /\ state' \in [Sites -> SiteStates]
      /\ state'[x] = s /\ \A y \in Sites \ {x} : state'[y] = state[y]
      /\ touched' = touched /\ PageOf[x] \in Pages
  BY PagesAssumption DEF IInv, TypeOK
<1>2. SavedIsOriginal'
  <2>1. ASSUME NEW y \in Sites, PageOf[y] \notin touched,
               state'[y].protection_pending \/ state'[y].owned
        PROVE  state'[y].protection = "RX"
    <3>1. CASE y = x
      BY <1>1, <2>1, <3>1
    <3>2. CASE y # x
      BY <1>1, <2>1, <3>2 DEF IInv, SavedIsOriginal
    <3> QED
      BY <3>1, <3>2
  <2>2. ASSUME NEW p \in Pages \ touched
        PROVE  prot'[p] \in {"RX", "RWX"}
    BY <1>1 DEF IInv, SavedIsOriginal
  <2>3. ASSUME NEW y \in Sites, state'[y].protection_pending
        PROVE  state'[y].protection \in Protections
    BY <1>1, <2>3 DEF IInv, SavedIsOriginal
  <2> QED
    BY <1>1, <2>1, <2>2, <2>3 DEF SavedIsOriginal
<1>3. AbandonedInConflict'
  BY <1>1 DEF IInv, AbandonedInConflict
<1>4. ReplacedWordsAreTracked'
  BY <1>1 DEF IInv, ReplacedWordsAreTracked
<1>5. OpenPagesAreTracked'
  <2>1. SUFFICES ASSUME NEW p \in Pages \ touched, prot'[p] # "RX"
                 PROVE  \E y \in Sites : PageOf[y] = p /\ state'[y].protection_pending
    BY <1>1 DEF OpenPagesAreTracked
  <2>2. CASE p = PageOf[x] /\ s.protection_pending
    BY <1>1, <2>2
  <2>3. CASE p # PageOf[x] \/ ~s.protection_pending
    <3>1. prot[p] # "RX" /\ (p = PageOf[x] => ~state[x].protection_pending)
      BY <2>1, <2>3
    <3>2. PICK y \in Sites : PageOf[y] = p /\ state[y].protection_pending
      BY <3>1 DEF IInv, OpenPagesAreTracked
    <3> QED
      BY <1>1, <3>1, <3>2
  <2> QED
    BY <2>2, <2>3
<1> QED
  BY <1>1, <1>2, <1>3, <1>4, <1>5

\* The facts every call starts from.
LEMMA CallStart ==
  ASSUME IInv, pc.at \in Calls
  PROVE  /\ TypeOK /\ Calling /\ SiteInHand /\ InstallingInOrder
         /\ pc \in Locations /\ pc.site \in Sites /\ pc.installing \in BOOLEAN
         /\ state[pc.site] \in SiteStates
         /\ Here = state[pc.site] /\ Page = prot[PageOf[pc.site]]
         /\ PageOf[pc.site] \in Pages /\ Page \in Protections
         /\ Here.abandoned => conflict
         /\ Here.protection_pending => Here.protection \in Protections
         /\ word[pc.site] = "replacement" => Here.owned \/ Here.abandoned
         /\ PageOf[pc.site] \notin touched =>
              /\ (Here.protection_pending \/ Here.owned) => Here.protection = "RX"
              /\ Page \in {"RX", "RWX"}
  BY CallFields, PagesAssumption
  DEF IInv, TypeOK, Calling, Here, Page, SavedIsOriginal, AbandonedInConflict,
      ReplacedWordsAreTracked

-----------------------------------------------------------------------------
(* One lemma per step of the worker.                                       *)

\* FlushInstructionCache in finish() keeps the invariant.
LEMMA FlushInv == IInv /\ Flush /\ UNCHANGED environment => IInv'
<1> SUFFICES ASSUME IInv, Flush, UNCHANGED environment PROVE IInv'
  OBVIOUS
<1>1. PICK ok \in BOOLEAN :
        /\ ~Here.flush_pending => ok
        /\ Call(ok)
        /\ state' = [state EXCEPT ![pc.site] =
                       [Here EXCEPT !.flush_pending = ~ok]]
  BY DEF Flush, SetHere
<1> DEFINE s == [Here EXCEPT !.flush_pending = ~ok]
<1>2. /\ pc.at = "flush" /\ pc' = [pc EXCEPT !.at = "query"]
      /\ UNCHANGED <<word, prot, conflict, workerVars, environment>>
  BY DEF Flush, memory
<1>3. pc.at \in Calls
  BY <1>2 DEF Calls
<1>4. /\ s \in SiteStates
      /\ s.owned = Here.owned /\ s.abandoned = Here.abandoned
      /\ s.protection = Here.protection
      /\ s.protection_pending = Here.protection_pending
      /\ s.flush_pending = ~ok
  BY <1>3, CallStart DEF SiteStates
<1>5. pc' = [at |-> "query", site |-> pc.site, installing |-> pc.installing,
             part |-> pc.part, seen |-> pc.seen, then |-> pc.then]
  BY <1>2, <1>3, CallStart, CallFields
<1>6. pc' \in Locations
  BY <1>5, <1>3, CallStart, CallFields DEF Locations, Calls
<1>7. SiteInHand' /\ InstallingInOrder'
  <2>1. /\ pc.site \in Sites /\ state'[pc.site] = s
        /\ \A y \in Sites \ {pc.site} : state'[y] = state[y]
    BY <1>1, <1>3, CallStart DEF TypeOK
  <2>2. \A y \in Sites : (y > pc.site \/ y < pc.site) => y # pc.site
    BY <2>1, SitesAssumption DEF Sites
  <2>3. SiteInHand'
    BY <1>2, <1>3, <1>4, <1>5, <2>1, CallStart DEF SiteInHand, Calling, Here, Page
  <2>4. InstallingInOrder'
    BY <1>2, <1>3, <1>5, <2>1, <2>2, CallStart
    DEF InstallingInOrder, Calling, Calls, Untried
  <2> QED
    BY <2>3, <2>4
<1>8. /\ state' \in [Sites -> SiteStates]
      /\ SavedIsOriginal' /\ AbandonedInConflict'
      /\ ReplacedWordsAreTracked' /\ OpenPagesAreTracked'
  BY <1>1, <1>2, <1>3, <1>4, CallStart, OneSiteStep
  DEF environment, TypeOK
<1>9. TypeOK'
  BY <1>1, <1>2, <1>3, <1>6, <1>8, CallStart, CallBound
  DEF TypeOK, environment, workerVars
<1> QED
  BY <1>6, <1>7, <1>8, <1>9 DEF IInv

\* A step of finish() that settles the site in state s and goes on from there.
LEMMA FinishStep ==
  ASSUME IInv, pc.at \in Calls, NEW s \in SiteStates, AfterFinish(s),
         UNCHANGED <<environment, workerVars, word>>,
         state' = [state EXCEPT ![pc.site] = s],
         prot' \in [Pages -> Protections],
         \A p \in Pages \ {PageOf[pc.site]} : prot'[p] = prot[p],
         conflict' \in BOOLEAN, conflict => conflict',
         faults' \in 0..MaxFaults,
         (pc.part = "before" /\ ~pc.installing /\ ~s.abandoned) => s.owned,
         Here.owned => s.owned \/ s.abandoned,
         s.owned => Here.owned,
         Here.abandoned => s.abandoned,
         s.abandoned => conflict',
         s.protection = Here.protection,
         s.protection_pending => Here.protection_pending,
         PageOf[pc.site] \notin touched =>
           /\ prot'[PageOf[pc.site]] \in {"RX", "RWX"}
           /\ \/ prot'[PageOf[pc.site]] = "RX"
              \/ s.protection_pending
              \/ /\ prot'[PageOf[pc.site]] = prot[PageOf[pc.site]]
                 /\ ~Here.protection_pending
  PROVE  IInv'
<1>1. pc' \in Locations /\ SiteInHand' /\ InstallingInOrder'
  BY CallStart, FinishControl
<1>2. word' \in [Sites -> Words] /\ UNCHANGED touched
  BY CallStart DEF TypeOK, environment
<1>3. /\ word'[pc.site] = "replacement" => s.owned \/ s.abandoned
      /\ \A y \in Sites \ {pc.site} : word'[y] = word[y]
  BY CallStart
<1>4. /\ PageOf[pc.site] \notin touched =>
           ((s.protection_pending \/ s.owned) => s.protection = "RX")
      /\ s.protection_pending => s.protection \in Protections
  BY CallStart
<1>5. pc.site \in Sites /\ Here = state[pc.site]
  BY CallStart
<1>6. /\ state' \in [Sites -> SiteStates]
      /\ SavedIsOriginal' /\ AbandonedInConflict'
      /\ ReplacedWordsAreTracked' /\ OpenPagesAreTracked'
  BY <1>2, <1>3, <1>4, <1>5, OneSiteStep
<1>7. TypeOK'
  BY <1>1, <1>2, <1>6, CallStart DEF TypeOK, environment, workerVars
<1> QED
  BY <1>1, <1>6, <1>7 DEF IInv

\* VirtualQuery in finish() keeps the invariant, whatever it finds.
LEMMA QueryInv == IInv /\ Query /\ UNCHANGED environment => IInv'
<1> SUFFICES ASSUME IInv, Query, UNCHANGED environment PROVE IInv'
  OBVIOUS
<1>1. /\ pc.at = "query" /\ pc.at \in Calls
      /\ UNCHANGED <<word, prot, workerVars, environment>>
      /\ prot' \in [Pages -> Protections]
  BY DEF Query, Calls, memory, IInv, TypeOK
<1>2. /\ (pc.part = "before" /\ ~pc.installing) => Here.owned
      /\ conflict \in BOOLEAN /\ faults \in 0..MaxFaults
      /\ Here \in SiteStates
  BY <1>1, CallStart DEF SiteInHand, TypeOK
<1>3. CASE QuerySettled
  <2> DEFINE s == [Here EXCEPT !.protection_pending = FALSE]
  <2>1. /\ s \in SiteStates
        /\ s.owned = Here.owned /\ s.abandoned = Here.abandoned
        /\ s.protection = Here.protection /\ ~s.protection_pending
    BY <1>2 DEF SiteStates
  <2>2. /\ AfterFinish(s) /\ state' = [state EXCEPT ![pc.site] = s]
        /\ ~Here.protection_pending \/ Page = Here.protection
        /\ UNCHANGED <<faults, conflict>>
    BY <1>3 DEF QuerySettled, SetHere
  <2> HIDE DEF s
  <2> QED
    BY <1>1, <1>2, <2>1, <2>2, CallStart, FinishStep
<1>4. CASE QueryFails
  <2>1. /\ AfterFinish(Here) /\ state' = [state EXCEPT ![pc.site] = Here]
        /\ UNCHANGED conflict /\ Call(FALSE) /\ Here.protection_pending
    BY <1>1, <1>4, CallStart DEF QueryFails, TypeOK
  <2>2. faults' \in 0..MaxFaults
    BY <1>1, <2>1, CallStart, CallBound
  <2> QED
    BY <1>1, <1>2, <2>1, <2>2, CallStart, FinishStep
<1>5. CASE QueryOpen
  <2>1. /\ pc' = [pc EXCEPT !.at = "reprotect"] /\ Here.protection_pending
        /\ UNCHANGED <<state, faults, conflict>>
    BY <1>5 DEF QueryOpen
  <2>2. pc' = [at |-> "reprotect", site |-> pc.site,
               installing |-> pc.installing, part |-> pc.part,
               seen |-> pc.seen, then |-> pc.then]
    BY <2>1, <1>1, CallStart, CallFields
  <2>3. pc' \in Locations
    BY <2>2, <1>1, CallStart, CallFields DEF Locations, Calls
  <2>4. SiteInHand' /\ InstallingInOrder'
    BY <1>1, <2>1, <2>2, CallStart
    DEF SiteInHand, InstallingInOrder, Calling, Calls, Here, Page, Untried
  <2>5. TypeOK' /\ SavedIsOriginal' /\ AbandonedInConflict'
        /\ ReplacedWordsAreTracked' /\ OpenPagesAreTracked'
    BY <1>1, <2>1, <2>3
    DEF IInv, TypeOK, SavedIsOriginal, AbandonedInConflict,
        ReplacedWordsAreTracked, OpenPagesAreTracked, environment, workerVars
  <2> QED
    BY <2>3, <2>4, <2>5 DEF IInv
<1>6. CASE QueryForeign
  <2> DEFINE s == [Abandon(Here) EXCEPT !.protection_pending = FALSE]
  <2>1. /\ s \in SiteStates
        /\ ~s.owned /\ s.abandoned
        /\ s.protection = Here.protection /\ ~s.protection_pending
    BY <1>2 DEF SiteStates, Abandon
  <2>2. /\ AfterFinish(s) /\ state' = [state EXCEPT ![pc.site] = s]
        /\ Page \notin {"RWX", Here.protection} /\ Here.protection_pending
        /\ conflict' = TRUE /\ UNCHANGED faults
    BY <1>6 DEF QueryForeign, SetHere
  <2>3. PageOf[pc.site] \in touched
    BY <1>1, <2>2, CallStart
  <2> HIDE DEF s
  <2> QED
    BY <1>1, <1>2, <2>1, <2>2, <2>3, CallStart, FinishStep
<1> QED
  BY <1>3, <1>4, <1>5, <1>6 DEF Query

\* VirtualProtect in finish() keeps the invariant, whether it works or not.
LEMMA ReprotectInv == IInv /\ Reprotect /\ UNCHANGED environment => IInv'
<1> SUFFICES ASSUME IInv, Reprotect, UNCHANGED environment PROVE IInv'
  OBVIOUS
<1> DEFINE s(ok) == [Here EXCEPT !.protection_pending = ~ok]
<1>1. PICK ok \in BOOLEAN :
        /\ Call(ok)
        /\ prot' = IF ok
                   THEN [prot EXCEPT ![PageOf[pc.site]] = s(ok).protection]
                   ELSE prot
        /\ state' = [state EXCEPT ![pc.site] = s(ok)]
        /\ AfterFinish(s(ok))
  BY DEF Reprotect, SetHere
<1>2. /\ pc.at = "reprotect" /\ pc.at \in Calls
      /\ UNCHANGED <<word, conflict, workerVars, environment>>
  BY DEF Reprotect, Calls
<1>3. /\ Here.protection_pending
      /\ (pc.part = "before" /\ ~pc.installing) => Here.owned
      /\ conflict \in BOOLEAN /\ faults' \in 0..MaxFaults
      /\ Here \in SiteStates
  BY <1>1, <1>2, CallStart, CallBound DEF SiteInHand, TypeOK
<1>4. /\ s(ok) \in SiteStates
      /\ s(ok).owned = Here.owned /\ s(ok).abandoned = Here.abandoned
      /\ s(ok).protection = Here.protection
      /\ s(ok).protection_pending = ~ok
  BY <1>3 DEF SiteStates
<1>5. Here.protection \in Protections
  BY <1>2, <1>3, CallStart
<1>6. /\ prot' \in [Pages -> Protections]
      /\ \A p \in Pages \ {PageOf[pc.site]} : prot'[p] = prot[p]
  BY <1>1, <1>2, <1>4, <1>5, CallStart DEF TypeOK
<1>7. PageOf[pc.site] \notin touched =>
        /\ prot'[PageOf[pc.site]] \in {"RX", "RWX"}
        /\ prot'[PageOf[pc.site]] = "RX" \/ s(ok).protection_pending
  BY <1>1, <1>2, <1>3, <1>4, CallStart DEF TypeOK
<1> HIDE DEF s
<1> QED
  BY <1>1, <1>2, <1>3, <1>4, <1>6, <1>7, CallStart, FinishStep

\* A step that gives exchange() up with FALSE, the site in state s.
LEMMA LeaveStep ==
  ASSUME IInv, pc.at \in Calls, NEW s \in SiteStates, Leave(FALSE),
         UNCHANGED <<environment, workerVars, word, prot>>,
         state' = [state EXCEPT ![pc.site] = s],
         conflict' \in BOOLEAN, conflict => conflict',
         faults' \in 0..MaxFaults,
         s.owned => Here.owned,
         s.abandoned => conflict',
         s.protection = Here.protection,
         s.protection_pending = Here.protection_pending,
         word[pc.site] = "replacement" => s.owned \/ s.abandoned
  PROVE  IInv'
<1>1. pc' \in Locations /\ SiteInHand' /\ InstallingInOrder'
  BY CallStart, LeaveControl
<1>2. /\ word' \in [Sites -> Words] /\ prot' \in [Pages -> Protections]
      /\ word' = word /\ prot' = prot /\ UNCHANGED touched
  BY CallStart DEF TypeOK, environment
<1>3. pc.site \in Sites /\ Here = state[pc.site] /\ Page = prot[PageOf[pc.site]]
  BY CallStart
<1>4. /\ PageOf[pc.site] \notin touched =>
           /\ (s.protection_pending \/ s.owned) => s.protection = "RX"
           /\ prot'[PageOf[pc.site]] \in {"RX", "RWX"}
      /\ s.protection_pending => s.protection \in Protections
  BY <1>2, CallStart
<1>5. \/ prot'[PageOf[pc.site]] = "RX"
      \/ s.protection_pending
      \/ /\ prot'[PageOf[pc.site]] = prot[PageOf[pc.site]]
         /\ ~state[pc.site].protection_pending
  BY <1>2, <1>3
<1>6. /\ state' \in [Sites -> SiteStates]
      /\ SavedIsOriginal' /\ AbandonedInConflict'
      /\ ReplacedWordsAreTracked' /\ OpenPagesAreTracked'
  BY <1>2, <1>3, <1>4, <1>5, OneSiteStep
<1>7. TypeOK'
  BY <1>1, <1>2, <1>6, CallStart DEF TypeOK, environment, workerVars
<1> QED
  BY <1>1, <1>6, <1>7 DEF IInv

\* A step inside exchange() that only moves on to the next call.
LEMMA MoveStep ==
  ASSUME IInv, pc.at \in Calls, NEW next \in {"region", "open"},
         NEW seen \in Protections \cup {"none"},
         pc.at \in {"word", "region"},
         pc' = [pc EXCEPT !.at = next, !.seen = seen],
         UNCHANGED <<environment, workerVars, word, prot, state, conflict,
                     faults>>,
         (next = "open" /\ PageOf[pc.site] \notin touched) => Page = "RX"
  PROVE  IInv'
<1>1. pc' = [at |-> next, site |-> pc.site, installing |-> pc.installing,
             part |-> pc.part, seen |-> seen, then |-> pc.then]
  BY CallStart, CallFields
<1>2. pc' \in Locations
  BY <1>1, CallStart, CallFields DEF Locations, Calls
<1>3. SiteInHand' /\ InstallingInOrder'
  BY <1>1, CallStart
  DEF SiteInHand, InstallingInOrder, Calling, Calls, Here, Page, Untried,
      environment
<1>4. TypeOK' /\ SavedIsOriginal' /\ AbandonedInConflict'
      /\ ReplacedWordsAreTracked' /\ OpenPagesAreTracked'
  BY <1>2
  DEF IInv, TypeOK, SavedIsOriginal, AbandonedInConflict,
      ReplacedWordsAreTracked, OpenPagesAreTracked, environment, workerVars
<1> QED
  BY <1>2, <1>3, <1>4 DEF IInv

\* The faults of a step whose failure may be a fault or the page's state.
LEMMA FaultsBound ==
  ASSUME TypeOK, NEW b \in BOOLEAN,
         IF b THEN Call(FALSE) ELSE UNCHANGED faults
  PROVE  faults' \in 0..MaxFaults
  BY CallBound DEF TypeOK

\* Reading the site's word keeps the invariant, whatever word is found.
LEMMA ReadWordInv == IInv /\ ReadWord /\ UNCHANGED environment => IInv'
<1> SUFFICES ASSUME IInv, ReadWord, UNCHANGED environment PROVE IInv'
  OBVIOUS
<1>1. /\ pc.at = "word" /\ pc.at \in Calls /\ Here \in SiteStates
      /\ UNCHANGED <<environment, workerVars, word, prot>>
      /\ conflict \in BOOLEAN /\ faults \in 0..MaxFaults
      /\ Executable(Page) \in BOOLEAN /\ pc.part = "before"
  BY CallStart DEF ReadWord, Calls, memory, TypeOK, SiteInHand, Executable
<1>2. CASE WordUnreadable
  <2>1. /\ Leave(FALSE) /\ UNCHANGED <<state, conflict>>
        /\ state' = [state EXCEPT ![pc.site] = Here]
    BY <1>1, <1>2, CallStart DEF WordUnreadable, TypeOK
  <2>2. faults' \in 0..MaxFaults
    BY <1>1, <1>2, CallStart, FaultsBound DEF WordUnreadable
  <2> QED
    BY <1>1, <2>1, <2>2, CallStart, LeaveStep
<1>3. CASE WordMismatch
  <2> DEFINE s == [Here EXCEPT !.owned = FALSE]
  <2>1. /\ s \in SiteStates /\ ~s.owned /\ s.abandoned = Here.abandoned
        /\ s.protection = Here.protection
        /\ s.protection_pending = Here.protection_pending
    BY <1>1 DEF SiteStates
  <2>2. /\ Leave(FALSE) /\ state' = [state EXCEPT ![pc.site] = s]
        /\ conflict' = TRUE /\ UNCHANGED faults
        /\ word[pc.site] # Expected
    BY <1>3 DEF WordMismatch, SetHere
  <2>3. word[pc.site] # "replacement"
    BY <1>1, <2>2, CallStart DEF Expected, InstallingInOrder
  <2> HIDE DEF s
  <2> QED
    BY <1>1, <2>1, <2>2, <2>3, CallStart, LeaveStep
<1>4. CASE WordMatches
  <2>1. /\ pc' = [pc EXCEPT !.at = "region", !.seen = pc.seen]
        /\ UNCHANGED <<state, conflict, faults>>
        /\ pc.seen \in Protections \cup {"none"}
    BY <1>1, <1>4, CallStart, CallFields DEF WordMatches
  <2> QED
    BY <1>1, <2>1, MoveStep
<1> QED
  BY <1>2, <1>3, <1>4 DEF ReadWord

\* Reading the page's protection before it is opened keeps the invariant.
LEMMA ReadRegionInv == IInv /\ ReadRegion /\ UNCHANGED environment => IInv'
<1> SUFFICES ASSUME IInv, ReadRegion, UNCHANGED environment PROVE IInv'
  OBVIOUS
<1>1. /\ pc.at = "region" /\ pc.at \in Calls /\ Here \in SiteStates
      /\ UNCHANGED <<environment, workerVars, word, prot>>
      /\ conflict \in BOOLEAN /\ faults \in 0..MaxFaults
      /\ Executable(Page) \in BOOLEAN /\ pc.part = "before"
      /\ ~Here.protection_pending /\ (~pc.installing => Here.owned)
  BY CallStart DEF ReadRegion, Calls, memory, TypeOK, SiteInHand, Executable
<1>2. CASE RegionFails
  <2>1. /\ Leave(FALSE) /\ UNCHANGED <<state, conflict>>
        /\ state' = [state EXCEPT ![pc.site] = Here]
    BY <1>1, <1>2, CallStart DEF RegionFails, TypeOK
  <2>2. faults' \in 0..MaxFaults
    BY <1>1, <1>2, CallStart, FaultsBound DEF RegionFails
  <2> QED
    BY <1>1, <2>1, <2>2, CallStart, LeaveStep
<1>3. CASE RegionChanged
  <2> DEFINE s == Abandon(Here)
  <2>1. /\ s \in SiteStates /\ ~s.owned /\ s.abandoned
        /\ s.protection = Here.protection
        /\ s.protection_pending = Here.protection_pending
    BY <1>1 DEF SiteStates, Abandon
  <2>2. /\ Leave(FALSE) /\ state' = [state EXCEPT ![pc.site] = s]
        /\ conflict' = TRUE /\ UNCHANGED faults
    BY <1>3 DEF RegionChanged, SetHere
  <2> HIDE DEF s
  <2> QED
    BY <1>1, <2>1, <2>2, CallStart, LeaveStep
<1>4. CASE RegionAsSaved
  <2>1. /\ pc' = [pc EXCEPT !.at = "open", !.seen = Page]
        /\ UNCHANGED <<state, conflict, faults>>
        /\ pc.installing \/ Page = Here.protection
    BY <1>4 DEF RegionAsSaved
  <2>2. ASSUME PageOf[pc.site] \notin touched PROVE Page = "RX"
    <3>1. CASE ~pc.installing
      BY <1>1, <2>1, <2>2, <3>1, CallStart
    <3>2. CASE pc.installing
      <4>1. \A s \in Sites : ~state[s].protection_pending
        <5>1. SUFFICES ASSUME NEW s \in Sites
                       PROVE  ~state[s].protection_pending
          OBVIOUS
        <5>2. s > pc.site \/ s < pc.site \/ s = pc.site
          BY <1>1, CallStart, SitesAssumption DEF Sites
        <5> QED
          BY <1>1, <3>2, <5>2, CallStart
          DEF InstallingInOrder, Untried, FreshState, Calling
      <4> QED
        BY <1>1, <2>2, <4>1, CallStart DEF IInv, OpenPagesAreTracked
    <3> QED
      BY <3>1, <3>2, <1>1, CallStart
  <2>3. Page \in Protections
    BY <1>1, CallStart
  <2> QED
    BY <1>1, <2>1, <2>2, <2>3, MoveStep
<1> QED
  BY <1>2, <1>3, <1>4 DEF ReadRegion

\* A step inside exchange() that changes the site, its page or its word, and
\* stays in the call.
TurnsTo(s, next, part) ==
  /\ pc.part = "before"
  /\ pc' = [pc EXCEPT !.at = next, !.part = part]
  /\ next = "cas" => part = "before" /\ s.protection_pending
  /\ next = "flush" => part # "before"
  /\ UNCHANGED <<environment, workerVars>>
  /\ state' = [state EXCEPT ![pc.site] = s]
  /\ word' \in [Sites -> Words] /\ prot' \in [Pages -> Protections]
  /\ \A y \in Sites \ {pc.site} : word'[y] = word[y]
  /\ \A p \in Pages \ {PageOf[pc.site]} : prot'[p] = prot[p]
  /\ conflict' \in BOOLEAN /\ (conflict => conflict')
  /\ faults' \in 0..MaxFaults
  /\ next = "cas" => word'[pc.site] = word[pc.site]
  /\ (next = "cas" /\ ~pc.installing) => s.owned
  /\ s.abandoned => conflict'
  /\ word'[pc.site] = "replacement" => s.owned \/ s.abandoned
  /\ s.protection_pending => s.protection \in Protections
  /\ PageOf[pc.site] \notin touched =>
       /\ (s.protection_pending \/ s.owned) => s.protection = "RX"
       /\ prot'[PageOf[pc.site]] \in {"RX", "RWX"}
       /\ \/ prot'[PageOf[pc.site]] = "RX"
          \/ s.protection_pending
          \/ /\ prot'[PageOf[pc.site]] = prot[PageOf[pc.site]]
             /\ ~Here.protection_pending

\* A step inside the call on one site that turns to its exchange or its flush.
LEMMA InCallStep ==
  ASSUME IInv, pc.at \in Calls, NEW s \in SiteStates,
         NEW next \in {"cas", "flush"}, NEW part \in {"before", "changed", "unchanged"},
         TurnsTo(s, next, part)
  PROVE  IInv'
<1>0. /\ pc.part = "before"
      /\ next = "cas" => /\ part = "before" /\ s.protection_pending
                         /\ word'[pc.site] = word[pc.site]
                         /\ ~pc.installing => s.owned
      /\ next = "flush" => part # "before"
      /\ \A y \in Sites \ {pc.site} : word'[y] = word[y]
  BY DEF TurnsTo
<1>1. pc' = [at |-> next, site |-> pc.site, installing |-> pc.installing,
             part |-> part, seen |-> pc.seen, then |-> pc.then]
  BY CallStart, CallFields DEF TurnsTo
<1>2. pc' \in Locations
  BY <1>1, CallStart, CallFields DEF Locations, Calls
<1>3. /\ pc.site \in Sites /\ state'[pc.site] = s
      /\ \A y \in Sites \ {pc.site} : state'[y] = state[y]
      /\ Here = state[pc.site] /\ UNCHANGED touched
  BY CallStart DEF TypeOK, environment, TurnsTo
<1>4. SiteInHand'
  BY <1>0, <1>1, <1>3, CallStart DEF SiteInHand, Calling, Calls, Here
<1>5. InstallingInOrder'
  <2>1. \A y \in Sites : (y > pc.site \/ y < pc.site) => y # pc.site
    BY <1>3, SitesAssumption DEF Sites
  <2> QED
    BY <1>0, <1>1, <1>3, <2>1, CallStart
    DEF InstallingInOrder, Calling, Calls, Untried
<1>6. /\ state' \in [Sites -> SiteStates]
      /\ SavedIsOriginal' /\ AbandonedInConflict'
      /\ ReplacedWordsAreTracked' /\ OpenPagesAreTracked'
  BY <1>3, OneSiteStep DEF TurnsTo
<1>7. TypeOK'
  BY <1>2, <1>6, CallStart DEF TypeOK, environment, workerVars, TurnsTo
<1> QED
  BY <1>2, <1>4, <1>5, <1>6, <1>7 DEF IInv

\* Opening the page, which records the protection to put back, keeps the invariant.
LEMMA OpenInv == IInv /\ Open /\ UNCHANGED environment => IInv'
<1> SUFFICES ASSUME IInv, Open, UNCHANGED environment PROVE IInv'
  OBVIOUS
<1>1. /\ pc.at = "open" /\ pc.at \in Calls /\ Here \in SiteStates
      /\ UNCHANGED <<environment, workerVars, word, conflict>>
      /\ conflict \in BOOLEAN /\ faults \in 0..MaxFaults
      /\ word \in [Sites -> Words] /\ prot \in [Pages -> Protections]
      /\ pc.part = "before" /\ (~pc.installing => Here.owned)
      /\ PageOf[pc.site] \notin touched => Page = "RX"
  BY CallStart DEF Open, Calls, TypeOK, SiteInHand
<1>2. CASE OpenFails
  <2>1. /\ Leave(FALSE) /\ UNCHANGED <<state, prot>> /\ Call(FALSE)
        /\ state' = [state EXCEPT ![pc.site] = Here]
    BY <1>1, <1>2, CallStart DEF OpenFails, TypeOK
  <2>2. faults' \in 0..MaxFaults
    BY <1>1, <2>1, CallStart, CallBound
  <2> QED
    BY <1>1, <2>1, <2>2, CallStart, LeaveStep
<1>3. CASE Opened
  <2> DEFINE s == [Here EXCEPT !.protection = Page, !.protection_pending = TRUE]
             cas == Executable(Page) /\ Page = pc.seen
             next == IF cas THEN "cas" ELSE "flush"
             part == IF cas THEN "before" ELSE "unchanged"
  <2>1. /\ s \in SiteStates /\ s.owned = Here.owned
        /\ s.abandoned = Here.abandoned /\ s.protection = Page
        /\ s.protection_pending
    BY <1>1, CallStart DEF SiteStates
  <2>2. /\ prot' = [prot EXCEPT ![PageOf[pc.site]] = "RWX"]
        /\ state' = [state EXCEPT ![pc.site] = s]
        /\ UNCHANGED faults
    BY <1>3 DEF Opened, SetHere
  <2>3. pc' = [pc EXCEPT !.at = next, !.part = part]
    <3>1. CASE cas
      BY <1>1, <1>3, <3>1, CallStart, CallFields DEF Opened
    <3>2. CASE ~cas
      BY <1>3, <3>2 DEF Opened
    <3> QED
      BY <3>1, <3>2
  <2>4. /\ prot' \in [Pages -> Protections]
        /\ prot'[PageOf[pc.site]] = "RWX"
        /\ \A p \in Pages \ {PageOf[pc.site]} : prot'[p] = prot[p]
    BY <1>1, <2>2, CallStart DEF Protections
  <2>5. /\ next \in {"cas", "flush"}
        /\ part \in {"before", "changed", "unchanged"}
        /\ next = "cas" => part = "before"
        /\ next = "flush" => part # "before"
    OBVIOUS
  <2>6. word[pc.site] = "replacement" => s.owned \/ s.abandoned
    BY <1>1, <2>1, CallStart
  <2>7. word' = word /\ word' \in [Sites -> Words] /\ conflict' = conflict
        /\ (s.abandoned => conflict) /\ Page \in Protections
    BY <1>1, <2>1, CallStart
  <2>8. Here.protection_pending \in BOOLEAN /\ PageOf[pc.site] \notin touched =>
          Page = "RX"
    BY <1>1, CallStart
  <2> HIDE DEF s, next, part, cas
  <2>9. TurnsTo(s, next, part)
    BY <1>1, <2>1, <2>2, <2>3, <2>4, <2>5, <2>6, <2>7, <2>8 DEF TurnsTo
  <2> QED
    BY <1>1, <2>1, <2>5, <2>9, InCallStep
<1> QED
  BY <1>2, <1>3 DEF Open

\* The exchange of the word keeps the invariant, whether done, refused or faulted.
LEMMA CompareExchangeInv ==
  IInv /\ CompareExchange /\ UNCHANGED environment => IInv'
<1> SUFFICES ASSUME IInv, CompareExchange, UNCHANGED environment PROVE IInv'
  OBVIOUS
<1>1. /\ pc.at = "cas" /\ pc.at \in Calls /\ Here \in SiteStates
      /\ UNCHANGED <<environment, workerVars, prot>>
      /\ conflict \in BOOLEAN /\ faults \in 0..MaxFaults
      /\ word \in [Sites -> Words] /\ prot' \in [Pages -> Protections]
      /\ pc.part = "before" /\ Here.protection_pending
      /\ \A p \in Pages \ {PageOf[pc.site]} : prot'[p] = prot[p]
      /\ prot'[PageOf[pc.site]] = Page
      /\ (Page = "RWX") \in BOOLEAN
      /\ Here.protection \in Protections
      /\ PageOf[pc.site] \notin touched =>
           Here.protection = "RX" /\ Page \in {"RX", "RWX"}
  BY CallStart DEF CompareExchange, Calls, TypeOK, SiteInHand
<1>2. CASE ExchangeFaults
  <2>1. /\ pc' = [pc EXCEPT !.at = "flush", !.part = "unchanged"]
        /\ state' = [state EXCEPT ![pc.site] = Here]
        /\ word' = word /\ conflict' = conflict
    BY <1>1, <1>2, CallStart DEF ExchangeFaults, TypeOK
  <2>2. faults' \in 0..MaxFaults
    BY <1>1, <1>2, CallStart, FaultsBound DEF ExchangeFaults
  <2>3. /\ word' \in [Sites -> Words]
        /\ word'[pc.site] = "replacement" => Here.owned \/ Here.abandoned
        /\ Here.abandoned => conflict'
        /\ \A y \in Sites \ {pc.site} : word'[y] = word[y]
    BY <1>1, <2>1, CallStart
  <2>4. TurnsTo(Here, "flush", "unchanged")
    BY <1>1, <2>1, <2>2, <2>3 DEF TurnsTo
  <2> QED
    BY <1>1, <2>4, InCallStep
<1>3. CASE ExchangeMismatch
  <2> DEFINE s == [Here EXCEPT !.owned = FALSE]
  <2>1. /\ s \in SiteStates /\ ~s.owned /\ s.abandoned = Here.abandoned
        /\ s.protection = Here.protection
        /\ s.protection_pending = Here.protection_pending
    BY <1>1 DEF SiteStates
  <2>2. /\ pc' = [pc EXCEPT !.at = "flush", !.part = "unchanged"]
        /\ state' = [state EXCEPT ![pc.site] = s]
        /\ conflict' = TRUE /\ UNCHANGED <<word, faults>>
        /\ word[pc.site] # Expected
    BY <1>3 DEF ExchangeMismatch, SetHere
  <2>3. word'[pc.site] # "replacement" /\ word' \in [Sites -> Words]
        /\ word' = word
    BY <1>1, <2>2, CallStart DEF Expected, InstallingInOrder
  <2> HIDE DEF s
  <2> QED
    <3>1. TurnsTo(s, "flush", "unchanged")
      BY <1>1, <2>1, <2>2, <2>3, CallStart DEF TurnsTo
    <3> QED
      BY <1>1, <2>1, <3>1, InCallStep
<1>4. CASE ExchangeWord
  <2> DEFINE s == [Here EXCEPT !.owned = pc.installing, !.flush_pending = TRUE]
  <2>1. /\ s \in SiteStates /\ s.owned = pc.installing
        /\ s.abandoned = Here.abandoned
        /\ s.protection = Here.protection
        /\ s.protection_pending = Here.protection_pending
    BY <1>1, CallStart DEF SiteStates
  <2>2. /\ pc' = [pc EXCEPT !.at = "flush", !.part = "changed"]
        /\ state' = [state EXCEPT ![pc.site] = s]
        /\ UNCHANGED <<conflict, faults>>
        /\ word' = [word EXCEPT ![pc.site] = Desired]
    BY <1>4 DEF ExchangeWord, SetHere
  <2>3. /\ word' \in [Sites -> Words]
        /\ word'[pc.site] = "replacement" => s.owned
        /\ \A y \in Sites \ {pc.site} : word'[y] = word[y]
    BY <1>1, <2>1, <2>2, CallStart DEF Desired, Words
  <2> HIDE DEF s
  <2> QED
    <3>1. TurnsTo(s, "flush", "changed")
      BY <1>1, <2>1, <2>2, <2>3, CallStart DEF TurnsTo
    <3> QED
      BY <1>1, <2>1, <3>1, InCallStep
<1> QED
  BY <1>2, <1>3, <1>4 DEF CompareExchange

\* A step between calls: only the location, the counters and faults change.
LEMMA LoopStep ==
  ASSUME IInv, pc.at \notin Calls, UNCHANGED <<memory, state, conflict, environment>>,
         layoutDisabled' \in BOOLEAN, attempts' \in 0..MaxAttempts,
         faults' \in 0..MaxFaults, pc' \in Locations, pc'.at # "install",
         pc'.at \in Calls =>
           /\ pc'.at \in {"flush"}
           /\ pc'.part = "before" /\ ~pc'.installing => state[pc'.site].owned
           /\ pc'.installing => /\ pc'.site = 1
                               /\ \A s \in Sites : Untried(s)
  PROVE  IInv'
<1>1. /\ TypeOK' /\ SavedIsOriginal' /\ AbandonedInConflict'
      /\ ReplacedWordsAreTracked' /\ OpenPagesAreTracked'
  BY DEF IInv, TypeOK, SavedIsOriginal, AbandonedInConflict,
     ReplacedWordsAreTracked, OpenPagesAreTracked, environment, memory
<1>2. SiteInHand'
  BY DEF SiteInHand, Calling, Calls, Here
<1>3. InstallingInOrder'
  <2>1. \A s \in Sites : ~(s < 1)
    BY SitesAssumption DEF Sites
  <2>2. word' = word /\ state' = state
    BY DEF memory
  <2>3. ASSUME pc'.at \in Calls, pc'.installing
        PROVE  pc'.site = 1 /\ \A s \in Sites : Untried(s)
    BY <2>3
  <2>4. 1 \in Sites
    BY SitesAssumption DEF Sites
  <2> QED
    BY <2>1, <2>2, <2>3, <2>4 DEF InstallingInOrder, Calling, Untried
<1> QED
  BY <1>1, <1>2, <1>3 DEF IInv

\* The places the program can go to are Locations.
LEMMA LocationTypes ==
  /\ \A then \in {"check", "retry"} : At(then) \in Locations
  /\ \A k \in 0..NumSites, then \in {"check", "retry"} :
       RestoreAt(k, then) \in Locations
  /\ \A s \in Sites, then \in {"check", "retry"}, installing \in BOOLEAN,
        part \in {"before", "only"} :
       FinishOf(s, installing, part, then) \in Locations
  BY DEF At, RestoreAt, FinishOf, Locations, Calls

\* Every step of install keeps the invariant.
LEMMA InstallInv == IInv /\ Install /\ UNCHANGED environment => IInv'
<1> SUFFICES ASSUME IInv, Install, UNCHANGED environment PROVE IInv'
  OBVIOUS
<1>1. /\ pc.at = "install" /\ pc.at \notin Calls /\ TypeOK
      /\ UNCHANGED <<memory, state, conflict, workerVars, environment>>
      /\ layoutDisabled' \in BOOLEAN /\ attempts' \in 0..MaxAttempts
      /\ faults \in 0..MaxFaults
      /\ \A s \in Sites : Untried(s)
  BY DEF Install, Calls, IInv, TypeOK, InstallingInOrder, workerVars
<1>2. CASE pc' = FinishOf(1, TRUE, "before", "check") /\ UNCHANGED faults
  <2>1. /\ pc'.at = "flush" /\ pc'.installing = TRUE /\ pc'.site = 1
    BY <1>2 DEF FinishOf
  <2>2. pc' \in Locations
    <3>1. 1 \in Sites
      BY SitesAssumption DEF Sites
    <3> QED
      BY <1>2, <3>1, LocationTypes
  <2> QED
    BY <1>1, <1>2, <2>1, <2>2, LoopStep
<1>3. CASE pc' = At("check") /\ (UNCHANGED faults \/ Call(FALSE))
  <2>1. pc'.at = "check" /\ pc' \in Locations
    BY <1>3, LocationTypes DEF At
  <2>2. faults' \in 0..MaxFaults
    BY <1>1, <1>3, CallBound
  <2> QED
    BY <1>1, <2>1, <2>2, LoopStep DEF Calls
<1> QED
  BY <1>2, <1>3 DEF Install

\* Every step of restore keeps the invariant.
LEMMA RestoreInv == IInv /\ Restore /\ UNCHANGED environment => IInv'
<1> SUFFICES ASSUME IInv, Restore, UNCHANGED environment PROVE IInv'
  OBVIOUS
<1>1. /\ pc.at = "restore" /\ pc.at \notin Calls
      /\ UNCHANGED <<memory, state, conflict, workerVars, environment>>
      /\ layoutDisabled' \in BOOLEAN /\ attempts' \in 0..MaxAttempts
      /\ faults' \in 0..MaxFaults
      /\ state \in [Sites -> SiteStates]
  BY DEF Restore, Calls, IInv, TypeOK, workerVars
<1>2. pc.site \in 0..NumSites /\ pc.then \in {"check", "retry"}
  BY <1>1 DEF IInv, TypeOK, Locations, Calls
<1>3. CASE pc.site = 0
  <2>1. pc'.at \in {"check", "retry"} /\ pc' \in Locations
    BY <1>2, <1>3, LocationTypes DEF Restore, At
  <2> QED
    BY <1>1, <2>1, LoopStep DEF Calls
<1>4. CASE pc.site # 0
  <2> DEFINE part == IF state[pc.site].owned THEN "before" ELSE "only"
  <2>1. pc.site \in Sites
    BY <1>2, <1>4, SitesAssumption DEF Sites
  <2>2. pc' = FinishOf(pc.site, FALSE, part, pc.then) /\ part \in {"before", "only"}
    BY <1>4 DEF Restore
  <2>3. pc' \in Locations
    BY <1>2, <2>1, <2>2, LocationTypes
  <2>4. /\ pc'.at = "flush" /\ pc'.installing = FALSE /\ pc'.site = pc.site
        /\ pc'.part = part
    BY <2>2 DEF FinishOf
  <2>5. pc'.part = "before" => state[pc'.site].owned
    BY <2>4
  <2> QED
    BY <1>1, <2>3, <2>4, <2>5, LoopStep
<1> QED
  BY <1>3, <1>4

\* Every step of the worker between its calls keeps the invariant.
LEMMA LoopInv ==
  IInv /\ (WatchIntact \/ RetryRestore \/ SkipRestore) /\ UNCHANGED environment
    => IInv'
<1> SUFFICES ASSUME IInv, WatchIntact \/ RetryRestore \/ SkipRestore,
                    UNCHANGED environment
             PROVE  IInv'
  OBVIOUS
<1>1. /\ pc.at \in {"check", "retry"} /\ pc.at \notin Calls /\ TypeOK
      /\ UNCHANGED <<memory, state, conflict>>
  BY DEF WatchIntact, RetryRestore, SkipRestore, Calls, IInv
<1>2. NumSites \in 0..NumSites
  BY SitesAssumption
<1>3. /\ pc' \in {RestoreAt(NumSites, "retry"), At("retry"),
                  RestoreAt(NumSites, "check"), At("check")}
  BY DEF WatchIntact, RetryRestore, SkipRestore
<1>4. pc' \in Locations /\ pc'.at \in {"restore", "check", "retry"}
  <2>1. ASSUME NEW then \in {"check", "retry"}
        PROVE  /\ RestoreAt(NumSites, then) \in Locations
               /\ At(then) \in Locations
               /\ RestoreAt(NumSites, then).at = "restore" /\ At(then).at = then
    BY <1>2, LocationTypes DEF RestoreAt, At
  <2> QED
    BY <1>3, <2>1
<1>5. layoutDisabled' \in BOOLEAN
  BY <1>1 DEF WatchIntact, RetryRestore, SkipRestore, TypeOK, workerVars
<1>6. attempts' \in 0..MaxAttempts
  BY <1>1, BoundsAssumption
  DEF WatchIntact, RetryRestore, SkipRestore, RestoreWanted, TypeOK, workerVars
<1>7. faults' \in 0..MaxFaults
  BY <1>1, CallBound DEF WatchIntact, RetryRestore, SkipRestore, TypeOK
<1> QED
  BY <1>1, <1>4, <1>5, <1>6, <1>7, LoopStep DEF Calls

\* Other writers change words and pages; this patch's state is untouched.
LEMMA ForeignInv == IInv /\ Foreign => IInv'
<1>1. ASSUME IInv, NEW s \in Sites, NEW w \in {"expected", "other"},
             ForeignWord(s, w)
      PROVE  IInv'
  <2>1. /\ word' = [word EXCEPT ![s] = w] /\ foreign' \in 0..MaxForeign
        /\ UNCHANGED <<prot, state, conflict, pc, enabled, workerVars, faults,
                       touched>>
    BY <1>1, BoundsAssumption DEF ForeignWord, IInv, TypeOK
  <2>2. /\ word' \in [Sites -> Words]
        /\ \A x \in Sites : word'[x] = "replacement" => word[x] = "replacement"
    BY <1>1, <2>1 DEF IInv, TypeOK, Words
  <2>3. TypeOK'
    BY <1>1, <2>1, <2>2 DEF IInv, TypeOK, workerVars
  <2>4. SiteInHand' /\ SavedIsOriginal' /\ AbandonedInConflict'
        /\ ReplacedWordsAreTracked' /\ OpenPagesAreTracked'
    BY <1>1, <2>1, <2>2
    DEF IInv, SiteInHand, Calling, Here, Page, SavedIsOriginal,
        AbandonedInConflict, ReplacedWordsAreTracked, OpenPagesAreTracked
  <2>5. InstallingInOrder'
    <3>1. pc.at \in Calls => pc.site \in Sites
      BY <1>1, CallFields DEF IInv, TypeOK
    <3> QED
      BY <1>1, <2>1, <2>2, <3>1 DEF IInv, InstallingInOrder, Calling, Untried
  <2> QED
    BY <2>3, <2>4, <2>5 DEF IInv
<1>2. ASSUME IInv, NEW p \in Pages, NEW protection \in Protections,
             ForeignProtection(p, protection)
      PROVE  IInv'
  <2>1. /\ prot' = [prot EXCEPT ![p] = protection] /\ foreign' \in 0..MaxForeign
        /\ touched' = touched \cup {p}
        /\ UNCHANGED <<word, state, conflict, pc, enabled, workerVars, faults>>
    BY <1>2, BoundsAssumption DEF ForeignProtection, IInv, TypeOK
  <2>2. /\ prot' \in [Pages -> Protections]
        /\ \A q \in Pages \ touched' : prot'[q] = prot[q] /\ q \notin touched
    BY <1>2, <2>1 DEF IInv, TypeOK
  <2>3. TypeOK'
    BY <1>2, <2>1, <2>2 DEF IInv, TypeOK, workerVars
  <2>4. SiteInHand'
    <3>1. pc.at \in Calls => pc.site \in Sites /\ PageOf[pc.site] \in Pages
      BY <1>2, CallStart
    <3> QED
      BY <1>2, <2>1, <2>2, <3>1 DEF IInv, SiteInHand, Calling, Here, Page
  <2>5. SavedIsOriginal'
    <3>1. \A s \in Sites : PageOf[s] \notin touched' => PageOf[s] \notin touched
      BY <2>1
    <3> QED
      BY <1>2, <2>1, <2>2, <3>1 DEF IInv, SavedIsOriginal
  <2>6. OpenPagesAreTracked'
    BY <1>2, <2>1, <2>2 DEF IInv, OpenPagesAreTracked
  <2>7. InstallingInOrder' /\ AbandonedInConflict' /\ ReplacedWordsAreTracked'
    BY <1>2, <2>1
    DEF IInv, InstallingInOrder, Calling, Untried, AbandonedInConflict,
        ReplacedWordsAreTracked
  <2> QED
    BY <2>3, <2>4, <2>5, <2>6, <2>7 DEF IInv
<1> QED
  BY <1>1, <1>2 DEF Foreign

-----------------------------------------------------------------------------
(* The theorems.                                                           *)

\* The invariant holds before the first call.
LEMMA InitInv == Init => IInv
<1> SUFFICES ASSUME Init PROVE IInv
  OBVIOUS
<1>1. /\ pc.at = "install" /\ pc.at \notin Calls /\ pc \in Locations
      /\ FreshState \in SiteStates /\ ~FreshState.owned
      /\ ~FreshState.protection_pending /\ ~FreshState.abandoned
  BY DEF Init, At, Calls, Locations, FreshState, SiteStates
<1>2. /\ \A s \in Sites : state[s] = FreshState /\ word[s] = "expected"
      /\ \A p \in Pages : prot[p] = "RX"
  BY DEF Init
<1>3. TypeOK
  <2>1. /\ word \in [Sites -> Words] /\ prot \in [Pages -> Protections]
        /\ state \in [Sites -> SiteStates]
    BY <1>1 DEF Init, Words, Protections
  <2>2. attempts \in 0..MaxAttempts /\ faults \in 0..MaxFaults /\ foreign \in 0..MaxForeign
    BY BoundsAssumption DEF Init
  <2>3. conflict \in BOOLEAN /\ enabled \in BOOLEAN /\ layoutDisabled \in BOOLEAN
        /\ touched \subseteq Pages
    BY DEF Init
  <2> QED
    BY <1>1, <2>1, <2>2, <2>3 DEF TypeOK
<1>4. SiteInHand /\ InstallingInOrder
  BY <1>1, <1>2 DEF SiteInHand, InstallingInOrder, Calling, Untried
<1>5. /\ SavedIsOriginal /\ AbandonedInConflict
      /\ ReplacedWordsAreTracked /\ OpenPagesAreTracked
  BY <1>1, <1>2
  DEF SavedIsOriginal, AbandonedInConflict, ReplacedWordsAreTracked,
      OpenPagesAreTracked
<1> QED
  BY <1>3, <1>4, <1>5 DEF IInv

\* The invariant is inductive.
LEMMA StepInv == IInv /\ [Next]_vars => IInv'
<1> SUFFICES ASSUME IInv, [Next]_vars PROVE IInv'
  OBVIOUS
<1>1. CASE Worker
  BY <1>1, FlushInv, QueryInv, ReprotectInv, ReadWordInv, ReadRegionInv,
     OpenInv, CompareExchangeInv, InstallInv, RestoreInv, LoopInv DEF Worker
<1>2. CASE BridgeDisabled
  BY <1>2
  DEF BridgeDisabled, IInv, TypeOK, SiteInHand, InstallingInOrder,
      SavedIsOriginal, AbandonedInConflict, ReplacedWordsAreTracked,
      OpenPagesAreTracked, Calling, Here, Page, Untried, memory, workerVars
<1>3. CASE Foreign
  BY <1>3, ForeignInv
<1>4. CASE UNCHANGED vars
  BY <1>4
  DEF vars, IInv, TypeOK, SiteInHand, InstallingInOrder,
      SavedIsOriginal, AbandonedInConflict, ReplacedWordsAreTracked,
      OpenPagesAreTracked, Calling, Here, Page, Untried, memory, workerVars,
      environment
<1> QED
  BY <1>1, <1>2, <1>3, <1>4 DEF Next

\* The invariant holds in every reachable state.
LEMMA Invariance == Spec => []IInv
  BY InitInv, StepInv, PTL DEF Spec

\* Every word this patch replaced stays tracked (button_layout_patch.hpp
\* exchange, finish, restore): whatever calls fail and whatever others write,
\* a replaced word is owned or was given up in a conflict.
THEOREM WordsTracked == Spec => []ReplacedWordsAreTracked
<1>1. IInv => ReplacedWordsAreTracked
  BY DEF IInv
<1> QED
  BY <1>1, Invariance, PTL

\* Every page this patch opened and nobody else has set is one some site
\* still has to close (finish, exchange).
THEOREM PagesTracked == Spec => []OpenPagesAreTracked
<1>1. IInv => OpenPagesAreTracked
  BY DEF IInv
<1> QED
  BY <1>1, Invariance, PTL

\* When nothing is pending and no conflict was seen, the original words and
\* protections are back (restore() returning true).
THEOREM CleanRestoration == Spec => []CleanWhenDone
<1>1. IInv => CleanWhenDone
  BY DEF IInv, CleanWhenDone, HasPending, AbandonedInConflict,
     ReplacedWordsAreTracked, OpenPagesAreTracked
<1> QED
  BY <1>1, Invariance, PTL

-----------------------------------------------------------------------------
(* With a page per site, failed calls alone never strand a word.           *)

\* A site changes its mark only by finding its page set by somebody.
LEMMA AbandonmentStep ==
  ASSUME IInv, AbandonedOnlyToOthers, [Next]_vars,
         \A s, t \in Sites : PageOf[s] = PageOf[t] => s = t
  PROVE  AbandonedOnlyToOthers'
<1>1. touched \subseteq touched'
  BY DEF Next, Worker, BridgeDisabled, Foreign, ForeignWord,
         ForeignProtection, environment, vars
<1>2. CASE state' = state
  BY <1>1, <1>2 DEF AbandonedOnlyToOthers
<1>3. ASSUME pc.at \in Calls, NEW s \in SiteStates,
             state' = [state EXCEPT ![pc.site] = s],
             s.abandoned => Here.abandoned \/ PageOf[pc.site] \in touched
      PROVE  AbandonedOnlyToOthers'
  <2>1. /\ state \in [Sites -> SiteStates] /\ pc.site \in Sites
        /\ Here = state[pc.site]
    BY <1>3, CallStart DEF TypeOK
  <2> QED
    BY <1>1, <1>3, <2>1 DEF AbandonedOnlyToOthers
<1>4. CASE Flush
  <2>1. pc.at \in Calls /\ Here \in SiteStates
    BY <1>4, CallStart DEF Flush, Calls
  <2>2. PICK ok \in BOOLEAN :
          state' = [state EXCEPT ![pc.site] = [Here EXCEPT !.flush_pending = ~ok]]
    BY <1>4 DEF Flush, SetHere
  <2>3. /\ [Here EXCEPT !.flush_pending = ~ok] \in SiteStates
        /\ [Here EXCEPT !.flush_pending = ~ok].abandoned = Here.abandoned
    BY <2>1 DEF SiteStates
  <2> QED
    BY <1>3, <2>1, <2>2, <2>3
<1>5. CASE Query
  <2>1. pc.at \in Calls /\ Here \in SiteStates
    BY <1>5, CallStart DEF Query, Calls
  <2>2. CASE QueryFails \/ QueryOpen
    BY <1>2, <2>2 DEF QueryFails, QueryOpen
  <2>3. CASE QuerySettled
    <3>1. /\ [Here EXCEPT !.protection_pending = FALSE] \in SiteStates
          /\ [Here EXCEPT !.protection_pending = FALSE].abandoned = Here.abandoned
      BY <2>1 DEF SiteStates
    <3> QED
      BY <1>3, <2>1, <2>3, <3>1 DEF QuerySettled, SetHere
  <2>4. CASE QueryForeign
    <3> DEFINE s == [Abandon(Here) EXCEPT !.protection_pending = FALSE]
    <3>1. s \in SiteStates
      BY <2>1 DEF SiteStates, Abandon
    <3>2. PageOf[pc.site] \in touched
      BY <2>1, <2>4, CallStart DEF QueryForeign
    <3>3. state' = [state EXCEPT ![pc.site] = s]
      BY <2>4 DEF QueryForeign, SetHere
    <3> HIDE DEF s
    <3> QED
      BY <1>3, <2>1, <3>1, <3>2, <3>3
  <2> QED
    BY <1>5, <2>2, <2>3, <2>4 DEF Query
<1>6. CASE Reprotect
  <2>1. pc.at \in Calls /\ Here \in SiteStates
    BY <1>6, CallStart DEF Reprotect, Calls
  <2>2. PICK ok \in BOOLEAN :
          state' = [state EXCEPT ![pc.site] =
                      [Here EXCEPT !.protection_pending = ~ok]]
    BY <1>6 DEF Reprotect, SetHere
  <2>3. /\ [Here EXCEPT !.protection_pending = ~ok] \in SiteStates
        /\ [Here EXCEPT !.protection_pending = ~ok].abandoned = Here.abandoned
    BY <2>1 DEF SiteStates
  <2> QED
    BY <1>3, <2>1, <2>2, <2>3
<1>7. CASE ReadWord
  <2>1. pc.at \in Calls /\ Here \in SiteStates
    BY <1>7, CallStart DEF ReadWord, Calls
  <2>2. /\ [Here EXCEPT !.owned = FALSE] \in SiteStates
        /\ [Here EXCEPT !.owned = FALSE].abandoned = Here.abandoned
    BY <2>1 DEF SiteStates
  <2>3. CASE WordMismatch
    BY <1>3, <2>1, <2>2, <2>3 DEF WordMismatch, SetHere
  <2> QED
    BY <1>2, <1>7, <2>3 DEF ReadWord, WordUnreadable, WordMatches
<1>8. CASE ReadRegion
  <2>1. /\ pc.at = "region" /\ pc.at \in Calls /\ Here \in SiteStates
        /\ ~Here.protection_pending /\ (~pc.installing => Here.owned)
    BY <1>8, CallStart DEF ReadRegion, Calls, SiteInHand
  <2>2. CASE RegionChanged
    <3>1. PageOf[pc.site] \in touched
      <4>1. SUFFICES ASSUME PageOf[pc.site] \notin touched PROVE FALSE
        OBVIOUS
      <4>2. Here.protection = "RX" /\ Page # "RX"
        BY <2>1, <2>2, <4>1, CallStart DEF RegionChanged
      <4>3. PICK t \in Sites : PageOf[t] = PageOf[pc.site]
                              /\ state[t].protection_pending
        BY <2>1, <4>1, <4>2, CallStart DEF IInv, OpenPagesAreTracked
      <4>4. t = pc.site
        BY <2>1, <4>3, CallStart
      <4> QED
        BY <2>1, <4>3, <4>4, CallStart
    <3>2. Abandon(Here) \in SiteStates
      BY <2>1 DEF Abandon, SiteStates
    <3> QED
      BY <1>3, <2>1, <2>2, <3>1, <3>2 DEF RegionChanged, SetHere
  <2> QED
    BY <1>2, <1>8, <2>2 DEF ReadRegion, RegionFails, RegionAsSaved
<1>9. CASE Open
  <2>1. pc.at \in Calls /\ Here \in SiteStates /\ Page \in Protections
    BY <1>9, CallStart DEF Open, Calls
  <2> DEFINE s == [Here EXCEPT !.protection = Page, !.protection_pending = TRUE]
  <2>2. s \in SiteStates /\ s.abandoned = Here.abandoned
    BY <2>1 DEF SiteStates
  <2>3. CASE Opened
    BY <1>3, <2>1, <2>2, <2>3 DEF Opened, SetHere
  <2> QED
    BY <1>2, <1>9, <2>3 DEF Open, OpenFails
<1>10. CASE CompareExchange
  <2>1. pc.at \in Calls /\ Here \in SiteStates /\ pc.installing \in BOOLEAN
    BY <1>10, CallStart DEF CompareExchange, Calls
  <2>2. CASE ExchangeMismatch
    <3>1. /\ [Here EXCEPT !.owned = FALSE] \in SiteStates
          /\ [Here EXCEPT !.owned = FALSE].abandoned = Here.abandoned
      BY <2>1 DEF SiteStates
    <3> QED
      BY <1>3, <2>1, <2>2, <3>1 DEF ExchangeMismatch, SetHere
  <2>3. CASE ExchangeWord
    <3> DEFINE s == [Here EXCEPT !.owned = pc.installing, !.flush_pending = TRUE]
    <3>1. s \in SiteStates /\ s.abandoned = Here.abandoned
      BY <2>1 DEF SiteStates
    <3> QED
      BY <1>3, <2>1, <2>3, <3>1 DEF ExchangeWord, SetHere
  <2> QED
    BY <1>2, <1>10, <2>2, <2>3 DEF CompareExchange, ExchangeFaults
<1>11. CASE Install \/ Restore \/ WatchIntact \/ RetryRestore \/ SkipRestore
  BY <1>2, <1>11 DEF Install, Restore, WatchIntact, RetryRestore, SkipRestore
<1>12. CASE BridgeDisabled \/ Foreign \/ UNCHANGED vars
  BY <1>2, <1>12
  DEF BridgeDisabled, Foreign, ForeignWord, ForeignProtection, vars
<1> QED
  BY <1>4, <1>5, <1>6, <1>7, <1>8, <1>9, <1>10, <1>11, <1>12 DEF Next, Worker

\* With every site on a page of its own, a site is given up only after
\* another writer has set its page (exchange, finish); sites that share a
\* page do not have this guarantee.
THEOREM NothingStranded ==
  ASSUME \A s, t \in Sites : PageOf[s] = PageOf[t] => s = t
  PROVE  Spec => []AbandonedOnlyToOthers
<1>1. Init => AbandonedOnlyToOthers
  BY DEF Init, AbandonedOnlyToOthers, FreshState
<1>2. IInv /\ AbandonedOnlyToOthers /\ [Next]_vars => AbandonedOnlyToOthers'
  BY AbandonmentStep
<1> QED
  BY <1>1, <1>2, Invariance, PTL DEF Spec
-----------------------------------------------------------------------------
(* The words of other writers.                                             *)

\* Only the conditional exchange writes a word, and only over one it expects.
LEMMA ExchangeStep ==
  ASSUME IInv, [Next]_vars, foreign' = foreign, word' # word
  PROVE  /\ pc.site \in Sites /\ word[pc.site] \in {"expected", "replacement"}
         /\ word' = [word EXCEPT ![pc.site] = Desired]
<1>1. ~BridgeDisabled /\ ~Foreign
  BY DEF BridgeDisabled, Foreign, ForeignWord, ForeignProtection, IInv, TypeOK,
    memory
<1>2. CompareExchange
  BY <1>1 DEF Next, Worker, Flush, Query, Reprotect, ReadWord, ReadRegion, Open,
    Install, Restore, WatchIntact, RetryRestore, SkipRestore, memory, vars
<1>3. pc.at \in Calls
  BY <1>2 DEF CompareExchange, Calls
<1>4. ExchangeWord
  BY <1>2 DEF CompareExchange, ExchangeFaults, ExchangeMismatch
<1> QED
  BY <1>3, <1>4, CallStart DEF ExchangeWord, Expected

\* exchange() changes a word by InterlockedCompareExchange64, and so never one
\* that another writer has put there, whatever happened since it was read.
THEOREM OthersWordsStay == Spec => ForeignWordsKept
<1>1. IInv /\ [Next]_vars =>
        [\A s \in Sites : (word[s] = "other" /\ foreign' = foreign)
                            => word'[s] = word[s]]_vars
  BY ExchangeStep DEF IInv, TypeOK
<1> QED
  BY <1>1, Invariance, PTL DEF Spec, ForeignWordsKept
=============================================================================
