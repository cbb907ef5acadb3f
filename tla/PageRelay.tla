------------------------------ MODULE PageRelay ------------------------------
(***************************************************************************)
(* The page's HTTP calls to a relay (apps/pwa/src/lib/relayApi.ts, and the *)
(* functions of App.svelte that make them): what they leave on the page,   *)
(* which address it would dial, and the relay's side of them, GET /status  *)
(* of control-http.ts and POST /pinning/sync of pinning-http.ts.           *)
(*                                                                         *)
(* Every fetch may be answered, refused or lost, and the answers of calls  *)
(* that overlap come in any order.  The text field with the relay's base   *)
(* URL can be edited at any time.  The relay's pinning service and GET     *)
(* /multiaddrs are not part of the repository; they may answer anything.   *)
(***************************************************************************)
EXTENDS Addresses, Naturals

CONSTANTS
  Calls,        \* clicks on the buttons that ask the relay
  Relays,
  RelayAddrs,   \* the answers libp2p.getMultiaddrs may give at each relay
  Place,        \* where the page runs, as each relay sees it
  Bases,        \* the texts the user may enter
  Dbs,          \* the to-do databases the page may open
  None

Base == [relay : Relays, local : BOOLEAN, relative : BOOLEAN,
         requester : {"loopback", "other"}]

ASSUME RelayAssumption ==
  /\ RelayAddrs \in [Relays -> SUBSET SUBSET Address]
  /\ Place \in [Relays -> {"host", "lan", "far"}]
ASSUME BaseAssumption == Bases \subseteq Base
ASSUME NoneAssumption == None \notin Bases \cup Dbs

SyncAttempts == 3   \* SYNC_RETRY_ATTEMPTS

VARIABLES
  base,      \* httpBase
  status,    \* the relay status the page shows, or None
  busy,
  db,        \* todoDbAddress, or None
  info,      \* relayPinningInfo: the database it is about and what it says
  pc,        \* what each call waits for
  kind,      \* the function each call runs
  asked,     \* the base, or the database, the call took when it began
  attempts,  \* the attempts of its POST /pinning/sync
  last,      \* the outcome of the last of them, which the answer tells
  outcomes   \* the outcomes of all of them

callVars == <<pc, kind, asked>>
syncVars == <<attempts, last, outcomes>>
pageVars == <<base, db, busy>>
vars == <<base, status, busy, db, info, pc, kind, asked, attempts, last,
          outcomes>>

Init ==
  /\ base \in Bases
  /\ status = None
  /\ busy = FALSE
  /\ db = None
  /\ info = None
  /\ pc = [c \in Calls |-> "idle"]
  /\ kind = [c \in Calls |-> "none"]
  /\ asked = [c \in Calls |-> None]
  /\ attempts = [c \in Calls |-> 0]
  /\ last = [c \in Calls |-> "none"]
  /\ outcomes = [c \in Calls |-> {}]

Goto(c, step) == pc' = [pc EXCEPT ![c] = step]

\* A call returns, and with it go its variables.
Return(c) ==
  /\ Goto(c, "done")
  /\ kind' = [kind EXCEPT ![c] = "none"]
  /\ asked' = [asked EXCEPT ![c] = None]
  /\ attempts' = [attempts EXCEPT ![c] = 0]
  /\ last' = [last EXCEPT ![c] = "none"]
  /\ outcomes' = [outcomes EXCEPT ![c] = {}]

Begin(c, what, of, step) ==
  /\ pc[c] = "idle"
  /\ Goto(c, step)
  /\ kind' = [kind EXCEPT ![c] = what]
  /\ asked' = [asked EXCEPT ![c] = of]

----------------------------------------------------------------------------
\* refreshHttp, on "Save & refresh" and "Clear token", which busy does not
\* disable, and as the end of restartRelay.

Refresh(c) ==
  /\ Begin(c, "refresh", base, "health")
  /\ UNCHANGED <<pageVars, status, info, syncVars>>

\* restartRelay: POST /run/restart.
Restart(c) ==
  /\ ~busy
  /\ Begin(c, "restart", base, "restart")
  /\ busy' = TRUE
  /\ UNCHANGED <<base, db, status, info, syncVars>>

\* Accepted or not, the status is read next, from the base of that moment.
RestartAnswered(c) ==
  /\ pc[c] = "restart"
  /\ Goto(c, "health")
  /\ asked' = [asked EXCEPT ![c] = base]
  /\ UNCHANGED <<pageVars, status, info, kind, syncVars>>

\* fetchHealth, which catches everything.
HealthAnswered(c) ==
  /\ pc[c] = "health"
  /\ Goto(c, "status")
  /\ UNCHANGED <<pageVars, status, info, kind, asked, syncVars>>

\* What fetchStatus returned is shown; restartRelay's finally.
RefreshEnds(c, result) ==
  /\ status' = result
  /\ Return(c)
  /\ busy' = IF kind[c] = "restart" THEN FALSE ELSE busy
  /\ UNCHANGED <<base, db, info>>

\* The status as the page keeps it, and, as a history, what the runtime announced.
StatusOf(b, announced, addrs, route) ==
  [base |-> b, announced |-> announced, addrs |-> Normalize(b.local, addrs),
   route |-> route]

\* The relay's side of GET /status.  It asks the runtime it has at that moment:
\* one that runs, or one that is being stopped, or, until the next one is started
\* or when that failed, one that is stopped and announces at most what its
\* operator appended.
RelayStatus(b) ==
  {StatusOf(b, announced, FilterForRequest(announced, b.requester), "status") :
     announced \in RelayAddrs[b.relay]}

\* GET /status: an answer of the relay; a 401 or none at all; or anything else.
StatusAnswered(c) ==
  /\ pc[c] = "status"
  /\ \/ \E answer \in RelayStatus(asked[c]) : RefreshEnds(c, answer)
     \/ RefreshEnds(c, None)
     \/ /\ Goto(c, "fallback")
        /\ UNCHANGED <<pageVars, status, info, kind, asked, syncVars>>

\* GET /multiaddrs, of another program at that base: addresses nobody filtered,
\* or nothing of use.
FallbackAnswered(c) ==
  LET b == asked[c] IN
  /\ pc[c] = "fallback"
  /\ \/ \E announced \in RelayAddrs[b.relay] :
          RefreshEnds(c, StatusOf(b, announced, announced, "fallback"))
     \/ RefreshEnds(c, None)

----------------------------------------------------------------------------
\* checkRelayReplication and syncRelayReplication.  Both wait for a page that
\* is not busy and do not make it busy.

\* fetchPinnedDatabase builds a URL, which throws for a base that is a path.
LookupStep == IF base.relative THEN "lookupThrows" ELSE "lookup"

\* Mutant: the database is read again when the answer is there.
SayOfOpenDb(c, what) == info' = [db |-> db, says |-> what]

\* What is said is about the database the call took, open or not by now.
Say(c, what) == info' = [db |-> asked[c], says |-> what]

Check(c) ==
  /\ ~busy
  /\ db # None
  /\ Begin(c, "check", db, LookupStep)
  /\ UNCHANGED <<pageVars, status, info, syncVars>>

Sync(c) ==
  /\ ~busy
  /\ db # None
  /\ Begin(c, "sync", db, "sync")
  /\ UNCHANGED <<pageVars, status, info, syncVars>>

Coalesced == {"coalesced", "coalescedFound"}
Outcomes == Coalesced \cup {"found", "nothing", "fails"}

\* Mutant: the attempts are not counted.
RetriesUncounted(c, outcome) == outcome \in Coalesced \cup {"nothing"}

\* Mutant: an update does not end the loop.
RetriesFound(c, outcome) ==
  attempts[c] + 1 < SyncAttempts /\ outcome \in Outcomes \ {"fails"}

\* The condition of the retry loop, after an attempt with this outcome.
Retries(c, outcome) ==
  attempts[c] + 1 < SyncAttempts /\ outcome \in Coalesced \cup {"nothing"}

\* One syncDatabase of the request: it finds an update or media, or nothing; it
\* joins one that is running; or it fails or throws.
SyncAttempt(c) ==
  /\ pc[c] = "sync"
  /\ \E outcome \in Outcomes :
       /\ attempts' = [attempts EXCEPT
            ![c] = IF @ < SyncAttempts THEN @ + 1 ELSE @]
       /\ last' = [last EXCEPT ![c] = outcome]
       /\ outcomes' = [outcomes EXCEPT ![c] = @ \cup {outcome}]
       /\ IF Retries(c, outcome) THEN UNCHANGED pc ELSE Goto(c, "syncAnswer")
  /\ UNCHANGED <<pageVars, status, info, kind, asked>>

\* triggerPinningSync returns, and the entry is looked up.
SyncAnswered(c) ==
  /\ pc[c] = "syncAnswer"
  /\ last[c] # "fails"
  /\ Goto(c, LookupStep)
  /\ UNCHANGED <<pageVars, status, info, kind, asked, syncVars>>

\* An error status, or the call is lost.
SyncFailed(c) ==
  /\ pc[c] = "sync" \/ (pc[c] = "syncAnswer" /\ last[c] = "fails")
  /\ Say(c, "error")
  /\ Return(c)
  /\ UNCHANGED <<pageVars, status>>

\* fetchPinnedDatabase catches what it throws itself.  The message of a sync
\* tells the outcome, whatever the lookup brings.
LookupAnswered(c) ==
  /\ pc[c] \in {"lookup", "lookupThrows"}
  /\ \E answer \in IF pc[c] = "lookup"
                   THEN {"entry", "noEntry", "notFound", "error"} ELSE {"error"} :
       Say(c, IF kind[c] = "sync" THEN last[c] ELSE answer)
  /\ Goto(c, "stats")
  /\ UNCHANGED <<pageVars, status, kind, asked, syncVars>>

\* fetchPinningStats; the numbers themselves are left out.
StatsAnswered(c) ==
  /\ pc[c] = "stats"
  /\ Return(c)
  /\ UNCHANGED <<pageVars, status, info>>

----------------------------------------------------------------------------
\* The user, as far as the calls are concerned.

EditBase ==
  /\ \E b \in Bases \ {base} : base' = b
  /\ UNCHANGED <<status, db, busy, info, callVars, syncVars>>

\* ensureTodoDbOpen: a to-do button opens the database of the name that is
\* entered.  What was said of another one stays on the page.
OpenDb(d) ==
  /\ ~busy
  /\ db # d
  /\ db' = d
  /\ UNCHANGED <<base, status, busy, info, callVars, syncVars>>

\* resetTodoState, when the node is stopped or made anew.
ResetTodo ==
  /\ ~busy
  /\ db # None
  /\ db' = None
  /\ info' = None
  /\ UNCHANGED <<base, status, busy, callVars, syncVars>>

CallStep(c) ==
  \/ RestartAnswered(c) \/ HealthAnswered(c) \/ StatusAnswered(c)
  \/ FallbackAnswered(c) \/ SyncAttempt(c) \/ SyncAnswered(c) \/ SyncFailed(c)
  \/ LookupAnswered(c) \/ StatsAnswered(c)

Next ==
  \/ \E c \in Calls :
       Refresh(c) \/ Restart(c) \/ Check(c) \/ Sync(c) \/ CallStep(c)
  \/ EditBase
  \/ \E d \in Dbs : OpenDb(d)
  \/ ResetTodo

\* A fetch is answered or fails: the relay answers, or the connection breaks.
Spec == Init /\ [][Next]_vars
FairSpec == Spec /\ \A c \in Calls : WF_vars(CallStep(c))

----------------------------------------------------------------------------
\* Properties.

\* Every variable has its type.
TypeOK ==
  /\ base \in Bases
  /\ status = None \/ status \in [base : Bases, announced : SUBSET Address,
                                  addrs : SUBSET Address,
                                  route : {"status", "fallback"}]
  /\ busy \in BOOLEAN
  /\ db \in Dbs \cup {None}
  /\ info = None \/ info \in
       [db : Dbs, says : Outcomes \cup {"entry", "noEntry", "notFound", "error"}]
  /\ pc \in [Calls -> {"idle", "restart", "health", "status", "fallback", "sync",
                       "syncAnswer", "lookup", "lookupThrows", "stats", "done"}]
  /\ kind \in [Calls -> {"none", "refresh", "restart", "check", "sync"}]
  /\ asked \in [Calls -> Bases \cup Dbs \cup {None}]
  /\ attempts \in [Calls -> 0..SyncAttempts]
  /\ last \in [Calls -> Outcomes \cup {"none"}]
  /\ outcomes \in [Calls -> SUBSET Outcomes]

\* What the page would dial now (relayDialMultiaddrs and its callers): the
\* status may be of another base than the one entered meanwhile.
Picked == IF status = None THEN {} ELSE Pick(DialAddrs(base.local, status.addrs))

\* A host as the page sees it, of a relay that listens on every interface.
Reaches(a, r) ==
  CASE a.host = "loopback" -> Place[r] = "host"
    [] a.host = "private"  -> Place[r] \in {"host", "lan"}
    [] OTHER               -> TRUE

\* The status is what GET /status of the base that is entered told a caller
\* whom the relay takes for a local one only if it is on its machine: not a page
\* of the dev server opened on another device, whose requests are forwarded.
OwnStatus ==
  /\ status.base = base
  /\ status.route = "status"
  /\ base.requester = "loopback" => Place[base.relay] = "host"

\* The page never dials an address of its own machine or network in place of
\* the relay whose status it has read.  While a base that is not local is
\* entered this holds of every status, of another base, of a caller a proxy made
\* a local one, and of the fallback; a local base promises it for its own
\* status only, and an edit to one opens the addresses of any other.
PickReachesRelay ==
  status # None /\ (base.local => OwnStatus)
    => \A a \in Picked : Reaches(a, status.base.relay)

\* A WebSocket address that the relay's runtime announced is not filtered away
\* for the page it is meant for: any one for a local caller of a local base, so
\* that a relay without public addresses can be dialled from its own machine
\* (src/public-multiaddr-filter.ts:54), and a public one for every page.  It is
\* for the base that is still entered; a runtime that is stopped may announce
\* none.
CallersCanDial ==
  /\ status # None
  /\ status.base = base
  /\ status.route = "status"
  /\ \E a \in status.announced :
       /\ a.layer \in {"ws", "wss"}
       /\ IsPublic(a) \/ (base.local /\ base.requester = "loopback")
  => Picked # {}

\* A sync that is reported to have brought nothing had no attempt of its own
\* that brought something: repeating it loses no news but that of attempts
\* that only joined a running sync.
NothingMeansNothing ==
  \A c \in Calls :
    pc[c] = "syncAnswer" /\ last[c] \notin {"found", "fails"}
      => "found" \notin outcomes[c]

\* Every call comes to its end and gives the buttons back, for no sync is
\* repeated for ever.
CallsEnd == \A c \in Calls : pc[c] # "idle" ~> pc[c] = "done" /\ ~busy
=============================================================================
