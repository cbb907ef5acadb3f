-------------------------- MODULE BrowserDiscovery --------------------------
(***************************************************************************)
(* The discovery table of one browser node and the dials it makes on its   *)
(* own (apps/pwa/src/lib/browserNode.ts).                                  *)
(*                                                                         *)
(* Four events lead to upsertDiscoveryRow: peer:discovery, peer:update,    *)
(* connection:open and a message on the discovery topic.  It runs without  *)
(* an await up to the first dial of the attempt it may start, so one event *)
(* is one step.  An attempt dials the advertised addresses and, if there   *)
(* are none or they fail, the peer id; what libp2p answers, and the        *)
(* connections it holds, are left to the environment.  The page sees a     *)
(* copy of the table, sent 50 ms after the first change that has not been  *)
(* sent.  Which events are heard depends on how far start() or stop() is.  *)
(*                                                                         *)
(* An advert is the set of addresses it carries.  The texts of a row (its  *)
(* detail, its flash deadline) and the debug log are left out.  Events     *)
(* about the node itself return at once and are left out too.              *)
(***************************************************************************)
EXTENDS Integers, FiniteSets

CONSTANTS Peers,        \* the other browsers and relays
          Addrs,        \* the addresses an advert can carry, each a set of
                        \* the protocols in it
          Adverts,      \* the adverts to consider
          MaxEvents     \* bound: events about each peer

ASSUME AdvertAssumption == Adverts \subseteq SUBSET Addrs
ASSUME EventsAssumption == MaxEvents \in [Peers -> Nat]

VARIABLES phase,        \* where start() or stop() is
          conn,         \* what getConnectionMode answers for each peer
          rows,         \* discoveryMap
          dialing,      \* the peers of the attempts in flight
          lastFp,       \* lastAutoDialFingerprint
          attempts,     \* the calls of runAutoDialAttempt in flight
          timer,        \* discoveryNotifyTimer # null
          shown,        \* the rows the page was last given
          events        \* events about each peer so far

vars == <<phase, conn, rows, dialing, lastFp, attempts, timer, shown, events>>

\* isDialableDiscoveryMultiaddr.
Dialable ==
    {a \in Addrs : a \cap {"webrtc", "webrtc-direct", "webtransport", "ws", "wss",
                            "p2p-circuit"} # {}}

\* start(): libp2p is starting, then Helia; "failed" and "leaked" when one of
\* them throws, the second with libp2p left running; then stop().
Phases == {"starting", "started", "running", "failed", "leaked",
           "stopping", "stopped"}
Hooked == phase \in {"started", "running", "leaked"}
Listening == phase = "starting" \/ Hooked
Alive == Listening \/ phase = "stopping"

Modes == {"none", "relay-only", "direct"}
NoRow == [autoDial |-> "absent"]
Rows == [addrs : SUBSET Addrs, eligible : BOOLEAN,
         autoDial : {"pending", "ok", "error"}]
NoFp == [mode |-> "absent"]
Fingerprints == [mode : Modes, addrs : SUBSET Dialable]
Attempts == [id : Nat, peer : Peers, addrs : SUBSET Dialable,
             at : {"addrs", "peer"}]
NoRows == [p \in Peers |-> NoRow]
NoFps == [p \in Peers |-> NoFp]

Init ==
    /\ phase = "starting"
    /\ conn = [p \in Peers |-> "none"]
    /\ rows = NoRows
    /\ dialing = {}
    /\ lastFp = NoFps
    /\ attempts = {}
    /\ timer = FALSE
    /\ shown = NoRows
    /\ events = [p \in Peers |-> 0]

-----------------------------------------------------------------------------
(* The parts of an event *)

\* Mutant: the addresses nobody can dial are part of the fingerprint.
FingerprintUnfiltered(p, advert, mode) ==
    LET fp == [mode |-> mode, addrs |-> advert] IN
    IF mode = "direct" \/ lastFp[p] = fp THEN NoFp ELSE fp

\* getAutoDialFingerprint: NoFp where the code returns null, for a peer with
\* a direct connection and for an advert that was tried last.
Fingerprint(p, advert, mode) ==
    LET fp == [mode |-> mode, addrs |-> advert \cap Dialable] IN
    IF mode = "direct" \/ lastFp[p] = fp THEN NoFp ELSE fp

\* Mutant: every event puts the row back to pending.
UpsertedPending(p, advert, mode, fp) ==
    [addrs    |-> advert,
     eligible |-> mode # "direct",
     autoDial |-> IF mode = "direct" THEN "ok" ELSE "pending"]

\* The row upsertDiscoveryRow leaves behind.
Upserted(p, advert, mode, fp) ==
    [addrs    |-> advert,
     eligible |-> mode # "direct",
     autoDial |-> IF fp # NoFp THEN "pending"
                  ELSE IF rows[p] = NoRow \/ mode = "direct" THEN "ok"
                  ELSE rows[p].autoDial]

\* Mutant: neither function looks at the dials in flight.
MayAttemptAgain(p, fp) == fp # NoFp

\* The part of runAutoDialAttempt before its first await.  The test of
\* dialing is the one of upsertDiscoveryRow and runAutoDialAttempt alike.
MayAttempt(p, fp) == fp # NoFp /\ p \notin dialing

\* Mutant: the fingerprint is not recorded when the attempt starts.
RecordFingerprintLate(p, fp) == UNCHANGED lastFp

RecordFingerprint(p, fp) == lastFp' = [lastFp EXCEPT ![p] = fp]

BeginAttempt(p, fp) ==
    /\ dialing' = dialing \cup {p}
    /\ RecordFingerprint(p, fp)
    /\ attempts' = attempts \cup
         {[id |-> events[p], peer |-> p, addrs |-> fp.addrs,
           at |-> IF fp.addrs = {} THEN "peer" ELSE "addrs"]}

\* upsertDiscoveryRow, when getConnectionMode answers mode.
Upsert(p, advert, mode) ==
    LET fp == Fingerprint(p, advert, mode) IN
    /\ events[p] < MaxEvents[p]
    /\ events' = [events EXCEPT ![p] = @ + 1]
    /\ conn' = [conn EXCEPT ![p] = mode]
    /\ rows' = [rows EXCEPT ![p] = Upserted(p, advert, mode, fp)]
    /\ timer' = TRUE
    /\ IF MayAttempt(p, fp) THEN BeginAttempt(p, fp)
                            ELSE UNCHANGED <<dialing, lastFp, attempts>>
    /\ UNCHANGED <<phase, shown>>

\* peer:discovery.  Its listener is never removed, so it also answers while
\* stop() waits for libp2p; a stopped libp2p sends no more events.
Discovered(p) ==
    /\ Alive
    /\ \E advert \in Adverts : Upsert(p, advert, conn[p])

\* peer:update.  stop() removes its listener first; an update without
\* addresses is ignored.
Updated(p) ==
    /\ Listening
    /\ \E advert \in Adverts \ {{}} : Upsert(p, advert, conn[p])

\* connection:open: libp2p lists the connection already, and its address
\* takes the place of the advertised ones.  stop() removes this listener too.
ConnectionOpened(p) ==
    /\ Alive
    /\ \E addr \in Addrs :
         LET mode == IF "p2p-circuit" \in addr /\ conn[p] # "direct"
                     THEN "relay-only" ELSE "direct" IN
         IF Listening THEN Upsert(p, {addr}, mode)
         ELSE /\ conn' = [conn EXCEPT ![p] = mode]
              /\ UNCHANGED <<phase, rows, dialing, lastFp, attempts, timer,
                             shown, events>>

\* A signed message on the discovery topic, from a peer that has no row yet.
\* Its listener is added when libp2p has started.
PubsubMessage(p) ==
    /\ Hooked
    /\ rows[p] = NoRow
    /\ Upsert(p, {}, conn[p])

-----------------------------------------------------------------------------
(* An attempt comes back *)

\* Mutant: the outcome is written even when stop() has dropped the row.
OutcomeAlways(p, result) ==
    rows' = [rows EXCEPT ![p] = [addrs |-> {}, eligible |-> TRUE,
                                 autoDial |-> result]]

\* Mutant: a dial that comes back does not touch the row.
OutcomeForgotten(p, result) == UNCHANGED rows

\* Writes the outcome to the row, if there still is one.
Outcome(p, result) ==
    rows' = IF rows[p] = NoRow THEN rows
            ELSE [rows EXCEPT ![p].autoDial = result]

\* Mutant: the finally block forgets to schedule the notification.
NotifyOutcomeForgotten == UNCHANGED timer

\* scheduleDiscoveryNotify, as the finally block of an attempt calls it.
NotifyOutcome == timer' = TRUE

Settle(a, result) ==
    /\ Outcome(a.peer, result)
    /\ dialing' = dialing \ {a.peer}
    /\ attempts' = attempts \ {a}
    /\ NotifyOutcome
    /\ UNCHANGED <<phase, conn, lastFp, shown, events>>

\* No advertised address could be dialled: the peer id is tried.
FallBack(a) ==
    /\ a.at = "addrs"
    /\ attempts' = (attempts \ {a}) \cup {[a EXCEPT !.at = "peer"]}
    /\ UNCHANGED <<phase, conn, rows, dialing, lastFp, timer, shown, events>>

DialSucceeds(a) == Settle(a, "ok")

DialFails(a) ==
    /\ a.at = "peer"
    /\ Settle(a, "error")

-----------------------------------------------------------------------------
(* The page, libp2p's connections, and stop() *)

\* The 50 ms are over.
Notify ==
    /\ timer
    /\ timer' = FALSE
    /\ shown' = rows
    /\ UNCHANGED <<phase, conn, rows, dialing, lastFp, attempts, events>>

\* connection:close, which only the debug log listens to: the last connection
\* of a peer, or its direct one.
ConnectionCloses(p) ==
    /\ Alive
    /\ \/ conn[p] # "none" /\ conn' = [conn EXCEPT ![p] = "none"]
       \/ conn[p] = "direct" /\ conn' = [conn EXCEPT ![p] = "relay-only"]
    /\ UNCHANGED <<phase, rows, dialing, lastFp, attempts, timer, shown, events>>

\* start() goes on, or throws: libp2p.start() and then helia.start() settle.
\* A libp2p that fails to start stops itself.
StartGoesOn ==
    /\ \/ phase = "starting" /\ phase' \in {"started", "failed"}
       \/ phase = "started" /\ phase' \in {"running", "leaked"}
    /\ conn' = IF phase' = "failed" THEN [p \in Peers |-> "none"] ELSE conn
    /\ UNCHANGED <<rows, dialing, lastFp, attempts, timer, shown, events>>

\* stop() up to its first await.
StopBegins ==
    /\ phase = "running"
    /\ phase' = "stopping"
    /\ UNCHANGED <<conn, rows, dialing, lastFp, attempts, timer, shown, events>>

\* Mutant: stop() keeps the table.
ClearRowsForgotten == UNCHANGED rows

ClearRows == rows' = NoRows

\* stop() after helia.stop() and libp2p.stop(): no connection is left, the
\* table is dropped and the page told.  The timer is not cleared, and dials
\* whose promise is not settled yet still come back.
StopEnds ==
    /\ phase = "stopping"
    /\ phase' = "stopped"
    /\ conn' = [p \in Peers |-> "none"]
    /\ ClearRows
    /\ dialing' = {}
    /\ lastFp' = NoFps
    /\ shown' = NoRows
    /\ UNCHANGED <<attempts, timer, events>>

Next ==
    \/ \E p \in Peers : Discovered(p) \/ Updated(p) \/ ConnectionOpened(p)
                       \/ PubsubMessage(p) \/ ConnectionCloses(p)
    \/ \E a \in attempts : FallBack(a) \/ DialSucceeds(a) \/ DialFails(a)
    \/ Notify
    \/ StartGoesOn
    \/ StopBegins
    \/ StopEnds

\* libp2p settles every dial (its dial timeout), and the browser fires timers
\* that are due.
Fairness ==
    /\ WF_vars(Notify)
    /\ \A p \in Peers :
         WF_vars(\E a \in attempts :
                    a.peer = p /\ (FallBack(a) \/ DialSucceeds(a) \/ DialFails(a)))

Spec == Init /\ [][Next]_vars
FairSpec == Spec /\ Fairness

-----------------------------------------------------------------------------
(* Properties *)

\* Every variable keeps its type.
TypeOK ==
    /\ phase \in Phases
    /\ conn \in [Peers -> Modes]
    /\ rows \in [Peers -> Rows \cup {NoRow}]
    /\ dialing \subseteq Peers
    /\ lastFp \in [Peers -> Fingerprints \cup {NoFp}]
    /\ attempts \subseteq Attempts
    /\ timer \in BOOLEAN
    /\ shown \in [Peers -> Rows \cup {NoRow}]
    /\ \A p \in Peers : events[p] \in 0 .. MaxEvents[p]

\* However events and dial results interleave, there is one attempt per peer
\* at most, and until stop() empties it the dialing set names exactly the
\* peers that have one (runAutoDialAttempt's add, delete and guard).
OneAttemptPerPeer ==
    /\ \A a, b \in attempts : a.peer = b.peer => a = b
    /\ phase # "stopped" => dialing = {a.peer : a \in attempts}

\* A row says "pending" only while an attempt is in flight that will settle
\* it: no event leaves a row pending that nobody is going to change, although
\* an event of a new fingerprint marks it pending without starting a dial.
PendingIsDialing ==
    \A p \in Peers : rows[p].autoDial = "pending" => p \in dialing

\* The page is never left with an old table: wherever it differs from the
\* node's, a notification is on its way.
StaleTableIsRefreshed == shown # rows => timer

\* After stop() the table is empty for good, on the page too, in spite of the
\* dials and the timer that outlive it.
StoppedIsEmpty ==
    phase = "stopped" => rows = NoRows /\ shown = NoRows /\ dialing = {}

\* A peer is not dialled twice in a row with the same fingerprint, nor while
\* it has a direct connection: repeated adverts cause no storm of dials.
NoRepeatedDial ==
    [][\A a \in attempts' :
         (\A b \in attempts : <<b.peer, b.id>> # <<a.peer, a.id>>) =>
            /\ conn'[a.peer] # "direct"
            /\ lastFp'[a.peer] # lastFp[a.peer]
            /\ lastFp'[a.peer].addrs = a.addrs]_vars

\* A peer the page shows as pending does not stay so.
PendingSettles ==
    \A p \in Peers :
        shown[p].autoDial = "pending" ~> shown[p].autoDial # "pending"
=============================================================================
