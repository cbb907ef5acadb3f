----------------------- MODULE BrowserDiscoveryProofs -----------------------
(***************************************************************************)
(* Proofs about BrowserDiscovery, for every set of peers, addresses and    *)
(* adverts and any number of events.                                       *)
(***************************************************************************)
EXTENDS BrowserDiscovery, TLAPS

-----------------------------------------------------------------------------
(* The functions an event is made of *)

\* An event that upserts a row finds libp2p alive, and its advert and the
\* answer of getConnectionMode are of their types.
Event(p) == \E advert \in SUBSET Addrs, mode \in Modes : Alive /\ Upsert(p, advert, mode)

\* A connection of a peer opens or closes without anything else happening.
OnlyConn(p) ==
    /\ \E mode \in Modes : conn' = [conn EXCEPT ![p] = mode]
    /\ UNCHANGED <<phase, rows, dialing, lastFp, attempts, timer, shown, events>>

Typed == TypeOK /\ events \in [Peers -> Nat]

LEMMA FingerprintType ==
    ASSUME NEW p \in Peers, NEW advert \in SUBSET Addrs, NEW mode \in Modes
    PROVE  Fingerprint(p, advert, mode) \in Fingerprints \cup {NoFp}
  <1>1. advert \cap Dialable \in SUBSET Dialable
    OBVIOUS
  <1> QED
    BY <1>1 DEF Fingerprint, Fingerprints

\* A fingerprint the function returns is of a peer without a direct
\* connection, and not the one recorded last.
LEMMA FingerprintFresh ==
    ASSUME NEW p \in Peers, NEW advert \in SUBSET Addrs, NEW mode \in Modes,
           Fingerprint(p, advert, mode) # NoFp
    PROVE  /\ mode # "direct"
           /\ lastFp[p] # Fingerprint(p, advert, mode)
           /\ Fingerprint(p, advert, mode) \in Fingerprints
  BY FingerprintType DEF Fingerprint

LEMMA UpsertedType ==
    ASSUME Typed, NEW p \in Peers, NEW advert \in SUBSET Addrs,
           NEW mode \in Modes, NEW fp
    PROVE  Upserted(p, advert, mode, fp) \in Rows
  <1>1. rows[p] # NoRow => rows[p].autoDial \in {"pending", "ok", "error"}
    BY DEF Typed, TypeOK, Rows
  <1>2. (IF fp # NoFp THEN "pending"
         ELSE IF rows[p] = NoRow \/ mode = "direct" THEN "ok"
         ELSE rows[p].autoDial) \in {"pending", "ok", "error"}
    BY <1>1
  <1>3. (mode # "direct") \in BOOLEAN
    OBVIOUS
  <1> QED
    BY <1>2, <1>3 DEF Upserted, Rows

-----------------------------------------------------------------------------
(* The steps *)

LEMMA NextCases ==
    ASSUME Typed, [Next]_vars
    PROVE  \/ \E p \in Peers : Event(p) \/ OnlyConn(p)
           \/ \E a \in attempts : FallBack(a) \/ DialSucceeds(a) \/ DialFails(a)
           \/ Notify \/ StartGoesOn \/ StopBegins \/ StopEnds
           \/ UNCHANGED vars
  <1>1. ASSUME NEW p \in Peers, Discovered(p)
        PROVE  Event(p)
    BY <1>1, AdvertAssumption DEF Discovered, Event, Typed, TypeOK
  <1>2. ASSUME NEW p \in Peers, Updated(p)
        PROVE  Event(p)
    BY <1>2, AdvertAssumption DEF Updated, Event, Typed, TypeOK, Alive
  <1>3. ASSUME NEW p \in Peers, ConnectionOpened(p)
        PROVE  Event(p) \/ OnlyConn(p)
    <2>1. PICK addr \in Addrs :
            LET mode == IF "p2p-circuit" \in addr /\ conn[p] # "direct"
                        THEN "relay-only" ELSE "direct" IN
            IF Listening THEN Upsert(p, {addr}, mode)
            ELSE /\ conn' = [conn EXCEPT ![p] = mode]
                 /\ UNCHANGED <<phase, rows, dialing, lastFp, attempts, timer,
                                shown, events>>
      BY <1>3 DEF ConnectionOpened
    <2> QED
      BY <1>3, <2>1 DEF ConnectionOpened, Event, OnlyConn, Modes
  <1>4. ASSUME NEW p \in Peers, PubsubMessage(p)
        PROVE  Event(p)
    BY <1>4 DEF PubsubMessage, Event, Typed, TypeOK, Alive, Listening
  <1>5. ASSUME NEW p \in Peers, ConnectionCloses(p)
        PROVE  OnlyConn(p)
    BY <1>5 DEF ConnectionCloses, OnlyConn, Modes
  <1> QED
    BY <1>1, <1>2, <1>3, <1>4, <1>5 DEF Next

\* What an event leaves behind.  A dial it starts is of a peer without a direct
\* connection and with a new fingerprint, and of a peer that has none.
LEMMA EventEffect ==
    ASSUME Typed, NEW p \in Peers, Event(p)
    PROVE  /\ Alive
           /\ timer' = TRUE /\ UNCHANGED <<phase, shown>>
           /\ events' = [events EXCEPT ![p] = @ + 1] /\ events[p] < MaxEvents[p]
           /\ \E mode \in Modes : conn' = [conn EXCEPT ![p] = mode]
           /\ \E row \in Rows :
                /\ rows' = [rows EXCEPT ![p] = row]
                /\ row.autoDial = "pending" =>
                     p \in dialing' \/ rows[p].autoDial = "pending"
           /\ \/ UNCHANGED <<dialing, lastFp, attempts>>
              \/ /\ p \notin dialing
                 /\ \E fp \in Fingerprints :
                      /\ BeginAttempt(p, fp)
                      /\ conn'[p] # "direct" /\ lastFp[p] # fp
  <1>1. PICK advert \in SUBSET Addrs, mode \in Modes : Alive /\ Upsert(p, advert, mode)
    BY DEF Event
  <1> DEFINE fp == Fingerprint(p, advert, mode)
             row == Upserted(p, advert, mode, fp)
  <1>2. /\ events[p] < MaxEvents[p]
        /\ events' = [events EXCEPT ![p] = @ + 1]
        /\ conn' = [conn EXCEPT ![p] = mode]
        /\ rows' = [rows EXCEPT ![p] = row]
        /\ timer' = TRUE
        /\ IF MayAttempt(p, fp) THEN BeginAttempt(p, fp)
                                ELSE UNCHANGED <<dialing, lastFp, attempts>>
        /\ UNCHANGED <<phase, shown>>
    BY <1>1 DEF Upsert
  <1>3. row \in Rows
    BY UpsertedType
  <1>4. row.autoDial = "pending" => p \in dialing' \/ rows[p].autoDial = "pending"
    <2>1. CASE fp # NoFp
      BY <1>2, <2>1 DEF MayAttempt, BeginAttempt
    <2>2. CASE fp = NoFp
      BY <2>2 DEF Upserted
    <2> QED
      BY <2>1, <2>2
  <1>5. CASE MayAttempt(p, fp)
    <2>1. conn'[p] = mode
      BY <1>2 DEF Typed, TypeOK
    <2>2. /\ p \notin dialing /\ BeginAttempt(p, fp) /\ fp \in Fingerprints
          /\ mode # "direct" /\ lastFp[p] # fp
      BY <1>2, <1>5, FingerprintFresh DEF MayAttempt
    <2> QED
      BY <1>1, <1>2, <1>3, <1>4, <2>1, <2>2
  <1>6. CASE ~MayAttempt(p, fp)
    BY <1>1, <1>2, <1>3, <1>4, <1>6
  <1> QED
    BY <1>5, <1>6

\* A dial that comes back ends its attempt and touches only its own row.
LEMMA SettleEffect ==
    ASSUME NEW a \in attempts, DialSucceeds(a) \/ DialFails(a)
    PROVE  /\ timer' = TRUE
           /\ \E result \in {"ok", "error"} :
                rows' = IF rows[a.peer] = NoRow THEN rows
                        ELSE [rows EXCEPT ![a.peer].autoDial = result]
           /\ dialing' = dialing \ {a.peer}
           /\ attempts' = attempts \ {a}
           /\ UNCHANGED <<phase, conn, lastFp, shown, events>>
  BY DEF DialSucceeds, DialFails, Settle, Outcome, NotifyOutcome

\* What a dial's outcome makes of a table.
LEMMA OutcomeType ==
    ASSUME Typed, NEW p \in Peers, NEW result \in {"ok", "error"}, rows[p] # NoRow
    PROVE  [rows EXCEPT ![p].autoDial = result] \in [Peers -> Rows \cup {NoRow}]
  <1>1. rows[p] \in Rows
    BY DEF Typed, TypeOK
  <1>2. [rows[p] EXCEPT !.autoDial = result] \in Rows
    BY <1>1 DEF Rows
  <1> QED
    BY <1>2 DEF Typed, TypeOK

-----------------------------------------------------------------------------
(* The inductive invariant.  The properties are inductive together, given    *)
(* the types: one attempt per peer is what keeps a finished dial from taking *)
(* another one's peer out of the dialing set.                                *)

IInv == Typed /\ OneAttemptPerPeer /\ PendingIsDialing /\ StaleTableIsRefreshed
              /\ StoppedIsEmpty

LEMMA TypedInit == Init => Typed
  <1> SUFFICES ASSUME Init PROVE Typed
    OBVIOUS
  <1>1. /\ phase \in Phases /\ dialing \subseteq Peers /\ attempts \subseteq Attempts
        /\ timer \in BOOLEAN /\ conn \in [Peers -> Modes]
    BY DEF Init, Phases, Modes
  <1>2. /\ rows \in [Peers -> Rows \cup {NoRow}] /\ shown \in [Peers -> Rows \cup {NoRow}]
        /\ lastFp \in [Peers -> Fingerprints \cup {NoFp}]
    BY DEF Init, NoRows, NoFps
  <1>3. events \in [Peers -> Nat] /\ \A p \in Peers : events[p] \in 0 .. MaxEvents[p]
    BY EventsAssumption DEF Init
  <1> QED
    BY <1>1, <1>2, <1>3 DEF Typed, TypeOK

LEMMA TypedNext == Typed /\ [Next]_vars => Typed'
  <1> SUFFICES ASSUME Typed, [Next]_vars PROVE Typed'
    OBVIOUS
  <1> USE DEF Typed, TypeOK
  <1>1. ASSUME NEW p \in Peers, Event(p)
        PROVE  Typed'
    <2>1. phase' \in Phases /\ timer' \in BOOLEAN /\ shown' \in [Peers -> Rows \cup {NoRow}]
      BY <1>1, EventEffect
    <2>2. /\ events' \in [Peers -> Nat]
          /\ \A q \in Peers : events'[q] \in 0 .. MaxEvents[q]
      <3>1. events' = [events EXCEPT ![p] = @ + 1] /\ events[p] < MaxEvents[p]
        BY <1>1, EventEffect
      <3>2. MaxEvents[p] \in Nat /\ events \in [Peers -> Nat]
        BY EventsAssumption
      <3>3. events'[p] = events[p] + 1 /\ \A q \in Peers : q # p => events'[q] = events[q]
        BY <3>1, <3>2
      <3>4. events[p] + 1 \in 0 .. MaxEvents[p]
        BY <3>1, <3>2
      <3>5. events' \in [Peers -> Nat]
        BY <3>1, <3>2
      <3> QED
        BY <3>3, <3>4, <3>5
    <2>3. conn' \in [Peers -> Modes] /\ rows' \in [Peers -> Rows \cup {NoRow}]
      <3>1. PICK mode \in Modes : conn' = [conn EXCEPT ![p] = mode]
        BY <1>1, EventEffect
      <3>2. PICK row \in Rows : rows' = [rows EXCEPT ![p] = row]
        BY <1>1, EventEffect
      <3> QED
        BY <3>1, <3>2
    <2>4. /\ dialing' \subseteq Peers
          /\ lastFp' \in [Peers -> Fingerprints \cup {NoFp}]
          /\ attempts' \subseteq Attempts
      <3>1. CASE UNCHANGED <<dialing, lastFp, attempts>>
        BY <3>1
      <3>2. ASSUME NEW fp \in Fingerprints, BeginAttempt(p, fp)
            PROVE  /\ dialing' \subseteq Peers
                   /\ lastFp' \in [Peers -> Fingerprints \cup {NoFp}]
                   /\ attempts' \subseteq Attempts
        BY <3>2, EventsAssumption
          DEF BeginAttempt, RecordFingerprint, Fingerprints, Attempts
      <3> QED
        BY <1>1, <3>1, <3>2, EventEffect
    <2> QED
      BY <2>1, <2>2, <2>3, <2>4
  <1>2. ASSUME NEW p \in Peers, OnlyConn(p)
        PROVE  Typed'
    BY <1>2 DEF OnlyConn
  <1>3. ASSUME NEW a \in attempts, FallBack(a)
        PROVE  Typed'
    BY <1>3 DEF FallBack, Attempts
  <1>4. ASSUME NEW a \in attempts, DialSucceeds(a) \/ DialFails(a)
        PROVE  Typed'
    <2>1. a.peer \in Peers
      BY DEF Attempts
    <2>2. rows' \in [Peers -> Rows \cup {NoRow}]
      <3>1. PICK result \in {"ok", "error"} :
              rows' = IF rows[a.peer] = NoRow THEN rows
                      ELSE [rows EXCEPT ![a.peer].autoDial = result]
        BY <1>4, SettleEffect
      <3> QED
        BY <2>1, <3>1, OutcomeType
    <2> QED
      BY <1>4, <2>2, SettleEffect
  <1>5. CASE Notify
    BY <1>5 DEF Notify
  <1>6. CASE StartGoesOn
    BY <1>6 DEF StartGoesOn, Phases, Modes
  <1>7. CASE StopBegins
    BY <1>7 DEF StopBegins, Phases
  <1>8. CASE StopEnds
    BY <1>8 DEF StopEnds, ClearRows, Phases, Modes, NoRows, NoFps
  <1>9. CASE UNCHANGED vars
    BY <1>9 DEF vars
  <1> QED
    BY <1>1, <1>2, <1>3, <1>4, <1>5, <1>6, <1>7, <1>8, <1>9, NextCases

LEMMA OneAttemptPerPeerNext == IInv /\ [Next]_vars => OneAttemptPerPeer'
  <1> SUFFICES ASSUME IInv, [Next]_vars PROVE OneAttemptPerPeer'
    OBVIOUS
  <1>0. Typed /\ OneAttemptPerPeer /\ StoppedIsEmpty
    BY DEF IInv
  <1> USE DEF OneAttemptPerPeer
  <1>1. ASSUME NEW p \in Peers, Event(p)
        PROVE  OneAttemptPerPeer'
    <2>1. phase # "stopped" /\ phase' = phase
      BY <1>0, <1>1, EventEffect DEF Alive, Listening, Hooked
    <2>2. CASE UNCHANGED <<dialing, lastFp, attempts>>
      BY <1>0, <2>1, <2>2
    <2>3. ASSUME NEW fp \in Fingerprints, BeginAttempt(p, fp), p \notin dialing
          PROVE  OneAttemptPerPeer'
      <3> DEFINE new == [id |-> events[p], peer |-> p, addrs |-> fp.addrs,
                         at |-> IF fp.addrs = {} THEN "peer" ELSE "addrs"]
      <3>1. new.peer = p /\ attempts' = attempts \cup {new}
        BY <2>3 DEF BeginAttempt
      <3> HIDE DEF new
      <3>2. dialing' = dialing \cup {p} /\ dialing = {a.peer : a \in attempts}
        BY <1>0, <2>1, <2>3 DEF BeginAttempt
      <3>3. \A a \in attempts : a.peer # p
        BY <2>3, <3>2
      <3>4. dialing' = {a.peer : a \in attempts'}
        BY <3>1, <3>2
      <3>5. \A a, b \in attempts' : a.peer = b.peer => a = b
        BY <1>0, <3>1, <3>3
      <3> QED
        BY <3>4, <3>5
    <2> QED
      BY <1>0, <1>1, <2>2, <2>3, EventEffect
  <1>2. ASSUME NEW p \in Peers, OnlyConn(p)
        PROVE  OneAttemptPerPeer'
    BY <1>0, <1>2 DEF OnlyConn
  <1>3. ASSUME NEW a \in attempts, FallBack(a)
        PROVE  OneAttemptPerPeer'
    <2>1. [a EXCEPT !.at = "peer"].peer = a.peer
      BY <1>0, <1>3 DEF Typed, TypeOK, Attempts
    <2>2. PICK new : new.peer = a.peer /\ attempts' = (attempts \ {a}) \cup {new}
      BY <1>3, <2>1 DEF FallBack
    <2>3. {b.peer : b \in attempts'} = {b.peer : b \in attempts}
      BY <2>2
    <2>4. \A b, c \in attempts' : b.peer = c.peer => b = c
      BY <1>0, <2>2
    <2> QED
      BY <1>0, <1>3, <2>3, <2>4 DEF FallBack
  <1>4. ASSUME NEW a \in attempts, DialSucceeds(a) \/ DialFails(a)
        PROVE  OneAttemptPerPeer'
    <2>1. attempts' = attempts \ {a} /\ dialing' = dialing \ {a.peer} /\ phase' = phase
      BY <1>4, SettleEffect
    <2>2. {b.peer : b \in attempts'} = {b.peer : b \in attempts} \ {a.peer}
      BY <1>0, <2>1
    <2>3. \A b, c \in attempts' : b.peer = c.peer => b = c
      BY <1>0, <2>1
    <2> QED
      BY <1>0, <2>1, <2>2, <2>3
  <1>5. CASE Notify
    BY <1>0, <1>5 DEF Notify
  <1>6. CASE StartGoesOn
    BY <1>0, <1>6 DEF StartGoesOn
  <1>7. CASE StopBegins
    BY <1>0, <1>7 DEF StopBegins
  <1>8. CASE StopEnds
    BY <1>0, <1>8 DEF StopEnds
  <1>9. CASE UNCHANGED vars
    BY <1>0, <1>9 DEF vars
  <1> QED
    BY <1>0, <1>1, <1>2, <1>3, <1>4, <1>5, <1>6, <1>7, <1>8, <1>9, NextCases

LEMMA PendingIsDialingNext == IInv /\ [Next]_vars => PendingIsDialing'
  <1> SUFFICES ASSUME IInv, [Next]_vars PROVE PendingIsDialing'
    OBVIOUS
  <1>0. Typed /\ PendingIsDialing /\ rows \in [Peers -> Rows \cup {NoRow}]
    BY DEF IInv, Typed, TypeOK
  <1> USE DEF PendingIsDialing
  <1>1. ASSUME NEW p \in Peers, Event(p)
        PROVE  PendingIsDialing'
    <2>1. PICK row \in Rows :
            /\ rows' = [rows EXCEPT ![p] = row]
            /\ row.autoDial = "pending" => p \in dialing' \/ rows[p].autoDial = "pending"
      BY <1>0, <1>1, EventEffect
    <2>2. dialing \subseteq dialing'
      BY <1>0, <1>1, EventEffect DEF BeginAttempt
    <2> QED
      BY <1>0, <2>1, <2>2
  <1>2. ASSUME NEW p \in Peers, OnlyConn(p)
        PROVE  PendingIsDialing'
    BY <1>0, <1>2 DEF OnlyConn
  <1>3. ASSUME NEW a \in attempts, FallBack(a)
        PROVE  PendingIsDialing'
    BY <1>0, <1>3 DEF FallBack
  <1>4. ASSUME NEW a \in attempts, DialSucceeds(a) \/ DialFails(a)
        PROVE  PendingIsDialing'
    <2>1. PICK result \in {"ok", "error"} :
            rows' = IF rows[a.peer] = NoRow THEN rows
                    ELSE [rows EXCEPT ![a.peer].autoDial = result]
      BY <1>4, SettleEffect
    <2>2. dialing' = dialing \ {a.peer}
      BY <1>4, SettleEffect
    <2>3. rows'[a.peer].autoDial # "pending"
      <3>1. a.peer \in Peers
        BY <1>0 DEF Typed, TypeOK, Attempts
      <3>2. CASE rows[a.peer] = NoRow
        BY <2>1, <3>2 DEF NoRow
      <3>3. CASE rows[a.peer] # NoRow
        <4>1. rows[a.peer] \in Rows
          BY <1>0, <3>1, <3>3
        <4>2. rows'[a.peer].autoDial = result
          BY <1>0, <2>1, <3>1, <3>3, <4>1 DEF Rows
        <4> QED
          BY <4>2
      <3> QED
        BY <3>2, <3>3
    <2>4. \A p \in Peers : p # a.peer => rows'[p] = rows[p]
      BY <1>0, <2>1
    <2> QED
      BY <1>0, <2>2, <2>3, <2>4
  <1>5. CASE Notify
    BY <1>0, <1>5 DEF Notify
  <1>6. CASE StartGoesOn
    BY <1>0, <1>6 DEF StartGoesOn
  <1>7. CASE StopBegins
    BY <1>0, <1>7 DEF StopBegins
  <1>8. CASE StopEnds
    BY <1>0, <1>8 DEF StopEnds, ClearRows, NoRows, NoRow
  <1>9. CASE UNCHANGED vars
    BY <1>0, <1>9 DEF vars
  <1> QED
    BY <1>0, <1>1, <1>2, <1>3, <1>4, <1>5, <1>6, <1>7, <1>8, <1>9, NextCases

LEMMA StaleTableNext == IInv /\ [Next]_vars => StaleTableIsRefreshed'
  <1> SUFFICES ASSUME IInv, [Next]_vars PROVE StaleTableIsRefreshed'
    OBVIOUS
  <1>0. Typed /\ StaleTableIsRefreshed
    BY DEF IInv
  <1> USE DEF StaleTableIsRefreshed
  <1>1. ASSUME NEW p \in Peers, Event(p)
        PROVE  StaleTableIsRefreshed'
    BY <1>0, <1>1, EventEffect
  <1>2. ASSUME NEW p \in Peers, OnlyConn(p)
        PROVE  StaleTableIsRefreshed'
    BY <1>0, <1>2 DEF OnlyConn
  <1>3. ASSUME NEW a \in attempts, FallBack(a)
        PROVE  StaleTableIsRefreshed'
    BY <1>0, <1>3 DEF FallBack
  <1>4. ASSUME NEW a \in attempts, DialSucceeds(a) \/ DialFails(a)
        PROVE  StaleTableIsRefreshed'
    BY <1>4, SettleEffect
  <1>5. CASE Notify
    BY <1>5 DEF Notify
  <1>6. CASE StartGoesOn \/ StopBegins
    BY <1>0, <1>6 DEF StartGoesOn, StopBegins
  <1>7. CASE StopEnds
    BY <1>7 DEF StopEnds, ClearRows
  <1>8. CASE UNCHANGED vars
    BY <1>0, <1>8 DEF vars
  <1> QED
    BY <1>0, <1>1, <1>2, <1>3, <1>4, <1>5, <1>6, <1>7, <1>8, NextCases

LEMMA StoppedIsEmptyNext == IInv /\ [Next]_vars => StoppedIsEmpty'
  <1> SUFFICES ASSUME IInv, [Next]_vars PROVE StoppedIsEmpty'
    OBVIOUS
  <1>0. Typed /\ StoppedIsEmpty
    BY DEF IInv
  <1> USE DEF StoppedIsEmpty
  <1>1. ASSUME NEW p \in Peers, Event(p)
        PROVE  StoppedIsEmpty'
    BY <1>0, <1>1, EventEffect DEF Alive, Listening, Hooked
  <1>2. ASSUME NEW p \in Peers, OnlyConn(p)
        PROVE  StoppedIsEmpty'
    BY <1>0, <1>2 DEF OnlyConn
  <1>3. ASSUME NEW a \in attempts, FallBack(a)
        PROVE  StoppedIsEmpty'
    BY <1>0, <1>3 DEF FallBack
  <1>4. ASSUME NEW a \in attempts, DialSucceeds(a) \/ DialFails(a)
        PROVE  StoppedIsEmpty'
    <2>1. a.peer \in Peers
      BY <1>0 DEF Typed, TypeOK, Attempts
    <2>2. rows = NoRows => rows[a.peer] = NoRow
      BY <2>1 DEF NoRows
    <2> QED
      BY <1>0, <1>4, <2>2, SettleEffect
  <1>5. CASE Notify
    BY <1>0, <1>5 DEF Notify
  <1>6. CASE StartGoesOn \/ StopBegins
    BY <1>6 DEF StartGoesOn, StopBegins
  <1>7. CASE StopEnds
    BY <1>7 DEF StopEnds, ClearRows
  <1>8. CASE UNCHANGED vars
    BY <1>0, <1>8 DEF vars
  <1> QED
    BY <1>0, <1>1, <1>2, <1>3, <1>4, <1>5, <1>6, <1>7, <1>8, NextCases

LEMMA IInvInit == Init => IInv
  <1> SUFFICES ASSUME Init PROVE IInv
    OBVIOUS
  <1>1. Typed
    BY TypedInit
  <1>2. OneAttemptPerPeer /\ PendingIsDialing
    BY DEF Init, OneAttemptPerPeer, PendingIsDialing, NoRows, NoRow
  <1>3. StaleTableIsRefreshed /\ StoppedIsEmpty
    BY DEF Init, StaleTableIsRefreshed, StoppedIsEmpty
  <1> QED
    BY <1>1, <1>2, <1>3 DEF IInv

LEMMA Inductive == Spec => []IInv
  <1>1. IInv /\ [Next]_vars => IInv'
    BY TypedNext, OneAttemptPerPeerNext, PendingIsDialingNext, StaleTableNext,
       StoppedIsEmptyNext DEF IInv
  <1> QED
    BY <1>1, IInvInit, PTL DEF Spec

-----------------------------------------------------------------------------
(* The theorems *)

\* Every variable of the discovery table keeps its type.
THEOREM TypeCorrect == Spec => []TypeOK
  <1>1. IInv => TypeOK
    BY DEF IInv, Typed
  <1> QED
    BY <1>1, Inductive, PTL

\* However events and dial results interleave, with a stop() among them, a
\* peer has one attempt at most and autoDialInFlight names the peers that have
\* one (runAutoDialAttempt of browserNode.ts).
THEOREM OneAttempt == Spec => []OneAttemptPerPeer
  <1>1. IInv => OneAttemptPerPeer
    BY DEF IInv
  <1> QED
    BY <1>1, Inductive, PTL

\* A row that says "pending" is of a peer being dialled (upsertDiscoveryRow).
THEOREM PendingDialled == Spec => []PendingIsDialing
  <1>1. IInv => PendingIsDialing
    BY DEF IInv
  <1> QED
    BY <1>1, Inductive, PTL

\* The page's table is the node's, or a notification is due
\* (scheduleDiscoveryNotify).
THEOREM TableIsShown == Spec => []StaleTableIsRefreshed
  <1>1. IInv => StaleTableIsRefreshed
    BY DEF IInv
  <1> QED
    BY <1>1, Inductive, PTL

\* After stop() the table is empty and stays so, also on the page, whatever
\* dials are still to come back.
THEOREM StoppedStaysEmpty == Spec => []StoppedIsEmpty
  <1>1. IInv => StoppedIsEmpty
    BY DEF IInv
  <1> QED
    BY <1>1, Inductive, PTL

\* A step starts no dial but of a peer without a direct connection and with a
\* fingerprint that differs from the one tried last (getAutoDialFingerprint):
\* whatever the adverts, an unchanged one is not dialled again.
THEOREM NoDialStorm == Spec => NoRepeatedDial
  <1> DEFINE New(a) == \A b \in attempts : <<b.peer, b.id>> # <<a.peer, a.id>>
             Justified(a) == /\ conn'[a.peer] # "direct"
                             /\ lastFp'[a.peer] # lastFp[a.peer]
                             /\ lastFp'[a.peer].addrs = a.addrs
  <1>1. ASSUME Typed, [Next]_vars, NEW a \in attempts', New(a)
        PROVE  Justified(a)
    <2>1. a \notin attempts
      BY <1>1
    <2>2. ASSUME NEW p \in Peers, Event(p)
          PROVE  Justified(a)
      <3>1. PICK fp \in Fingerprints :
              BeginAttempt(p, fp) /\ conn'[p] # "direct" /\ lastFp[p] # fp
        BY <1>1, <2>1, <2>2, EventEffect
      <3>2. a = [id |-> events[p], peer |-> p, addrs |-> fp.addrs,
                 at |-> IF fp.addrs = {} THEN "peer" ELSE "addrs"]
        BY <1>1, <2>1, <3>1 DEF BeginAttempt
      <3>3. lastFp'[p] = fp
        BY <1>1, <3>1 DEF BeginAttempt, RecordFingerprint, Typed, TypeOK
      <3> QED
        BY <3>1, <3>2, <3>3
    <2>3. ASSUME NEW b \in attempts, FallBack(b)
          PROVE  FALSE
      <3>1. a = [b EXCEPT !.at = "peer"]
        BY <1>1, <2>1, <2>3 DEF FallBack
      <3>2. a.peer = b.peer /\ a.id = b.id
        BY <1>1, <3>1 DEF Typed, TypeOK, Attempts
      <3> QED
        BY <1>1, <3>2
    <2>4. attempts' # attempts
      BY <1>1, <2>1
    <2>5. ASSUME NEW b \in attempts, DialSucceeds(b) \/ DialFails(b)
          PROVE  FALSE
      BY <1>1, <2>1, <2>5, SettleEffect
    <2> QED
      BY <1>1, <2>2, <2>3, <2>4, <2>5, NextCases
        DEF OnlyConn, Notify, StartGoesOn, StopBegins, StopEnds, vars
  <1>2. Typed /\ [Next]_vars => [\A a \in attempts' : New(a) => Justified(a)]_vars
    BY <1>1
  <1>3. IInv => Typed
    BY DEF IInv
  <1> QED
    BY <1>2, <1>3, Inductive, PTL DEF Spec, NoRepeatedDial
=============================================================================
