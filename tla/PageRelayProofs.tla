-------------------------- MODULE PageRelayProofs --------------------------
(***************************************************************************)
(* Proofs about PageRelay and the operators of Addresses, for every set of *)
(* calls, relays, announced addresses, bases and databases that satisfies  *)
(* the assumptions of PageRelay.                                           *)
(***************************************************************************)
EXTENDS PageRelay, TLAPS

----------------------------------------------------------------------------
\* The filters and the choice of an address.

LEMMA PublicReaches ==
  ASSUME NEW r \in Relays, NEW a \in Address, IsPublic(a)
  PROVE  Reaches(a, r)
  BY DEF Reaches, IsPublic, Address, Hosts

\* Normalizing leaves public addresses alone and names loopback in the others.
LEMMA NormalizeLocalType ==
  ASSUME NEW a \in Address
  PROVE  /\ NormalizeLocal(a) \in Address /\ NormalizeLocal(a).layer = a.layer
         /\ IsPublic(a) => NormalizeLocal(a) = a
         /\ IsPublic(a) \/ NormalizeLocal(a).host = "loopback"
  BY DEF NormalizeLocal, IsPublic, Address, Hosts

LEMMA NormalizeType ==
  ASSUME NEW local \in BOOLEAN, NEW addrs \in SUBSET Address
  PROVE  Normalize(local, addrs) \in SUBSET Address
  BY NormalizeLocalType DEF Normalize

\* What is dialled is one of the WebSocket addresses given, and there is one
\* unless none was given.
LEMMA PickSocket ==
  ASSUME NEW addrs \in SUBSET Address
  PROVE  /\ Pick(addrs) \subseteq {a \in addrs : a.layer \in {"wss", "ws"}}
         /\ Pick(addrs) = {} => \A a \in addrs : a.layer \notin {"wss", "ws"}
  <1> DEFINE sockets == {a \in addrs : a.layer \in {"wss", "ws"}}
             classes == PickClasses(addrs)
             nonempty == {i \in DOMAIN classes : classes[i] # {}}
  <1>1. DOMAIN classes = 1..5
    BY DEF PickClasses
  <1>2. classes[5] = sockets
    BY DEF PickClasses
  <1>3. \A i \in 1..5 : classes[i] \subseteq sockets
    <2>1. /\ classes[1] \subseteq sockets /\ classes[2] \subseteq sockets
          /\ classes[3] \subseteq sockets /\ classes[4] \subseteq sockets
      BY DEF PickClasses
    <2> QED
      BY <1>2, <2>1
  <1>4. Pick(addrs) = IF nonempty = {} THEN {} ELSE classes[Min(nonempty)]
    BY DEF Pick
  <1> HIDE DEF classes, sockets
  <1>5. nonempty \subseteq 1..5
    BY <1>1
  <1> HIDE DEF nonempty
  <1>6. nonempty # {} => Min(nonempty) \in nonempty
    <2>1. ASSUME NEW k \in 1..5, k \in nonempty, \A i \in 1..5 : i < k => i \notin nonempty
          PROVE  \E x \in nonempty : \A y \in nonempty : x <= y
      BY <1>5, <2>1
    <2>2. nonempty # {} =>
            \E k \in 1..5 : k \in nonempty /\ \A i \in 1..5 : i < k => i \notin nonempty
      <3>1. \/ nonempty = {}
            \/ 1 \in nonempty \/ 2 \in nonempty \/ 3 \in nonempty
            \/ 4 \in nonempty \/ 5 \in nonempty
        BY <1>5
      <3> QED
        BY <3>1
    <2>3. nonempty # {} => \E x \in nonempty : \A y \in nonempty : x <= y
      BY <2>1, <2>2
    <2> QED
      BY <2>3 DEF Min
  <1>7. Pick(addrs) \subseteq sockets
    BY <1>3, <1>4, <1>5, <1>6
  <1>8. ASSUME Pick(addrs) = {} PROVE sockets = {}
    <2>1. nonempty # {} => classes[Min(nonempty)] # {}
      BY <1>6 DEF nonempty
    <2>2. nonempty = {}
      BY <1>4, <1>8, <2>1
    <2> QED
      BY <1>1, <1>2, <2>2 DEF nonempty
  <1> QED
    BY <1>7, <1>8 DEF sockets

LEMMA FilterType ==
  ASSUME NEW addrs \in SUBSET Address, NEW requester
  PROVE  FilterForRequest(addrs, requester) \in SUBSET Address
  BY DEF FilterForRequest, FilterPublic

----------------------------------------------------------------------------
\* The inductive invariant: what a call took when it began, what its attempts
\* have brought, and where the status on the page comes from.

\* A call holds a base while it asks for the status, a database while it asks
\* about one, and an outcome before a sync is reported.
CallInv ==
  \A c \in Calls :
    /\ pc[c] \in {"restart", "health", "status", "fallback"} => asked[c] \in Bases
    /\ pc[c] \in {"sync", "syncAnswer", "lookup", "lookupThrows"} => asked[c] \in Dbs
    /\ pc[c] = "sync" => kind[c] = "sync"
    /\ kind[c] = "sync" /\ pc[c] \in {"syncAnswer", "lookup", "lookupThrows"}
         => last[c] \in Outcomes

\* The loop goes on only while nothing was found.
SyncInv ==
  \A c \in Calls : pc[c] \in {"idle", "sync"} => "found" \notin outcomes[c]

\* What GET /status, or the fallback, told of the status's own base.
Told(shown) ==
  IF shown.route = "status"
  THEN FilterForRequest(shown.announced, shown.base.requester)
  ELSE shown.announced

Statuses == [base : Bases, announced : SUBSET Address, addrs : SUBSET Address,
             route : {"status", "fallback"}]

\* A status keeps what its own base told, normalized for that base.
Faithful(shown) ==
  shown \in Statuses /\ shown.addrs = Normalize(shown.base.local, Told(shown))

StatusInv == status # None => status.addrs = Normalize(status.base.local, Told(status))

IInv == TypeOK /\ CallInv /\ SyncInv /\ StatusInv /\ NothingMeansNothing

\* What a call that ends with a status shows.
LEMMA StatusOfType ==
  ASSUME NEW b \in Bases, NEW announced \in SUBSET Address,
         NEW addrs \in SUBSET Address, NEW route \in {"status", "fallback"},
         addrs = IF route = "status" THEN FilterForRequest(announced, b.requester)
                 ELSE announced
  PROVE  Faithful(StatusOf(b, announced, addrs, route))
  <1>1. b.local \in BOOLEAN
    BY BaseAssumption DEF Base
  <1>2. Normalize(b.local, addrs) \in SUBSET Address
    BY <1>1, NormalizeType
  <1> QED
    BY <1>2 DEF StatusOf, Statuses, Faithful, Told

LEMMA EndsType ==
  ASSUME IInv, NEW c \in Calls, NEW result, result = None \/ result \in Statuses,
         RefreshEnds(c, result), UNCHANGED <<base, db, info>>
  PROVE  TypeOK' /\ CallInv'
  <1>1. TypeOK'
    <2>1. status' = None \/ status' \in Statuses
      BY DEF RefreshEnds
    <2>2. busy' \in BOOLEAN
      BY DEF IInv, TypeOK, RefreshEnds
    <2>3. /\ pc' = [pc EXCEPT ![c] = "done"] /\ kind' = [kind EXCEPT ![c] = "none"]
          /\ asked' = [asked EXCEPT ![c] = None] /\ attempts' = [attempts EXCEPT ![c] = 0]
          /\ last' = [last EXCEPT ![c] = "none"] /\ outcomes' = [outcomes EXCEPT ![c] = {}]
      BY DEF RefreshEnds, Return, Goto
    <2>4. attempts' \in [Calls -> 0..SyncAttempts]
      BY <2>3 DEF IInv, TypeOK, SyncAttempts
    <2> QED
      BY <2>1, <2>2, <2>3, <2>4 DEF IInv, TypeOK, Statuses
  <1>2. CallInv'
    BY DEF IInv, TypeOK, CallInv, RefreshEnds, Return, Goto
  <1> QED
    BY <1>1, <1>2

\* GET /status and its fallback end in one of three ways.
LEMMA StatusSteps ==
  ASSUME IInv, NEW c \in Calls, StatusAnswered(c) \/ FallbackAnswered(c)
  PROVE  \/ pc[c] = "status" /\ pc' = [pc EXCEPT ![c] = "fallback"]
            /\ UNCHANGED <<pageVars, status, info, kind, asked, syncVars>>
         \/ \E result : RefreshEnds(c, result) /\ (result = None \/ Faithful(result))
  <1> DEFINE b == asked[c]
  <1>1. b \in Bases
    BY DEF IInv, CallInv, StatusAnswered, FallbackAnswered
  <1>2. RelayAddrs[b.relay] \in SUBSET SUBSET Address
    BY <1>1, BaseAssumption, RelayAssumption DEF Base
  <1>3. ASSUME NEW announced \in RelayAddrs[b.relay]
        PROVE  /\ Faithful(StatusOf(b, announced,
                             FilterForRequest(announced, b.requester), "status"))
               /\ Faithful(StatusOf(b, announced, announced, "fallback"))
    BY <1>1, <1>2, FilterType, StatusOfType
  <1>4. CASE StatusAnswered(c)
    BY <1>3, <1>4 DEF StatusAnswered, RelayStatus, Goto
  <1>5. CASE FallbackAnswered(c)
    BY <1>3, <1>5 DEF FallbackAnswered
  <1> QED
    BY <1>4, <1>5

\* The types of what the calls leave on the page.
LEMMA TypeOKNext == IInv /\ [Next]_vars => TypeOK'
  <1> SUFFICES ASSUME IInv, [Next]_vars PROVE TypeOK'
    OBVIOUS
  <1> USE NoneAssumption, RelayAssumption, BaseAssumption DEF IInv, callVars, syncVars, pageVars
  <1>1. ASSUME NEW c \in Calls, Refresh(c)
        PROVE  TypeOK'
    BY <1>1 DEF Refresh, Begin, Goto, TypeOK, CallInv, Outcomes, Coalesced, SyncAttempts
  <1>2. ASSUME NEW c \in Calls, Restart(c)
        PROVE  TypeOK'
    BY <1>2 DEF Restart, Begin, Goto, TypeOK, CallInv, Outcomes, Coalesced, SyncAttempts
  <1>3. ASSUME NEW c \in Calls, Check(c)
        PROVE  TypeOK'
    BY <1>3 DEF Check, Begin, Goto, LookupStep, TypeOK, CallInv, Outcomes, Coalesced, SyncAttempts
  <1>4. ASSUME NEW c \in Calls, Sync(c)
        PROVE  TypeOK'
    BY <1>4 DEF Sync, Begin, Goto, TypeOK, CallInv, Outcomes, Coalesced, SyncAttempts
  <1>5. ASSUME NEW c \in Calls, RestartAnswered(c)
        PROVE  TypeOK'
    BY <1>5 DEF RestartAnswered, Goto, TypeOK, CallInv, Outcomes, Coalesced, SyncAttempts
  <1>6. ASSUME NEW c \in Calls, HealthAnswered(c)
        PROVE  TypeOK'
    BY <1>6 DEF HealthAnswered, Goto, TypeOK, CallInv, Outcomes, Coalesced, SyncAttempts
  <1>7. ASSUME NEW c \in Calls, StatusAnswered(c)
        PROVE  TypeOK'
    <2>1. CASE /\ pc[c] = "status" /\ pc' = [pc EXCEPT ![c] = "fallback"]
               /\ UNCHANGED <<pageVars, status, info, kind, asked, syncVars>>
      BY <2>1 DEF TypeOK, CallInv, Outcomes, Coalesced, SyncAttempts
    <2>2. ASSUME NEW result, RefreshEnds(c, result),
                 result = None \/ Faithful(result)
          PROVE  TypeOK'
      BY <2>2, EndsType DEF RefreshEnds, Faithful
    <2> QED
      BY <1>7, <2>1, <2>2, StatusSteps
  <1>8. ASSUME NEW c \in Calls, FallbackAnswered(c)
        PROVE  TypeOK'
    <2>1. CASE /\ pc[c] = "status" /\ pc' = [pc EXCEPT ![c] = "fallback"]
               /\ UNCHANGED <<pageVars, status, info, kind, asked, syncVars>>
      BY <2>1 DEF TypeOK, CallInv, Outcomes, Coalesced, SyncAttempts
    <2>2. ASSUME NEW result, RefreshEnds(c, result),
                 result = None \/ Faithful(result)
          PROVE  TypeOK'
      BY <2>2, EndsType DEF RefreshEnds, Faithful
    <2> QED
      BY <1>8, <2>1, <2>2, StatusSteps
  <1>9. ASSUME NEW c \in Calls, SyncAttempt(c)
        PROVE  TypeOK'
    BY <1>9 DEF SyncAttempt, Goto, TypeOK, CallInv, Outcomes, Coalesced, SyncAttempts
  <1>10. ASSUME NEW c \in Calls, SyncAnswered(c)
        PROVE  TypeOK'
    BY <1>10 DEF SyncAnswered, Goto, LookupStep, TypeOK, CallInv, Outcomes, Coalesced, SyncAttempts
  <1>11. ASSUME NEW c \in Calls, SyncFailed(c)
        PROVE  TypeOK'
    BY <1>11 DEF SyncFailed, Goto, Say, Return, TypeOK, CallInv, Outcomes, Coalesced, SyncAttempts
  <1>12. ASSUME NEW c \in Calls, LookupAnswered(c)
        PROVE  TypeOK'
    BY <1>12 DEF LookupAnswered, Goto, Say, TypeOK, CallInv, Outcomes, Coalesced, SyncAttempts
  <1>13. ASSUME NEW c \in Calls, StatsAnswered(c)
        PROVE  TypeOK'
    BY <1>13 DEF StatsAnswered, Goto, Return, TypeOK, CallInv, Outcomes, Coalesced, SyncAttempts
  <1>14. CASE EditBase
    BY <1>14 DEF EditBase, TypeOK, CallInv, Outcomes, Coalesced, SyncAttempts
  <1>15. ASSUME NEW d \in Dbs, OpenDb(d)
        PROVE  TypeOK'
    BY <1>15 DEF OpenDb, TypeOK, CallInv, Outcomes, Coalesced, SyncAttempts
  <1>16. CASE ResetTodo
    BY <1>16 DEF ResetTodo, TypeOK, CallInv, Outcomes, Coalesced, SyncAttempts
  <1>17. CASE UNCHANGED vars
    BY <1>17 DEF vars, TypeOK, CallInv, Outcomes, Coalesced, SyncAttempts
  <1> QED
    BY <1>1, <1>2, <1>3, <1>4, <1>5, <1>6, <1>7, <1>8,
       <1>9, <1>10, <1>11, <1>12, <1>13, <1>14, <1>15, <1>16, <1>17 DEF Next, CallStep

\* A call keeps what it took when it began.
LEMMA CallInvNext == IInv /\ [Next]_vars => CallInv'
  <1> SUFFICES ASSUME IInv, [Next]_vars PROVE CallInv'
    OBVIOUS
  <1> USE NoneAssumption, RelayAssumption, BaseAssumption DEF IInv, callVars, syncVars, pageVars
  <1>1. ASSUME NEW c \in Calls, Refresh(c)
        PROVE  CallInv'
    BY <1>1 DEF Refresh, Begin, Goto, TypeOK, CallInv, Outcomes, Coalesced
  <1>2. ASSUME NEW c \in Calls, Restart(c)
        PROVE  CallInv'
    BY <1>2 DEF Restart, Begin, Goto, TypeOK, CallInv, Outcomes, Coalesced
  <1>3. ASSUME NEW c \in Calls, Check(c)
        PROVE  CallInv'
    BY <1>3 DEF Check, Begin, Goto, LookupStep, TypeOK, CallInv, Outcomes, Coalesced
  <1>4. ASSUME NEW c \in Calls, Sync(c)
        PROVE  CallInv'
    BY <1>4 DEF Sync, Begin, Goto, TypeOK, CallInv, Outcomes, Coalesced
  <1>5. ASSUME NEW c \in Calls, RestartAnswered(c)
        PROVE  CallInv'
    BY <1>5 DEF RestartAnswered, Goto, TypeOK, CallInv, Outcomes, Coalesced
  <1>6. ASSUME NEW c \in Calls, HealthAnswered(c)
        PROVE  CallInv'
    BY <1>6 DEF HealthAnswered, Goto, TypeOK, CallInv, Outcomes, Coalesced
  <1>7. ASSUME NEW c \in Calls, StatusAnswered(c)
        PROVE  CallInv'
    <2>1. CASE /\ pc[c] = "status" /\ pc' = [pc EXCEPT ![c] = "fallback"]
               /\ UNCHANGED <<pageVars, status, info, kind, asked, syncVars>>
      BY <2>1 DEF TypeOK, CallInv, Outcomes, Coalesced
    <2>2. ASSUME NEW result, RefreshEnds(c, result),
                 result = None \/ Faithful(result)
          PROVE  CallInv'
      BY <2>2, EndsType DEF RefreshEnds, Faithful
    <2> QED
      BY <1>7, <2>1, <2>2, StatusSteps
  <1>8. ASSUME NEW c \in Calls, FallbackAnswered(c)
        PROVE  CallInv'
    <2>1. CASE /\ pc[c] = "status" /\ pc' = [pc EXCEPT ![c] = "fallback"]
               /\ UNCHANGED <<pageVars, status, info, kind, asked, syncVars>>
      BY <2>1 DEF TypeOK, CallInv, Outcomes, Coalesced
    <2>2. ASSUME NEW result, RefreshEnds(c, result),
                 result = None \/ Faithful(result)
          PROVE  CallInv'
      BY <2>2, EndsType DEF RefreshEnds, Faithful
    <2> QED
      BY <1>8, <2>1, <2>2, StatusSteps
  <1>9. ASSUME NEW c \in Calls, SyncAttempt(c)
        PROVE  CallInv'
    BY <1>9 DEF SyncAttempt, Goto, TypeOK, CallInv, Outcomes, Coalesced
  <1>10. ASSUME NEW c \in Calls, SyncAnswered(c)
        PROVE  CallInv'
    BY <1>10 DEF SyncAnswered, Goto, LookupStep, TypeOK, CallInv, Outcomes, Coalesced
  <1>11. ASSUME NEW c \in Calls, SyncFailed(c)
        PROVE  CallInv'
    BY <1>11 DEF SyncFailed, Goto, Say, Return, TypeOK, CallInv, Outcomes, Coalesced
  <1>12. ASSUME NEW c \in Calls, LookupAnswered(c)
        PROVE  CallInv'
    BY <1>12 DEF LookupAnswered, Goto, Say, TypeOK, CallInv, Outcomes, Coalesced
  <1>13. ASSUME NEW c \in Calls, StatsAnswered(c)
        PROVE  CallInv'
    BY <1>13 DEF StatsAnswered, Goto, Return, TypeOK, CallInv, Outcomes, Coalesced
  <1>14. CASE EditBase
    BY <1>14 DEF EditBase, TypeOK, CallInv, Outcomes, Coalesced
  <1>15. ASSUME NEW d \in Dbs, OpenDb(d)
        PROVE  CallInv'
    BY <1>15 DEF OpenDb, TypeOK, CallInv, Outcomes, Coalesced
  <1>16. CASE ResetTodo
    BY <1>16 DEF ResetTodo, TypeOK, CallInv, Outcomes, Coalesced
  <1>17. CASE UNCHANGED vars
    BY <1>17 DEF vars, TypeOK, CallInv, Outcomes, Coalesced
  <1> QED
    BY <1>1, <1>2, <1>3, <1>4, <1>5, <1>6, <1>7, <1>8,
       <1>9, <1>10, <1>11, <1>12, <1>13, <1>14, <1>15, <1>16, <1>17 DEF Next, CallStep

\* An answer to GET /status or its fallback does not concern a sync.
LEMMA StatusQuiet ==
  ASSUME IInv, NEW c \in Calls, StatusAnswered(c) \/ FallbackAnswered(c)
  PROVE  SyncInv' /\ NothingMeansNothing'
  <1>1. /\ \E s \in {"fallback", "done"} : pc' = [pc EXCEPT ![c] = s]
        /\ \A e \in Calls : e # c => last'[e] = last[e] /\ outcomes'[e] = outcomes[e]
    <2>1. /\ last \in [Calls -> Outcomes \cup {"none"}]
          /\ outcomes \in [Calls -> SUBSET Outcomes]
      BY DEF IInv, TypeOK
    <2>2. \/ /\ pc' = [pc EXCEPT ![c] = "fallback"]
             /\ UNCHANGED syncVars
          \/ \E result : RefreshEnds(c, result)
      BY StatusSteps
    <2> QED
      BY <2>1, <2>2 DEF RefreshEnds, Return, Goto, syncVars
  <1>2. \A e \in Calls : e # c => pc'[e] = pc[e]
    BY <1>1 DEF IInv, TypeOK
  <1>3. pc'[c] \in {"fallback", "done"}
    BY <1>1 DEF IInv, TypeOK
  <1> QED
    BY <1>1, <1>2, <1>3 DEF IInv, SyncInv, NothingMeansNothing

\* The retry loop ends with the attempt that finds something.
LEMMA SyncInvNext == IInv /\ [Next]_vars => SyncInv'
  <1> SUFFICES ASSUME IInv, [Next]_vars PROVE SyncInv'
    OBVIOUS
  <1> USE NoneAssumption, RelayAssumption, BaseAssumption DEF IInv, callVars, syncVars, pageVars
  <1>1. ASSUME NEW c \in Calls, Refresh(c)
        PROVE  SyncInv'
    BY <1>1 DEF Refresh, Begin, Goto, TypeOK, SyncInv, Coalesced, Outcomes
  <1>2. ASSUME NEW c \in Calls, Restart(c)
        PROVE  SyncInv'
    BY <1>2 DEF Restart, Begin, Goto, TypeOK, SyncInv, Coalesced, Outcomes
  <1>3. ASSUME NEW c \in Calls, Check(c)
        PROVE  SyncInv'
    BY <1>3 DEF Check, Begin, Goto, LookupStep, TypeOK, SyncInv, Coalesced, Outcomes
  <1>4. ASSUME NEW c \in Calls, Sync(c)
        PROVE  SyncInv'
    BY <1>4 DEF Sync, Begin, Goto, TypeOK, SyncInv, Coalesced, Outcomes
  <1>5. ASSUME NEW c \in Calls, RestartAnswered(c)
        PROVE  SyncInv'
    BY <1>5 DEF RestartAnswered, Goto, TypeOK, SyncInv, Coalesced, Outcomes
  <1>6. ASSUME NEW c \in Calls, HealthAnswered(c)
        PROVE  SyncInv'
    BY <1>6 DEF HealthAnswered, Goto, TypeOK, SyncInv, Coalesced, Outcomes
  <1>7. ASSUME NEW c \in Calls, StatusAnswered(c)
        PROVE  SyncInv'
    BY <1>7, StatusQuiet
  <1>8. ASSUME NEW c \in Calls, FallbackAnswered(c)
        PROVE  SyncInv'
    BY <1>8, StatusQuiet
  <1>9. ASSUME NEW c \in Calls, SyncAttempt(c)
        PROVE  SyncInv'
    <2>1. PICK outcome \in Outcomes :
            /\ outcomes' = [outcomes EXCEPT ![c] = outcomes[c] \cup {outcome}]
            /\ IF Retries(c, outcome) THEN UNCHANGED pc
               ELSE pc' = [pc EXCEPT ![c] = "syncAnswer"]
      BY <1>9 DEF SyncAttempt, Goto
    <2>2. pc[c] = "sync" /\ "found" \notin outcomes[c]
      BY <1>9 DEF SyncAttempt, SyncInv
    <2>3. ASSUME Retries(c, outcome) PROVE SyncInv'
      <3>1. outcome # "found"
        BY <2>3 DEF Retries, Coalesced
      <3> QED
        BY <2>1, <2>2, <2>3, <3>1 DEF TypeOK, SyncInv
    <2>4. ASSUME ~Retries(c, outcome) PROVE SyncInv'
      BY <2>1, <2>2, <2>4 DEF TypeOK, SyncInv
    <2> QED
      BY <2>3, <2>4
  <1>10. ASSUME NEW c \in Calls, SyncAnswered(c)
        PROVE  SyncInv'
    BY <1>10 DEF SyncAnswered, Goto, LookupStep, TypeOK, SyncInv, Coalesced, Outcomes
  <1>11. ASSUME NEW c \in Calls, SyncFailed(c)
        PROVE  SyncInv'
    BY <1>11 DEF SyncFailed, Goto, Say, Return, TypeOK, SyncInv, Coalesced, Outcomes
  <1>12. ASSUME NEW c \in Calls, LookupAnswered(c)
        PROVE  SyncInv'
    BY <1>12 DEF LookupAnswered, Goto, Say, TypeOK, SyncInv, Coalesced, Outcomes
  <1>13. ASSUME NEW c \in Calls, StatsAnswered(c)
        PROVE  SyncInv'
    BY <1>13 DEF StatsAnswered, Goto, Return, TypeOK, SyncInv, Coalesced, Outcomes
  <1>14. CASE EditBase
    BY <1>14 DEF EditBase, TypeOK, SyncInv, Coalesced, Outcomes
  <1>15. ASSUME NEW d \in Dbs, OpenDb(d)
        PROVE  SyncInv'
    BY <1>15 DEF OpenDb, TypeOK, SyncInv, Coalesced, Outcomes
  <1>16. CASE ResetTodo
    BY <1>16 DEF ResetTodo, TypeOK, SyncInv, Coalesced, Outcomes
  <1>17. CASE UNCHANGED vars
    BY <1>17 DEF vars, TypeOK, SyncInv, Coalesced, Outcomes
  <1> QED
    BY <1>1, <1>2, <1>3, <1>4, <1>5, <1>6, <1>7, <1>8,
       <1>9, <1>10, <1>11, <1>12, <1>13, <1>14, <1>15, <1>16, <1>17 DEF Next, CallStep

\* A status is shown as its own base answered it.
LEMMA StatusInvNext == IInv /\ [Next]_vars => StatusInv'
  <1> SUFFICES ASSUME IInv, [Next]_vars PROVE StatusInv'
    OBVIOUS
  <1> USE NoneAssumption, RelayAssumption, BaseAssumption DEF IInv, callVars, syncVars, pageVars
  <1>1. ASSUME NEW c \in Calls, Refresh(c)
        PROVE  StatusInv'
    BY <1>1 DEF Refresh, Begin, Goto, StatusInv, Told
  <1>2. ASSUME NEW c \in Calls, Restart(c)
        PROVE  StatusInv'
    BY <1>2 DEF Restart, Begin, Goto, StatusInv, Told
  <1>3. ASSUME NEW c \in Calls, Check(c)
        PROVE  StatusInv'
    BY <1>3 DEF Check, Begin, Goto, LookupStep, StatusInv, Told
  <1>4. ASSUME NEW c \in Calls, Sync(c)
        PROVE  StatusInv'
    BY <1>4 DEF Sync, Begin, Goto, StatusInv, Told
  <1>5. ASSUME NEW c \in Calls, RestartAnswered(c)
        PROVE  StatusInv'
    BY <1>5 DEF RestartAnswered, Goto, StatusInv, Told
  <1>6. ASSUME NEW c \in Calls, HealthAnswered(c)
        PROVE  StatusInv'
    BY <1>6 DEF HealthAnswered, Goto, StatusInv, Told
  <1>7. ASSUME NEW c \in Calls, StatusAnswered(c)
        PROVE  StatusInv'
    <2>1. CASE /\ pc[c] = "status" /\ pc' = [pc EXCEPT ![c] = "fallback"]
               /\ UNCHANGED <<pageVars, status, info, kind, asked, syncVars>>
      BY <2>1 DEF StatusInv, Told
    <2>2. ASSUME NEW result, RefreshEnds(c, result),
                 result = None \/ Faithful(result)
          PROVE  StatusInv'
      BY <2>2 DEF RefreshEnds, StatusInv, Told, Faithful
    <2> QED
      BY <1>7, <2>1, <2>2, StatusSteps
  <1>8. ASSUME NEW c \in Calls, FallbackAnswered(c)
        PROVE  StatusInv'
    <2>1. CASE /\ pc[c] = "status" /\ pc' = [pc EXCEPT ![c] = "fallback"]
               /\ UNCHANGED <<pageVars, status, info, kind, asked, syncVars>>
      BY <2>1 DEF StatusInv, Told
    <2>2. ASSUME NEW result, RefreshEnds(c, result),
                 result = None \/ Faithful(result)
          PROVE  StatusInv'
      BY <2>2 DEF RefreshEnds, StatusInv, Told, Faithful
    <2> QED
      BY <1>8, <2>1, <2>2, StatusSteps
  <1>9. ASSUME NEW c \in Calls, SyncAttempt(c)
        PROVE  StatusInv'
    BY <1>9 DEF SyncAttempt, Goto, StatusInv, Told
  <1>10. ASSUME NEW c \in Calls, SyncAnswered(c)
        PROVE  StatusInv'
    BY <1>10 DEF SyncAnswered, Goto, LookupStep, StatusInv, Told
  <1>11. ASSUME NEW c \in Calls, SyncFailed(c)
        PROVE  StatusInv'
    BY <1>11 DEF SyncFailed, Goto, Say, Return, StatusInv, Told
  <1>12. ASSUME NEW c \in Calls, LookupAnswered(c)
        PROVE  StatusInv'
    BY <1>12 DEF LookupAnswered, Goto, Say, StatusInv, Told
  <1>13. ASSUME NEW c \in Calls, StatsAnswered(c)
        PROVE  StatusInv'
    BY <1>13 DEF StatsAnswered, Goto, Return, StatusInv, Told
  <1>14. CASE EditBase
    BY <1>14 DEF EditBase, StatusInv, Told
  <1>15. ASSUME NEW d \in Dbs, OpenDb(d)
        PROVE  StatusInv'
    BY <1>15 DEF OpenDb, StatusInv, Told
  <1>16. CASE ResetTodo
    BY <1>16 DEF ResetTodo, StatusInv, Told
  <1>17. CASE UNCHANGED vars
    BY <1>17 DEF vars, StatusInv, Told
  <1> QED
    BY <1>1, <1>2, <1>3, <1>4, <1>5, <1>6, <1>7, <1>8,
       <1>9, <1>10, <1>11, <1>12, <1>13, <1>14, <1>15, <1>16, <1>17 DEF Next, CallStep

\* A sync is reported with the outcome of its last attempt.
LEMMA NothingNext == IInv /\ [Next]_vars => NothingMeansNothing'
  <1> SUFFICES ASSUME IInv, [Next]_vars PROVE NothingMeansNothing'
    OBVIOUS
  <1> USE NoneAssumption, RelayAssumption, BaseAssumption DEF IInv, callVars, syncVars, pageVars
  <1>1. ASSUME NEW c \in Calls, Refresh(c)
        PROVE  NothingMeansNothing'
    BY <1>1 DEF Refresh, Begin, Goto, TypeOK, SyncInv, NothingMeansNothing
  <1>2. ASSUME NEW c \in Calls, Restart(c)
        PROVE  NothingMeansNothing'
    BY <1>2 DEF Restart, Begin, Goto, TypeOK, SyncInv, NothingMeansNothing
  <1>3. ASSUME NEW c \in Calls, Check(c)
        PROVE  NothingMeansNothing'
    BY <1>3 DEF Check, Begin, Goto, LookupStep, TypeOK, SyncInv, NothingMeansNothing
  <1>4. ASSUME NEW c \in Calls, Sync(c)
        PROVE  NothingMeansNothing'
    BY <1>4 DEF Sync, Begin, Goto, TypeOK, SyncInv, NothingMeansNothing
  <1>5. ASSUME NEW c \in Calls, RestartAnswered(c)
        PROVE  NothingMeansNothing'
    BY <1>5 DEF RestartAnswered, Goto, TypeOK, SyncInv, NothingMeansNothing
  <1>6. ASSUME NEW c \in Calls, HealthAnswered(c)
        PROVE  NothingMeansNothing'
    BY <1>6 DEF HealthAnswered, Goto, TypeOK, SyncInv, NothingMeansNothing
  <1>7. ASSUME NEW c \in Calls, StatusAnswered(c)
        PROVE  NothingMeansNothing'
    BY <1>7, StatusQuiet
  <1>8. ASSUME NEW c \in Calls, FallbackAnswered(c)
        PROVE  NothingMeansNothing'
    BY <1>8, StatusQuiet
  <1>9. ASSUME NEW c \in Calls, SyncAttempt(c)
        PROVE  NothingMeansNothing'
    BY <1>9 DEF SyncAttempt, Goto, TypeOK, SyncInv, NothingMeansNothing
  <1>10. ASSUME NEW c \in Calls, SyncAnswered(c)
        PROVE  NothingMeansNothing'
    BY <1>10 DEF SyncAnswered, Goto, LookupStep, TypeOK, SyncInv, NothingMeansNothing
  <1>11. ASSUME NEW c \in Calls, SyncFailed(c)
        PROVE  NothingMeansNothing'
    BY <1>11 DEF SyncFailed, Goto, Say, Return, TypeOK, SyncInv, NothingMeansNothing
  <1>12. ASSUME NEW c \in Calls, LookupAnswered(c)
        PROVE  NothingMeansNothing'
    BY <1>12 DEF LookupAnswered, Goto, Say, TypeOK, SyncInv, NothingMeansNothing
  <1>13. ASSUME NEW c \in Calls, StatsAnswered(c)
        PROVE  NothingMeansNothing'
    BY <1>13 DEF StatsAnswered, Goto, Return, TypeOK, SyncInv, NothingMeansNothing
  <1>14. CASE EditBase
    BY <1>14 DEF EditBase, TypeOK, SyncInv, NothingMeansNothing
  <1>15. ASSUME NEW d \in Dbs, OpenDb(d)
        PROVE  NothingMeansNothing'
    BY <1>15 DEF OpenDb, TypeOK, SyncInv, NothingMeansNothing
  <1>16. CASE ResetTodo
    BY <1>16 DEF ResetTodo, TypeOK, SyncInv, NothingMeansNothing
  <1>17. CASE UNCHANGED vars
    BY <1>17 DEF vars, TypeOK, SyncInv, NothingMeansNothing
  <1> QED
    BY <1>1, <1>2, <1>3, <1>4, <1>5, <1>6, <1>7, <1>8,
       <1>9, <1>10, <1>11, <1>12, <1>13, <1>14, <1>15, <1>16, <1>17 DEF Next, CallStep

LEMMA IInvInit == Init => IInv
  <1> SUFFICES ASSUME Init PROVE IInv
    OBVIOUS
  <1>1. TypeOK
    <2>1. attempts \in [Calls -> 0..SyncAttempts]
      BY DEF Init, SyncAttempts
    <2> QED
      BY <2>1 DEF Init, TypeOK
  <1>2. CallInv /\ SyncInv
    BY DEF Init, CallInv, SyncInv
  <1>3. StatusInv /\ NothingMeansNothing
    BY DEF Init, StatusInv, NothingMeansNothing
  <1> QED
    BY <1>1, <1>2, <1>3 DEF IInv

LEMMA Inductive == Spec => []IInv
  <1>1. IInv /\ [Next]_vars => IInv'
    BY TypeOKNext, CallInvNext, SyncInvNext, StatusInvNext, NothingNext DEF IInv
  <1> QED
    BY <1>1, IInvInit, PTL DEF Spec

----------------------------------------------------------------------------
\* Every reachable state is well typed.
THEOREM TypeCorrect == Spec => []TypeOK
  BY Inductive, PTL DEF IInv

\* A sync that is reported to have brought nothing had no attempt that found
\* something (the retry loop of triggerPinningSync, relayApi.ts).
THEOREM NothingMissed == Spec => []NothingMeansNothing
  BY Inductive, PTL DEF IInv

\* The addresses the page chooses from, by the route of its status.
LEMMA DialledAddrs ==
  ASSUME IInv, status # None
  PROVE  /\ status.base \in Bases /\ Told(status) \in SUBSET Address
         /\ status.addrs = Normalize(status.base.local, Told(status))
         /\ status.addrs \in SUBSET Address
         /\ base \in Bases
  <1>1. /\ status.base \in Bases /\ base \in Bases
        /\ status.announced \in SUBSET Address
        /\ status.addrs = Normalize(status.base.local, Told(status))
        /\ status.addrs \in SUBSET Address
    BY DEF IInv, TypeOK, StatusInv
  <1>2. Told(status) \in SUBSET Address
    BY <1>1, FilterType DEF Told
  <1> QED
    BY <1>1, <1>2

\* The page never dials its own machine or network in place of the relay whose
\* status it has read (relayDialMultiaddrs and filterMultiaddrsForStatusRequest):
\* under a base that is not local whatever it dials is public, whichever relay,
\* base or route the status came from; under a local base, its own status from a
\* relay that takes only callers on its machine for local ones has public
\* addresses, or loopback ones of the machine both are on.
THEOREM DialsTheRelay == Spec => []PickReachesRelay
  <1>1. IInv => PickReachesRelay
    <2> SUFFICES ASSUME IInv, status # None, base.local => OwnStatus, NEW a \in Picked
                 PROVE  Reaches(a, status.base.relay)
      BY DEF PickReachesRelay
    <2>1. /\ status.base \in Bases /\ base \in Bases /\ Told(status) \in SUBSET Address
          /\ status.addrs = Normalize(status.base.local, Told(status))
          /\ status.addrs \in SUBSET Address
      BY DialledAddrs
    <2>2. /\ status.base.relay \in Relays
          /\ status.base.requester \in {"loopback", "other"}
          /\ base.local \in BOOLEAN
      BY <2>1, BaseAssumption DEF Base
    <2>3. DialAddrs(base.local, status.addrs) \in SUBSET Address
      BY <2>1 DEF DialAddrs, FilterPublic
    <2>4. a \in DialAddrs(base.local, status.addrs)
      BY <2>3, PickSocket DEF Picked
    <2>5. CASE ~base.local
      <3>1. a \in Address /\ IsPublic(a)
        BY <2>1, <2>4, <2>5 DEF DialAddrs, FilterPublic
      <3> QED
        BY <3>1, <2>2, PublicReaches
    <2>6. CASE base.local
      <3> status.base = base /\ status.route = "status"
        BY <2>6 DEF OwnStatus
      <3>1. PICK b \in Told(status) : a = NormalizeLocal(b)
        BY <2>1, <2>4, <2>6 DEF DialAddrs, Normalize
      <3>2. b \in Address /\ a \in Address
        BY <2>1, <3>1, NormalizeLocalType
      <3>3. CASE IsPublic(b)
        BY <3>1, <3>2, <3>3, <2>2, NormalizeLocalType, PublicReaches
      <3>4. CASE ~IsPublic(b)
        <4>1. status.base.requester = "loopback"
          BY <2>2, <3>1, <3>4 DEF Told, FilterForRequest, FilterPublic
        <4>2. Place[status.base.relay] = "host"
          BY <4>1, <2>6 DEF OwnStatus
        <4>3. a.host = "loopback"
          BY <3>1, <3>2, <3>4, NormalizeLocalType
        <4> QED
          BY <4>2, <4>3 DEF Reaches
      <3> QED
        BY <3>3, <3>4
    <2> QED
      BY <2>2, <2>5, <2>6
  <1> QED
    BY <1>1, Inductive, PTL

\* Neither filter takes the last WebSocket address a runtime announced away from
\* the page it is meant for: any one, for a local caller of a local base; a
\* public one, for every page (filterMultiaddrsForStatusRequest and
\* relayDialMultiaddrs).  A stopped runtime may have announced none.
THEOREM CallersAreServed == Spec => []CallersCanDial
  <1>1. IInv => CallersCanDial
    <2> SUFFICES ASSUME IInv, status # None, status.base = base, status.route = "status",
                        NEW a \in status.announced, a.layer \in {"ws", "wss"},
                        IsPublic(a) \/ (base.local /\ base.requester = "loopback")
                 PROVE  Picked # {}
      BY DEF CallersCanDial
    <2>1. /\ base \in Bases /\ Told(status) \in SUBSET Address
          /\ status.addrs = Normalize(base.local, Told(status))
          /\ status.addrs \in SUBSET Address
      BY DialledAddrs
    <2>2. /\ base.local \in BOOLEAN
          /\ Told(status) = FilterForRequest(status.announced, base.requester)
      BY <2>1, BaseAssumption DEF Base, Told
    <2>3. DialAddrs(base.local, status.addrs) \in SUBSET Address
      BY <2>1 DEF DialAddrs, FilterPublic
    <2>4. a \in Told(status) /\ a \in Address
      BY <2>1, <2>2 DEF FilterForRequest, FilterPublic
    <2>5. \E x \in DialAddrs(base.local, status.addrs) : x.layer \in {"wss", "ws"}
      <3>1. CASE base.local
        <4>1. NormalizeLocal(a) \in DialAddrs(base.local, status.addrs)
          BY <2>1, <3>1, <2>4 DEF DialAddrs, Normalize
        <4> QED
          BY <2>4, <4>1, NormalizeLocalType
      <3>2. CASE ~base.local
        <4>1. a \in DialAddrs(base.local, status.addrs)
          BY <2>1, <2>4, <3>2 DEF DialAddrs, FilterPublic, Normalize
        <4> QED
          BY <4>1
      <3> QED
        BY <2>2, <3>1, <3>2
    <2> QED
      BY <2>3, <2>5, PickSocket DEF Picked
  <1> QED
    BY <1>1, Inductive, PTL
=============================================================================
