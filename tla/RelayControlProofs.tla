------------------------- MODULE RelayControlProofs -------------------------
(***************************************************************************)
(* Proofs about RelayControl, for every set of requests, signals, settings *)
(* and values and every bound on I/O errors.                               *)
(***************************************************************************)
EXTENDS RelayControl, SequenceTheorems, TLAPS

----------------------------------------------------------------------------
\* Override sets.

LEMMA NoOverridesType == NoOverrides \in Overrides
  BY DEF NoOverrides, Overrides

LEMMA OnlyType ==
  ASSUME NEW f \in Fields, NEW v \in Values
  PROVE  Only(f, v) \in Overrides
  <1>1. Only(f, v) \in [{f} -> Values]
    BY DEF Only
  <1>2. {f} \in SUBSET Fields
    OBVIOUS
  <1> QED
    BY <1>1, <1>2 DEF Overrides

LEMMA ChangesType ==
  PortChanges \cup TopicChanges \cup {NoOverrides} \subseteq Overrides
  BY NoOverridesType, OnlyType, ConstantsAssumption
    DEF PortChanges, TopicChanges

\* { ...prev, ...change } of two override sets is one.
LEMMA SpreadType ==
  ASSUME NEW prev \in Overrides, NEW change \in Overrides
  PROVE  Spread(prev, change) \in Overrides
  <1>1. PICK S \in SUBSET Fields : prev \in [S -> Values]
    BY DEF Overrides
  <1>2. PICK T \in SUBSET Fields : change \in [T -> Values]
    BY DEF Overrides
  <1>3. Spread(prev, change) \in [S \cup T -> Values]
    BY <1>1, <1>2 DEF Spread
  <1> QED
    BY <1>3 DEF Overrides

----------------------------------------------------------------------------
\* Type correctness.  TypeOK alone is not inductive: a step of the job uses
\* next[running], so the job must have a request whenever it is not idle.

JobHasRequest == pc[Job] # "idle" => running \in Requests

Typed == TypeOK /\ JobHasRequest

LEMMA IdleType == Idle \in [Procs -> Steps]
  BY DEF Idle, Steps

LEMMA InitTyped == Init => Typed
  <1> SUFFICES ASSUME Init PROVE Typed
    OBVIOUS
  <1>1. JobHasRequest
    BY ConstantsAssumption DEF Init, JobHasRequest, Idle, Procs
  <1>2. TypeOK
    BY NoOverridesType, IdleType, ConstantsAssumption
      DEF Init, TypeOK, RequestStates, NodeStates
  <1> QED
    BY <1>1, <1>2 DEF Typed

LEMMA GoneTyped ==
  ASSUME TypeOK, ProcessGone
  PROVE  Typed'
  <1>1. JobHasRequest'
    BY ConstantsAssumption DEF ProcessGone, JobHasRequest, Idle, Procs
  <1>2. TypeOK'
    BY NoOverridesType, IdleType, ConstantsAssumption
      DEF ProcessGone, TypeOK, RequestStates, NodeStates
  <1> QED
    BY <1>1, <1>2 DEF Typed

LEMMA FaultType ==
  ASSUME TypeOK, Fault \/ NoFault
  PROVE  faults' \in 0..MaxFaults
  BY ConstantsAssumption DEF TypeOK, Fault, NoFault

\* A step of startRelayRuntime changes the types of nothing else.
LEMMA StartStepTyped ==
  ASSUME Typed, NEW p \in Starters, StartStep(p)
  PROVE  Typed'
  <1>0. p \in Procs
    BY DEF Starters, Procs
  <1> USE <1>0 DEF StartStep
  <1>1. faults' \in 0..MaxFaults
    <2>1. Fault \/ NoFault
      BY DEF OpenDatastore, OpenBlockstore, StartNode, CreateHandlers
    <2> QED
      BY <2>1, FaultType DEF Typed
  <1>2. \E step \in StartSteps : pc' = [pc EXCEPT ![p] = step]
    BY DEF OpenDatastore, OpenBlockstore, StartNode, CreateHandlers, StartSteps
  <1>3. pc' \in [Procs -> Steps]
    BY <1>2 DEF Typed, TypeOK, Steps
  <1>4. JobHasRequest'
    <2>1. running' = running /\ pc[p] # "idle"
      BY DEF OpenDatastore, OpenBlockstore, StartNode, CreateHandlers, queueVars
    <2> QED
      BY <1>2, <2>1 DEF Typed, TypeOK, JobHasRequest
  <1>5. datastore' = datastore \/ datastore' = [datastore EXCEPT ![target[p]] = TRUE]
    BY DEF OpenDatastore, OpenBlockstore, StartNode, CreateHandlers, storeVars
  <1>6. datastore' \in [Runtimes -> BOOLEAN]
    BY <1>5 DEF Typed, TypeOK
  <1>7. blockstore' = blockstore \/ blockstore' = [blockstore EXCEPT ![target[p]] = TRUE]
    BY DEF OpenDatastore, OpenBlockstore, StartNode, CreateHandlers, storeVars
  <1>8. blockstore' \in [Runtimes -> BOOLEAN]
    BY <1>7 DEF Typed, TypeOK
  <1>9. node' \in [Runtimes -> NodeStates]
    BY DEF OpenDatastore, OpenBlockstore, StartNode, CreateHandlers, Typed, TypeOK, NodeStates
  <1>10. listenOverrides' \in [Runtimes -> Overrides]
    <2>1. pc[p] # "idle" =>
            (IF p = Job THEN next[running] ELSE NoOverrides) \in Overrides
      BY NoOverridesType DEF Typed, TypeOK, JobHasRequest
    <2> QED
      BY <2>1 DEF OpenDatastore, OpenBlockstore, StartNode, CreateHandlers, Typed, TypeOK
  <1>11. UNCHANGED <<requestVars, queueVars, target, serverVars>>
    BY DEF OpenDatastore, OpenBlockstore, StartNode, CreateHandlers
  <1> QED
    BY <1>1, <1>3, <1>4, <1>6, <1>8, <1>9, <1>10, <1>11
      DEF Typed, TypeOK, requestVars, queueVars, serverVars

\* A step of RelayRuntime.stop changes the types of nothing else.
LEMMA StopStepTyped ==
  ASSUME Typed, NEW p \in Stoppers, StopStep(p)
  PROVE  Typed'
  <1>0. p \in Procs
    BY DEF Stoppers, Procs
  <1> USE <1>0 DEF StopStep
  <1>1. faults' \in 0..MaxFaults
    <2>1. Fault \/ NoFault
      BY DEF StopNode, NodeStopped, CloseBlockstore, CloseDatastore, NoFault
    <2> QED
      BY <2>1, FaultType DEF Typed
  <1>2. \E step \in StopSteps : pc' = [pc EXCEPT ![p] = step]
    BY DEF StopNode, NodeStopped, CloseBlockstore, CloseDatastore, StopSteps
  <1>3. pc' \in [Procs -> Steps]
    BY <1>2 DEF Typed, TypeOK, Steps
  <1>4. JobHasRequest'
    <2>1. running' = running /\ pc[p] # "idle"
      BY DEF StopNode, NodeStopped, CloseBlockstore, CloseDatastore, queueVars
    <2> QED
      BY <1>2, <2>1 DEF Typed, TypeOK, JobHasRequest
  <1>5. datastore' = datastore \/ datastore' = [datastore EXCEPT ![target[p]] = FALSE]
    BY DEF StopNode, NodeStopped, CloseBlockstore, CloseDatastore, storeVars
  <1>6. datastore' \in [Runtimes -> BOOLEAN]
    BY <1>5 DEF Typed, TypeOK
  <1>7. blockstore' = blockstore \/ blockstore' = [blockstore EXCEPT ![target[p]] = FALSE]
    BY DEF StopNode, NodeStopped, CloseBlockstore, CloseDatastore, storeVars
  <1>8. blockstore' \in [Runtimes -> BOOLEAN]
    BY <1>7 DEF Typed, TypeOK
  <1>9. node' \in [Runtimes -> NodeStates]
    BY ZenonT(90) DEF StopNode, NodeStopped, CloseBlockstore, CloseDatastore, Typed, TypeOK, NodeStates
  <1>10. UNCHANGED <<requestVars, queueVars, target, serverVars, listenOverrides>>
    BY DEF StopNode, NodeStopped, CloseBlockstore, CloseDatastore
  <1> QED
    BY <1>1, <1>3, <1>4, <1>6, <1>8, <1>9, <1>10
      DEF Typed, TypeOK, requestVars, queueVars, serverVars

LEMMA AcceptTyped ==
  ASSUME Typed, NEW r \in Requests, NEW change \in Overrides,
         Accept(r, change),
         UNCHANGED <<serialQueue, running, pc, target, serverVars,
                     listenOverrides, node, storeVars, faults>>
  PROVE  Typed'
  <1>1. Spread(activeOverrides, change) \in Overrides
    BY SpreadType DEF Typed, TypeOK
  <1> QED
    BY <1>1 DEF Typed, TypeOK, JobHasRequest, Accept, RequestStates,
                serverVars, storeVars

\* A step of the HTTP server that begins, holds up or ends a response and does
\* nothing else.
Responds(r) ==
  /\ req[r] \in {"new"} \cup Unanswered
  /\ \E state \in {"open", "held", "answered"} : req' = [req EXCEPT ![r] = state]
  /\ UNCHANGED <<asked, accepted, next, queueVars, pc, target, serverVars,
                 listenOverrides, node, storeVars, faults>>

LEMMA RespondsCases ==
  ASSUME NEW r \in Requests, Refuse(r) \/ MountedRoute(r) \/ ResponseEnds(r)
  PROVE  Responds(r)
  BY DEF Responds, Unanswered, Refuse, MountedRoute, ResponseEnds

LEMMA RequestTyped ==
  ASSUME Typed, NEW r \in Requests,
         PostRun(r) \/ PostTopic(r) \/ TopicBody(r) \/ Responds(r)
  PROVE  Typed'
  <1>1. CASE PostRun(r)
    BY <1>1, AcceptTyped, ChangesType DEF PostRun
  <1>2. CASE PostTopic(r)
    BY <1>2 DEF PostTopic, Typed, TypeOK, JobHasRequest, RequestStates,
                queueVars, serverVars, storeVars
  <1>3. CASE TopicBody(r)
    BY <1>3, AcceptTyped, ChangesType DEF TopicBody
  <1>4. CASE Responds(r)
    BY <1>4 DEF Responds, Typed, TypeOK, JobHasRequest, RequestStates,
                queueVars, serverVars, storeVars
  <1> QED
    BY <1>1, <1>2, <1>3, <1>4

LEMMA JobTyped ==
  ASSUME Typed, JobBegin \/ JobSetOverrides \/ JobDone \/ JobFailed
  PROVE  Typed'
  <1> USE DEF Typed, TypeOK, JobHasRequest, Procs,
              requestVars, queueVars, serverVars, storeVars
  <1>1. CASE JobBegin
    <2>1. Head(serialQueue) \in Requests /\ Tail(serialQueue) \in Seq(Requests)
      BY <1>1 DEF JobBegin
    <2>2. /\ running' \in Requests /\ serialQueue' \in Seq(Requests)
          /\ req' \in [Requests -> RequestStates]
      BY <1>1, <2>1 DEF JobBegin, RequestStates
    <2>3. /\ pc' \in [Procs -> Steps]
          /\ target' \in [Procs -> Runtimes \cup {None}]
      BY <1>1 DEF JobBegin, Steps, StopSteps
    <2>4. /\ UNCHANGED <<asked, accepted, next, immediates, serverVars>>
          /\ UNCHANGED <<listenOverrides, node, storeVars, faults>>
      BY <1>1 DEF JobBegin
    <2>5. JobHasRequest'
      BY <2>2
    <2>6. TypeOK'
      BY <2>2, <2>3, <2>4
    <2> QED
      BY <2>5, <2>6
  <1>2. CASE JobSetOverrides
    BY <1>2 DEF JobSetOverrides, Steps, StartSteps, Runtimes
  <1>3. CASE JobDone
    BY <1>3 DEF JobDone, JobEnds, Steps, RequestStates
  <1>4. CASE JobFailed
    BY <1>4 DEF JobFailed, JobEnds, Steps, RequestStates
  <1> QED
    BY <1>1, <1>2, <1>3, <1>4

LEMMA NextTyped == Typed /\ [Next]_vars => Typed'
  <1> SUFFICES ASSUME Typed, [Next]_vars PROVE Typed'
    OBVIOUS
  <1> USE DEF Typed, TypeOK, JobHasRequest, Procs,
              requestVars, queueVars, serverVars, storeVars
  <1>1. CASE BootBegin
    BY <1>1, ConstantsAssumption DEF BootBegin, Steps, StartSteps, Runtimes
  <1>2. CASE StartStep(Main)
    BY <1>2, StartStepTyped DEF Starters
  <1>3. CASE BootDone
    BY <1>3, ConstantsAssumption DEF BootDone, Steps, Runtimes
  <1>4. CASE BootFailed \/ Crash
    BY <1>4, GoneTyped DEF BootFailed, Crash
  <1>5. ASSUME NEW r \in Requests,
               \/ PostRun(r) \/ PostTopic(r) \/ TopicBody(r) \/ Refuse(r)
               \/ MountedRoute(r) \/ ResponseEnds(r)
        PROVE  Typed'
    BY <1>5, RequestTyped, RespondsCases
  <1>6. CASE RunImmediate
    <2>1. /\ Head(immediates) \in Requests
          /\ Tail(immediates) \in Seq(Requests)
      BY <1>6 DEF RunImmediate
    <2> QED
      BY <1>6, <2>1 DEF RunImmediate
  <1>7. CASE JobStep
    BY <1>7, JobTyped, StartStepTyped, StopStepTyped
      DEF JobStep, Starters, Stoppers
  <1>8. ASSUME NEW s \in Signals, Signal(s) \/ ShutdownStep(s)
        PROVE  Typed'
    <2>1. s # Job
      BY ConstantsAssumption
    <2>2. CASE Signal(s)
      BY <2>1, <2>2 DEF Signal, Steps
    <2>3. CASE CloseServers(s)
      BY <2>1, <2>3 DEF CloseServers, Steps, StopSteps
    <2>4. CASE StopStep(s)
      BY <2>4, StopStepTyped DEF Stoppers
    <2>5. CASE Exit(s)
      BY <2>5, GoneTyped DEF Exit
    <2> QED
      BY <1>8, <2>2, <2>3, <2>4, <2>5 DEF ShutdownStep
  <1>9. CASE UNCHANGED vars
    BY <1>9 DEF vars
  <1> QED
    BY <1>1, <1>2, <1>3, <1>4, <1>5, <1>6, <1>7, <1>8, <1>9 DEF Next

\* Every reachable state is well typed.
THEOREM TypeCorrect == Spec => []TypeOK
  <1>1. Typed => TypeOK
    BY DEF Typed
  <1> QED
    BY <1>1, InitTyped, NextTyped, PTL DEF Spec
----------------------------------------------------------------------------
\* The stores and the node.  What keeps a store open under a started node is
\* spread over the queue, the job and the shutdowns: a runtime being started
\* is one nobody stops (its node is new), a runtime being stopped is never new,
\* and a job never starts a runtime that existed before (no request is queued
\* twice).

OpenSteps == {"openDatastore", "openBlockstore", "startNode"}

\* Where each function can be, and that nothing but main() runs before it ends.
StepInv ==
  /\ pc[Main] \in StartSteps \cup {"down", "serving"}
  /\ pc[Job] \in StartSteps \cup StopSteps \cup {"idle"}
  /\ \A s \in Signals : pc[s] \in StopSteps \cup {"idle", "closeServers"}
  /\ \A p \in Stoppers : pc[p] # "idle" => Serving
  /\ pc[Main] \in StartSteps => target[Main] = Boot
  /\ pc[Job] \in StartSteps => target[Job] = running
  /\ Serving => runtime \in Runtimes /\ node[runtime] # "new"
  /\ serialQueue # <<>> \/ immediates # <<>> => Serving
  /\ \A r \in Requests : req[r] = "reading" => Serving

\* What a function that starts a runtime has already done.
StartInv ==
  \A p \in Starters :
    /\ pc[p] \in OpenSteps => node[target[p]] = "new"
    /\ pc[p] \in {"openBlockstore", "startNode"} => datastore[target[p]]
    /\ pc[p] = "startNode" => blockstore[target[p]]
    /\ pc[p] \in {"handlers", "publish"} => node[target[p]] # "new"

\* What a function that stops a runtime has already done.
StopInv ==
  \A p \in Stoppers :
    /\ pc[p] \in StopSteps => target[p] \in Runtimes /\ node[target[p]] # "new"
    /\ pc[p] \in StopSteps \ {"stopNode"} => node[target[p]] # "started"

\* The runtime a request will get does not exist before its job starts it.
FreshInv ==
  /\ \A r \in Requests :
       req[r] \in {"new", "reading", "accepted"} => node[r] = "new"
  /\ pc[Job] \in StopSteps => node[running] = "new"
  /\ pc[Main] = "down" => node[Boot] = "new"

\* A request is queued at most once, and only while it waits.
Queued(q) == \A i \in 1..Len(q) : req[q[i]] = "accepted"
Distinct(q) == \A i, j \in 1..Len(q) : q[i] = q[j] => i = j
QueueInv ==
  /\ Queued(serialQueue) /\ Queued(immediates)
  /\ Distinct(serialQueue) /\ Distinct(immediates)
  /\ \A i \in 1..Len(serialQueue), j \in 1..Len(immediates) :
       serialQueue[i] # immediates[j]
  /\ pc[Job] # "idle" => req[running] = "running"

\* LevelDB's lock.
ExclusiveInv ==
  \A g, h \in Runtimes :
    /\ datastore[g] /\ datastore[h] => g = h
    /\ blockstore[g] /\ blockstore[h] => g = h

IInv ==
  /\ Typed /\ StepInv /\ StartInv /\ StopInv /\ FreshInv /\ QueueInv
  /\ ExclusiveInv /\ StoresOutliveNode
\* The steps of Next, each under the name of the handler or function that
\* takes it.
LEMMA NextCases ==
  [Next]_vars =>
    \/ BootBegin \/ BootDone \/ ProcessGone
    \/ \E p \in Starters : StartStep(p)
    \/ \E r \in Requests :
         PostRun(r) \/ PostTopic(r) \/ TopicBody(r) \/ Responds(r)
    \/ RunImmediate
    \/ JobBegin \/ JobSetOverrides \/ JobDone \/ JobFailed
    \/ \E p \in Stoppers : StopStep(p)
    \/ \E s \in Signals : Signal(s) \/ CloseServers(s)
    \/ UNCHANGED vars
  BY RespondsCases
    DEF Next, BootFailed, Crash, JobStep, ShutdownStep, Exit, Starters, Stoppers

\* A function that starts a runtime is starting one.
LEMMA StarterTarget ==
  ASSUME IInv, NEW p \in Starters, pc[p] \in StartSteps
  PROVE  target[p] \in Runtimes
  BY DEF IInv, StepInv, Typed, JobHasRequest, Starters, Runtimes, StartSteps

\* Each function is at one of its own steps, and only main() runs before it ends.
LEMMA StepInvNext == IInv /\ [Next]_vars => StepInv'
  <1> SUFFICES ASSUME IInv, [Next]_vars PROVE StepInv'
    OBVIOUS
  <1> USE ConstantsAssumption DEF IInv, Typed, TypeOK, Procs, Runtimes, Starters, Stoppers,
              requestVars, queueVars, serverVars, storeVars
  <1>1. CASE BootBegin
    BY <1>1 DEF BootBegin, StepInv, Serving, StartSteps, StopSteps
  <1>2. ASSUME NEW p \in Starters, OpenDatastore(p)
        PROVE  StepInv'
    BY <1>2 DEF OpenDatastore, Unlocked, StepInv, Serving, StartSteps, StopSteps
  <1>3. ASSUME NEW p \in Starters, OpenBlockstore(p)
        PROVE  StepInv'
    BY <1>3 DEF OpenBlockstore, Unlocked, StepInv, Serving, StartSteps, StopSteps
  <1>4. ASSUME NEW p \in Starters, StartNode(p)
        PROVE  StepInv'
    BY <1>4 DEF StartNode, StepInv, Serving, StartSteps, StopSteps
  <1>5. ASSUME NEW p \in Starters, CreateHandlers(p)
        PROVE  StepInv'
    BY ZenonT(90), <1>5 DEF CreateHandlers, StepInv, Serving, StartSteps, StopSteps
  <1>6. CASE BootDone
    BY <1>6 DEF BootDone, StepInv, Serving, StartSteps, StopSteps, StartInv
  <1>7. CASE ProcessGone
    BY <1>7 DEF ProcessGone, Unanswered, Idle, StepInv, Serving, StartSteps, StopSteps
  <1>8. ASSUME NEW r \in Requests, PostRun(r)
        PROVE  StepInv'
    BY <1>8 DEF PostRun, Accept, Accepting, StepInv, Serving, StartSteps, StopSteps, Accepting
  <1>9. ASSUME NEW r \in Requests, PostTopic(r)
        PROVE  StepInv'
    BY <1>9 DEF PostTopic, StepInv, Serving, StartSteps, StopSteps, Accepting
  <1>10. ASSUME NEW r \in Requests, TopicBody(r)
        PROVE  StepInv'
    BY <1>10 DEF TopicBody, Accept, StepInv, Serving, StartSteps, StopSteps
  <1>11. ASSUME NEW r \in Requests, Responds(r)
        PROVE  StepInv'
    BY <1>11 DEF Responds, StepInv, Serving, StartSteps, StopSteps
  <1>12. CASE RunImmediate
    BY <1>12 DEF RunImmediate, StepInv, Serving, StartSteps, StopSteps
  <1>13. CASE JobBegin
    BY <1>13 DEF JobBegin, StepInv, Serving, StartSteps, StopSteps
  <1>14. ASSUME NEW p \in Stoppers, StopNode(p)
        PROVE  StepInv'
    BY ZenonT(90), <1>14 DEF StopNode, StepInv, Serving, StartSteps, StopSteps
  <1>15. ASSUME NEW p \in Stoppers, NodeStopped(p)
        PROVE  StepInv'
    BY <1>15 DEF NodeStopped, StepInv, Serving, StartSteps, StopSteps
  <1>16. ASSUME NEW p \in Stoppers, CloseBlockstore(p)
        PROVE  StepInv'
    BY <1>16 DEF CloseBlockstore, StepInv, Serving, StartSteps, StopSteps
  <1>17. ASSUME NEW p \in Stoppers, CloseDatastore(p)
        PROVE  StepInv'
    BY <1>17 DEF CloseDatastore, StepInv, Serving, StartSteps, StopSteps
  <1>18. CASE JobSetOverrides
    BY <1>18 DEF JobSetOverrides, StepInv, Serving, StartSteps, StopSteps
  <1>19. CASE JobDone
    BY <1>19 DEF JobDone, JobEnds, StepInv, Serving, StartSteps, StopSteps, StartInv, JobHasRequest
  <1>20. CASE JobFailed
    BY <1>20 DEF JobFailed, JobEnds, StepInv, Serving, StartSteps, StopSteps
  <1>21. ASSUME NEW s \in Signals, Signal(s)
        PROVE  StepInv'
    BY <1>21 DEF Signal, StepInv, Serving, StartSteps, StopSteps
  <1>22. ASSUME NEW s \in Signals, CloseServers(s)
        PROVE  StepInv'
    BY <1>22 DEF CloseServers, StepInv, Serving, StartSteps, StopSteps
  <1>23. CASE UNCHANGED vars
    BY <1>23 DEF vars, StepInv, Serving, StartSteps, StopSteps
  <1> QED
    BY NextCases, <1>1, <1>2, <1>3, <1>4, <1>5, <1>6, <1>7, <1>8, <1>9, <1>10, <1>11, <1>12, <1>13, <1>14, <1>15, <1>16, <1>17, <1>18, <1>19, <1>20, <1>21, <1>22, <1>23
      DEF StartStep, StopStep

\* A function that starts a runtime keeps what its earlier steps established:
\* nobody stops the runtime it starts, for that runtime's node is still new.
LEMMA StartInvNext == IInv /\ [Next]_vars => StartInv'
  <1> SUFFICES ASSUME IInv, [Next]_vars PROVE StartInv'
    OBVIOUS
  <1> USE ConstantsAssumption DEF IInv, Typed, TypeOK, Procs, Runtimes, Starters, Stoppers,
              requestVars, queueVars, serverVars, storeVars
  <1>1. CASE BootBegin
    BY <1>1 DEF BootBegin, StartInv, OpenSteps, FreshInv, StepInv, StartSteps
  <1>2. ASSUME NEW p \in Starters, OpenDatastore(p)
        PROVE  StartInv'
    <2> SUFFICES ASSUME NEW q \in Starters
                 PROVE  /\ pc'[q] \in OpenSteps => node'[target'[q]] = "new"
                        /\ pc'[q] \in {"openBlockstore", "startNode"}
                             => datastore'[target'[q]]
                        /\ pc'[q] = "startNode" => blockstore'[target'[q]]
                        /\ pc'[q] \in {"handlers", "publish"}
                             => node'[target'[q]] # "new"
      BY DEF StartInv
    <2>1. target[p] \in Runtimes
      BY <1>2, StarterTarget DEF OpenDatastore, StartSteps
    <2>2. CASE q = p
      BY <1>2, <2>1, <2>2 DEF OpenDatastore, StartInv, OpenSteps
    <2>3. CASE q # p
      <3>1. pc'[q] = pc[q] /\ target' = target /\ node' = node /\ blockstore' = blockstore
        BY <1>2, <2>3 DEF OpenDatastore
      <3>2. pc[q] \in StartSteps /\ datastore[target[q]] => datastore'[target[q]]
        BY <1>2, <2>1, StarterTarget DEF OpenDatastore
      <3> QED
        BY <3>1, <3>2 DEF StartInv, StartSteps
    <2> QED
      BY <2>2, <2>3
  <1>3. ASSUME NEW p \in Starters, OpenBlockstore(p)
        PROVE  StartInv'
    <2> SUFFICES ASSUME NEW q \in Starters
                 PROVE  /\ pc'[q] \in OpenSteps => node'[target'[q]] = "new"
                        /\ pc'[q] \in {"openBlockstore", "startNode"}
                             => datastore'[target'[q]]
                        /\ pc'[q] = "startNode" => blockstore'[target'[q]]
                        /\ pc'[q] \in {"handlers", "publish"}
                             => node'[target'[q]] # "new"
      BY DEF StartInv
    <2>1. target[p] \in Runtimes
      BY <1>3, StarterTarget DEF OpenBlockstore, StartSteps
    <2>2. CASE q = p
      BY <1>3, <2>1, <2>2 DEF OpenBlockstore, StartInv, OpenSteps
    <2>3. CASE q # p
      <3>1. pc'[q] = pc[q] /\ target' = target /\ node' = node /\ datastore' = datastore
        BY <1>3, <2>3 DEF OpenBlockstore
      <3>2. pc[q] \in StartSteps /\ blockstore[target[q]] => blockstore'[target[q]]
        BY <1>3, <2>1, StarterTarget DEF OpenBlockstore
      <3> QED
        BY <3>1, <3>2 DEF StartInv, StartSteps
    <2> QED
      BY <2>2, <2>3
  <1>4. ASSUME NEW p \in Starters, StartNode(p)
        PROVE  StartInv'
    BY <1>4 DEF StartNode, StartInv, OpenSteps, StepInv, Serving, StartSteps, JobHasRequest
  <1>5. ASSUME NEW p \in Starters, CreateHandlers(p)
        PROVE  StartInv'
    BY <1>5 DEF CreateHandlers, StartInv, OpenSteps
  <1>6. CASE BootDone
    BY <1>6 DEF BootDone, StartInv, OpenSteps, StepInv, Serving
  <1>7. CASE ProcessGone
    BY <1>7 DEF ProcessGone, Idle, StartInv, OpenSteps
  <1>8. ASSUME NEW r \in Requests, PostRun(r)
        PROVE  StartInv'
    BY <1>8 DEF PostRun, Accept, Accepting, StartInv, OpenSteps
  <1>9. ASSUME NEW r \in Requests, PostTopic(r)
        PROVE  StartInv'
    BY <1>9 DEF PostTopic, StartInv, OpenSteps
  <1>10. ASSUME NEW r \in Requests, TopicBody(r)
        PROVE  StartInv'
    BY <1>10 DEF TopicBody, Accept, StartInv, OpenSteps
  <1>11. ASSUME NEW r \in Requests, Responds(r)
        PROVE  StartInv'
    BY <1>11 DEF Responds, StartInv, OpenSteps
  <1>12. CASE RunImmediate
    BY <1>12 DEF RunImmediate, StartInv, OpenSteps
  <1>13. CASE JobBegin
    BY <1>13 DEF JobBegin, StartInv, OpenSteps, StepInv, Serving
  <1>14. ASSUME NEW p \in Stoppers, StopNode(p)
        PROVE  StartInv'
    <2> SUFFICES ASSUME NEW q \in Starters
                 PROVE  /\ pc'[q] \in OpenSteps => node'[target'[q]] = "new"
                        /\ pc'[q] \in {"openBlockstore", "startNode"}
                             => datastore'[target'[q]]
                        /\ pc'[q] = "startNode" => blockstore'[target'[q]]
                        /\ pc'[q] \in {"handlers", "publish"}
                             => node'[target'[q]] # "new"
      BY DEF StartInv
    <2>1. target[p] \in Runtimes /\ node[target[p]] # "new"
      BY <1>14 DEF StopNode, StopInv, StopSteps
    <2>2. CASE q = p
      BY <1>14, <2>2 DEF StopNode, OpenSteps
    <2>3. CASE q # p
      <3>1. pc'[q] = pc[q] /\ target' = target
        BY <1>14, <2>3 DEF StopNode
      <3>2. datastore' = datastore /\ blockstore' = blockstore
        BY <1>14 DEF StopNode
      <3>3. pc[q] \in StartSteps /\ target[q] # target[p]
              => node'[target[q]] = node[target[q]]
        BY <1>14, StarterTarget DEF StopNode
      <3>4. node'[target[p]] # "new"
        BY <1>14, <2>1 DEF StopNode
      <3> QED
        BY <2>1, <3>1, <3>2, <3>3, <3>4 DEF StartInv, OpenSteps, StartSteps
    <2> QED
      BY <2>2, <2>3
  <1>15. ASSUME NEW p \in Stoppers, NodeStopped(p)
        PROVE  StartInv'
    BY <1>15 DEF NodeStopped, StartInv, OpenSteps, StopInv, StopSteps
  <1>16. ASSUME NEW p \in Stoppers, CloseBlockstore(p)
        PROVE  StartInv'
    <2> SUFFICES ASSUME NEW q \in Starters
                 PROVE  /\ pc'[q] \in OpenSteps => node'[target'[q]] = "new"
                        /\ pc'[q] \in {"openBlockstore", "startNode"}
                             => datastore'[target'[q]]
                        /\ pc'[q] = "startNode" => blockstore'[target'[q]]
                        /\ pc'[q] \in {"handlers", "publish"}
                             => node'[target'[q]] # "new"
      BY DEF StartInv
    <2>1. target[p] \in Runtimes /\ node[target[p]] # "new"
      BY <1>16 DEF CloseBlockstore, StopInv, StopSteps
    <2>2. CASE q = p
      BY <1>16, <2>2 DEF CloseBlockstore, OpenSteps
    <2>3. CASE q # p
      <3>1. pc'[q] = pc[q] /\ target' = target
        BY <1>16, <2>3 DEF CloseBlockstore
      <3>2. node' = node /\ datastore' = datastore
        BY <1>16 DEF CloseBlockstore
      <3>3. pc[q] \in StartSteps /\ target[q] # target[p]
              => blockstore'[target[q]] = blockstore[target[q]]
        BY <1>16, StarterTarget DEF CloseBlockstore
      <3>4. node[target[p]] # "new"
        BY <1>16, <2>1 DEF CloseBlockstore
      <3> QED
        BY <2>1, <3>1, <3>2, <3>3, <3>4 DEF StartInv, OpenSteps, StartSteps
    <2> QED
      BY <2>2, <2>3
  <1>17. ASSUME NEW p \in Stoppers, CloseDatastore(p)
        PROVE  StartInv'
    <2> SUFFICES ASSUME NEW q \in Starters
                 PROVE  /\ pc'[q] \in OpenSteps => node'[target'[q]] = "new"
                        /\ pc'[q] \in {"openBlockstore", "startNode"}
                             => datastore'[target'[q]]
                        /\ pc'[q] = "startNode" => blockstore'[target'[q]]
                        /\ pc'[q] \in {"handlers", "publish"}
                             => node'[target'[q]] # "new"
      BY DEF StartInv
    <2>1. target[p] \in Runtimes /\ node[target[p]] # "new"
      BY <1>17 DEF CloseDatastore, StopInv, StopSteps
    <2>2. CASE q = p
      BY <1>17, <2>2 DEF CloseDatastore, OpenSteps
    <2>3. CASE q # p
      <3>1. pc'[q] = pc[q] /\ target' = target
        BY <1>17, <2>3 DEF CloseDatastore
      <3>2. node' = node /\ blockstore' = blockstore
        BY <1>17 DEF CloseDatastore
      <3>3. pc[q] \in StartSteps /\ target[q] # target[p]
              => datastore'[target[q]] = datastore[target[q]]
        BY <1>17, StarterTarget DEF CloseDatastore
      <3>4. node[target[p]] # "new"
        BY <1>17, <2>1 DEF CloseDatastore
      <3> QED
        BY <2>1, <3>1, <3>2, <3>3, <3>4 DEF StartInv, OpenSteps, StartSteps
    <2> QED
      BY <2>2, <2>3
  <1>18. CASE JobSetOverrides
    BY <1>18 DEF JobSetOverrides, StartInv, OpenSteps, FreshInv, JobHasRequest, StepInv, Serving, StopSteps, StartSteps
  <1>19. CASE JobDone
    BY <1>19 DEF JobDone, JobEnds, StartInv, OpenSteps
  <1>20. CASE JobFailed
    BY <1>20 DEF JobFailed, JobEnds, StartInv, OpenSteps
  <1>21. ASSUME NEW s \in Signals, Signal(s)
        PROVE  StartInv'
    BY <1>21 DEF Signal, StartInv, OpenSteps
  <1>22. ASSUME NEW s \in Signals, CloseServers(s)
        PROVE  StartInv'
    BY <1>22 DEF CloseServers, StartInv, OpenSteps
  <1>23. CASE UNCHANGED vars
    BY <1>23 DEF vars, StartInv, OpenSteps
  <1> QED
    BY NextCases, <1>1, <1>2, <1>3, <1>4, <1>5, <1>6, <1>7, <1>8, <1>9, <1>10, <1>11, <1>12, <1>13, <1>14, <1>15, <1>16, <1>17, <1>18, <1>19, <1>20, <1>21, <1>22, <1>23
      DEF StartStep, StopStep

\* A runtime being stopped does not start again.
LEMMA StopInvNext == IInv /\ [Next]_vars => StopInv'
  <1> SUFFICES ASSUME IInv, [Next]_vars PROVE StopInv'
    OBVIOUS
  <1> USE ConstantsAssumption DEF IInv, Typed, TypeOK, Procs, Runtimes, Starters, Stoppers,
              requestVars, queueVars, serverVars, storeVars
  <1>1. CASE BootBegin
    BY <1>1 DEF BootBegin, StopInv, StopSteps
  <1>2. ASSUME NEW p \in Starters, OpenDatastore(p)
        PROVE  StopInv'
    BY <1>2 DEF OpenDatastore, Unlocked, StopInv, StopSteps
  <1>3. ASSUME NEW p \in Starters, OpenBlockstore(p)
        PROVE  StopInv'
    BY <1>3 DEF OpenBlockstore, Unlocked, StopInv, StopSteps
  <1>4. ASSUME NEW p \in Starters, StartNode(p)
        PROVE  StopInv'
    BY <1>4 DEF StartNode, StopInv, StopSteps, StepInv, Serving, StartSteps, StartInv, OpenSteps
  <1>5. ASSUME NEW p \in Starters, CreateHandlers(p)
        PROVE  StopInv'
    BY <1>5 DEF CreateHandlers, StopInv, StopSteps
  <1>6. CASE BootDone
    BY <1>6 DEF BootDone, StopInv, StopSteps
  <1>7. CASE ProcessGone
    BY <1>7 DEF ProcessGone, Idle, StopInv, StopSteps
  <1>8. ASSUME NEW r \in Requests, PostRun(r)
        PROVE  StopInv'
    BY <1>8 DEF PostRun, Accept, Accepting, StopInv, StopSteps
  <1>9. ASSUME NEW r \in Requests, PostTopic(r)
        PROVE  StopInv'
    BY <1>9 DEF PostTopic, StopInv, StopSteps
  <1>10. ASSUME NEW r \in Requests, TopicBody(r)
        PROVE  StopInv'
    BY <1>10 DEF TopicBody, Accept, StopInv, StopSteps
  <1>11. ASSUME NEW r \in Requests, Responds(r)
        PROVE  StopInv'
    BY <1>11 DEF Responds, StopInv, StopSteps
  <1>12. CASE RunImmediate
    BY <1>12 DEF RunImmediate, StopInv, StopSteps
  <1>13. CASE JobBegin
    BY <1>13 DEF JobBegin, StopInv, StopSteps, StepInv, Serving
  <1>14. ASSUME NEW p \in Stoppers, StopNode(p)
        PROVE  StopInv'
    BY <1>14 DEF StopNode, StopInv, StopSteps
  <1>15. ASSUME NEW p \in Stoppers, NodeStopped(p)
        PROVE  StopInv'
    BY <1>15 DEF NodeStopped, StopInv, StopSteps
  <1>16. ASSUME NEW p \in Stoppers, CloseBlockstore(p)
        PROVE  StopInv'
    BY <1>16 DEF CloseBlockstore, StopInv, StopSteps
  <1>17. ASSUME NEW p \in Stoppers, CloseDatastore(p)
        PROVE  StopInv'
    BY <1>17 DEF CloseDatastore, StopInv, StopSteps
  <1>18. CASE JobSetOverrides
    BY <1>18 DEF JobSetOverrides, StopInv, StopSteps
  <1>19. CASE JobDone
    BY <1>19 DEF JobDone, JobEnds, StopInv, StopSteps
  <1>20. CASE JobFailed
    BY <1>20 DEF JobFailed, JobEnds, StopInv, StopSteps
  <1>21. ASSUME NEW s \in Signals, Signal(s)
        PROVE  StopInv'
    BY <1>21 DEF Signal, StopInv, StopSteps
  <1>22. ASSUME NEW s \in Signals, CloseServers(s)
        PROVE  StopInv'
    BY <1>22 DEF CloseServers, StopInv, StopSteps, StepInv, Serving
  <1>23. CASE UNCHANGED vars
    BY <1>23 DEF vars, StopInv, StopSteps
  <1> QED
    BY NextCases, <1>1, <1>2, <1>3, <1>4, <1>5, <1>6, <1>7, <1>8, <1>9, <1>10, <1>11, <1>12, <1>13, <1>14, <1>15, <1>16, <1>17, <1>18, <1>19, <1>20, <1>21, <1>22, <1>23
      DEF StartStep, StopStep

\* No runtime is started twice, for no request is served twice.
LEMMA FreshInvNext == IInv /\ [Next]_vars => FreshInv'
  <1> SUFFICES ASSUME IInv, [Next]_vars PROVE FreshInv'
    OBVIOUS
  <1> USE ConstantsAssumption DEF IInv, Typed, TypeOK, Procs, Runtimes, Starters, Stoppers,
              requestVars, queueVars, serverVars, storeVars
  <1>1. CASE BootBegin
    BY <1>1 DEF BootBegin, FreshInv, StopSteps
  <1>2. ASSUME NEW p \in Starters, OpenDatastore(p)
        PROVE  FreshInv'
    BY <1>2 DEF OpenDatastore, Unlocked, FreshInv, StopSteps
  <1>3. ASSUME NEW p \in Starters, OpenBlockstore(p)
        PROVE  FreshInv'
    BY <1>3 DEF OpenBlockstore, Unlocked, FreshInv, StopSteps
  <1>4. ASSUME NEW p \in Starters, StartNode(p)
        PROVE  FreshInv'
    BY <1>4 DEF StartNode, FreshInv, StopSteps, StepInv, Serving, StartSteps, QueueInv, JobHasRequest
  <1>5. ASSUME NEW p \in Starters, CreateHandlers(p)
        PROVE  FreshInv'
    BY <1>5 DEF CreateHandlers, FreshInv, StopSteps
  <1>6. CASE BootDone
    BY <1>6 DEF BootDone, FreshInv, StopSteps
  <1>7. CASE ProcessGone
    BY <1>7 DEF ProcessGone, Idle, FreshInv, StopSteps
  <1>8. ASSUME NEW r \in Requests, PostRun(r)
        PROVE  FreshInv'
    BY <1>8 DEF PostRun, Accept, Accepting, FreshInv, StopSteps
  <1>9. ASSUME NEW r \in Requests, PostTopic(r)
        PROVE  FreshInv'
    BY <1>9 DEF PostTopic, FreshInv, StopSteps
  <1>10. ASSUME NEW r \in Requests, TopicBody(r)
        PROVE  FreshInv'
    BY <1>10 DEF TopicBody, Accept, FreshInv, StopSteps
  <1>11. ASSUME NEW r \in Requests, Responds(r)
        PROVE  FreshInv'
    BY <1>11 DEF Responds, FreshInv, StopSteps
  <1>12. CASE RunImmediate
    BY <1>12 DEF RunImmediate, FreshInv, StopSteps
  <1>13. CASE JobBegin
    BY <1>13 DEF JobBegin, FreshInv, StopSteps, QueueInv, Queued, JobHasRequest, StepInv
  <1>14. ASSUME NEW p \in Stoppers, StopNode(p)
        PROVE  FreshInv'
    <2>1. target[p] \in Runtimes /\ node[target[p]] # "new"
      BY <1>14 DEF StopNode, StopInv, StopSteps
    <2>2. \A g \in Runtimes : node[g] = "new" => node'[g] = "new"
      BY <1>14, <2>1 DEF StopNode
    <2>3. Serving
      BY <1>14 DEF StopNode, StepInv
    <2>4. pc'[Main] = pc[Main] /\ (pc'[Job] \in StopSteps => pc[Job] \in StopSteps)
      BY <1>14 DEF StopNode, StopSteps
    <2> QED
      BY <1>14, <2>2, <2>3, <2>4 DEF StopNode, FreshInv, Serving, JobHasRequest, StopSteps
  <1>15. ASSUME NEW p \in Stoppers, NodeStopped(p)
        PROVE  FreshInv'
    BY <1>15 DEF NodeStopped, FreshInv, StopSteps, StopInv, StepInv, Serving
  <1>16. ASSUME NEW p \in Stoppers, CloseBlockstore(p)
        PROVE  FreshInv'
    BY <1>16 DEF CloseBlockstore, FreshInv, StopSteps
  <1>17. ASSUME NEW p \in Stoppers, CloseDatastore(p)
        PROVE  FreshInv'
    BY <1>17 DEF CloseDatastore, FreshInv, StopSteps
  <1>18. CASE JobSetOverrides
    BY <1>18 DEF JobSetOverrides, FreshInv, StopSteps
  <1>19. CASE JobDone
    BY <1>19 DEF JobDone, JobEnds, FreshInv, StopSteps, QueueInv, JobHasRequest, StepInv
  <1>20. CASE JobFailed
    BY <1>20 DEF JobFailed, JobEnds, FreshInv, StopSteps, QueueInv, JobHasRequest, StepInv
  <1>21. ASSUME NEW s \in Signals, Signal(s)
        PROVE  FreshInv'
    BY <1>21 DEF Signal, FreshInv, StopSteps
  <1>22. ASSUME NEW s \in Signals, CloseServers(s)
        PROVE  FreshInv'
    BY <1>22 DEF CloseServers, FreshInv, StopSteps
  <1>23. CASE UNCHANGED vars
    BY <1>23 DEF vars, FreshInv, StopSteps
  <1> QED
    BY NextCases, <1>1, <1>2, <1>3, <1>4, <1>5, <1>6, <1>7, <1>8, <1>9, <1>10, <1>11, <1>12, <1>13, <1>14, <1>15, <1>16, <1>17, <1>18, <1>19, <1>20, <1>21, <1>22, <1>23
      DEF StartStep, StopStep

\* The promise chain and the setImmediate queue hold each accepted request once.
LEMMA QueueInvNext == IInv /\ [Next]_vars => QueueInv'
  <1> SUFFICES ASSUME IInv, [Next]_vars PROVE QueueInv'
    OBVIOUS
  <1> USE ConstantsAssumption DEF IInv, Typed, TypeOK, Procs, Runtimes, Starters, Stoppers,
              requestVars, queueVars, serverVars, storeVars
  <1>1. CASE BootBegin
    BY ZenonT(90), <1>1 DEF BootBegin, QueueInv, Queued, Distinct
  <1>2. ASSUME NEW p \in Starters, OpenDatastore(p)
        PROVE  QueueInv'
    BY <1>2 DEF OpenDatastore, Unlocked, QueueInv, Queued, Distinct
  <1>3. ASSUME NEW p \in Starters, OpenBlockstore(p)
        PROVE  QueueInv'
    BY <1>3 DEF OpenBlockstore, Unlocked, QueueInv, Queued, Distinct
  <1>4. ASSUME NEW p \in Starters, StartNode(p)
        PROVE  QueueInv'
    BY <1>4 DEF StartNode, QueueInv, Queued, Distinct
  <1>5. ASSUME NEW p \in Starters, CreateHandlers(p)
        PROVE  QueueInv'
    <2>1. UNCHANGED <<req, serialQueue, immediates, running>>
      BY <1>5 DEF CreateHandlers
    <2>2. pc'[Job] # "idle" => pc[Job] # "idle"
      BY <1>5 DEF CreateHandlers
    <2> QED
      BY ZenonT(90), <2>1, <2>2 DEF QueueInv, Queued, Distinct
  <1>6. CASE BootDone
    BY <1>6 DEF BootDone, QueueInv, Queued, Distinct
  <1>7. CASE ProcessGone
    BY <1>7 DEF ProcessGone, Idle, QueueInv, Queued, Distinct
  <1>8. ASSUME NEW r \in Requests, PostRun(r)
        PROVE  QueueInv'
    BY <1>8 DEF PostRun, Accept, Accepting, QueueInv, Queued, Distinct, JobHasRequest
  <1>9. ASSUME NEW r \in Requests, PostTopic(r)
        PROVE  QueueInv'
    BY <1>9 DEF PostTopic, QueueInv, Queued, Distinct, JobHasRequest
  <1>10. ASSUME NEW r \in Requests, TopicBody(r)
        PROVE  QueueInv'
    BY <1>10 DEF TopicBody, Accept, QueueInv, Queued, Distinct, JobHasRequest
  <1>11. ASSUME NEW r \in Requests, Responds(r)
        PROVE  QueueInv'
    BY <1>11 DEF Responds, Unanswered, QueueInv, Queued, Distinct, JobHasRequest
  <1>12. CASE RunImmediate
    BY <1>12 DEF RunImmediate, QueueInv, Queued, Distinct
  <1>13. CASE JobBegin
    BY <1>13 DEF JobBegin, QueueInv, Queued, Distinct
  <1>14. ASSUME NEW p \in Stoppers, StopNode(p)
        PROVE  QueueInv'
    BY <1>14 DEF StopNode, QueueInv, Queued, Distinct
  <1>15. ASSUME NEW p \in Stoppers, NodeStopped(p)
        PROVE  QueueInv'
    BY <1>15 DEF NodeStopped, QueueInv, Queued, Distinct
  <1>16. ASSUME NEW p \in Stoppers, CloseBlockstore(p)
        PROVE  QueueInv'
    BY <1>16 DEF CloseBlockstore, QueueInv, Queued, Distinct
  <1>17. ASSUME NEW p \in Stoppers, CloseDatastore(p)
        PROVE  QueueInv'
    BY <1>17 DEF CloseDatastore, QueueInv, Queued, Distinct
  <1>18. CASE JobSetOverrides
    BY ZenonT(90), <1>18 DEF JobSetOverrides, QueueInv, Queued, Distinct
  <1>19. CASE JobDone
    BY <1>19 DEF JobDone, JobEnds, QueueInv, Queued, Distinct, JobHasRequest
  <1>20. CASE JobFailed
    BY <1>20 DEF JobFailed, JobEnds, QueueInv, Queued, Distinct, JobHasRequest
  <1>21. ASSUME NEW s \in Signals, Signal(s)
        PROVE  QueueInv'
    BY <1>21 DEF Signal, QueueInv, Queued, Distinct
  <1>22. ASSUME NEW s \in Signals, CloseServers(s)
        PROVE  QueueInv'
    BY ZenonT(90), <1>22 DEF CloseServers, QueueInv, Queued, Distinct
  <1>23. CASE UNCHANGED vars
    BY <1>23 DEF vars, QueueInv, Queued, Distinct
  <1> QED
    BY NextCases, <1>1, <1>2, <1>3, <1>4, <1>5, <1>6, <1>7, <1>8, <1>9, <1>10, <1>11, <1>12, <1>13, <1>14, <1>15, <1>16, <1>17, <1>18, <1>19, <1>20, <1>21, <1>22, <1>23
      DEF StartStep, StopStep

\* A store is opened only when nobody has it open.
LEMMA ExclusiveInvNext == IInv /\ [Next]_vars => ExclusiveInv'
  <1> SUFFICES ASSUME IInv, [Next]_vars PROVE ExclusiveInv'
    OBVIOUS
  <1> USE ConstantsAssumption DEF IInv, Typed, TypeOK, Procs, Runtimes, Starters, Stoppers,
              requestVars, queueVars, serverVars, storeVars
  <1>1. CASE BootBegin
    BY <1>1 DEF BootBegin, ExclusiveInv
  <1>2. ASSUME NEW p \in Starters, OpenDatastore(p)
        PROVE  ExclusiveInv'
    <2>1. UNCHANGED blockstore
      BY <1>2 DEF OpenDatastore
    <2>2. \/ UNCHANGED datastore
          \/ /\ \A g \in Runtimes : ~datastore[g]
             /\ datastore' = [datastore EXCEPT ![target[p]] = TRUE]
      BY <1>2 DEF OpenDatastore, Unlocked
    <2>3. \A g, h \in Runtimes : datastore'[g] /\ datastore'[h] => g = h
      BY <2>2 DEF ExclusiveInv
    <2> QED
      BY <2>1, <2>3 DEF ExclusiveInv
  <1>3. ASSUME NEW p \in Starters, OpenBlockstore(p)
        PROVE  ExclusiveInv'
    <2>1. UNCHANGED datastore
      BY <1>3 DEF OpenBlockstore
    <2>2. \/ UNCHANGED blockstore
          \/ /\ \A g \in Runtimes : ~blockstore[g]
             /\ blockstore' = [blockstore EXCEPT ![target[p]] = TRUE]
      BY <1>3 DEF OpenBlockstore, Unlocked
    <2>3. \A g, h \in Runtimes : blockstore'[g] /\ blockstore'[h] => g = h
      BY <2>2 DEF ExclusiveInv
    <2> QED
      BY <2>1, <2>3 DEF ExclusiveInv
  <1>4. ASSUME NEW p \in Starters, StartNode(p)
        PROVE  ExclusiveInv'
    BY <1>4 DEF StartNode, ExclusiveInv
  <1>5. ASSUME NEW p \in Starters, CreateHandlers(p)
        PROVE  ExclusiveInv'
    BY <1>5 DEF CreateHandlers, ExclusiveInv
  <1>6. CASE BootDone
    BY <1>6 DEF BootDone, ExclusiveInv
  <1>7. CASE ProcessGone
    BY <1>7 DEF ProcessGone, Idle, ExclusiveInv
  <1>8. ASSUME NEW r \in Requests, PostRun(r)
        PROVE  ExclusiveInv'
    BY <1>8 DEF PostRun, Accept, Accepting, ExclusiveInv
  <1>9. ASSUME NEW r \in Requests, PostTopic(r)
        PROVE  ExclusiveInv'
    BY <1>9 DEF PostTopic, ExclusiveInv
  <1>10. ASSUME NEW r \in Requests, TopicBody(r)
        PROVE  ExclusiveInv'
    BY <1>10 DEF TopicBody, Accept, ExclusiveInv
  <1>11. ASSUME NEW r \in Requests, Responds(r)
        PROVE  ExclusiveInv'
    BY <1>11 DEF Responds, ExclusiveInv
  <1>12. CASE RunImmediate
    BY <1>12 DEF RunImmediate, ExclusiveInv
  <1>13. CASE JobBegin
    BY <1>13 DEF JobBegin, ExclusiveInv
  <1>14. ASSUME NEW p \in Stoppers, StopNode(p)
        PROVE  ExclusiveInv'
    BY <1>14 DEF StopNode, ExclusiveInv
  <1>15. ASSUME NEW p \in Stoppers, NodeStopped(p)
        PROVE  ExclusiveInv'
    BY <1>15 DEF NodeStopped, ExclusiveInv
  <1>16. ASSUME NEW p \in Stoppers, CloseBlockstore(p)
        PROVE  ExclusiveInv'
    BY <1>16 DEF CloseBlockstore, ExclusiveInv
  <1>17. ASSUME NEW p \in Stoppers, CloseDatastore(p)
        PROVE  ExclusiveInv'
    BY <1>17 DEF CloseDatastore, ExclusiveInv
  <1>18. CASE JobSetOverrides
    BY <1>18 DEF JobSetOverrides, ExclusiveInv
  <1>19. CASE JobDone
    BY <1>19 DEF JobDone, JobEnds, ExclusiveInv
  <1>20. CASE JobFailed
    BY <1>20 DEF JobFailed, JobEnds, ExclusiveInv
  <1>21. ASSUME NEW s \in Signals, Signal(s)
        PROVE  ExclusiveInv'
    BY <1>21 DEF Signal, ExclusiveInv
  <1>22. ASSUME NEW s \in Signals, CloseServers(s)
        PROVE  ExclusiveInv'
    BY <1>22 DEF CloseServers, ExclusiveInv
  <1>23. CASE UNCHANGED vars
    BY <1>23 DEF vars, ExclusiveInv
  <1> QED
    BY NextCases, <1>1, <1>2, <1>3, <1>4, <1>5, <1>6, <1>7, <1>8, <1>9, <1>10, <1>11, <1>12, <1>13, <1>14, <1>15, <1>16, <1>17, <1>18, <1>19, <1>20, <1>21, <1>22, <1>23
      DEF StartStep, StopStep

\* Only a stopped node loses a store.
LEMMA StoresOutliveNodeNext == IInv /\ [Next]_vars => StoresOutliveNode'
  <1> SUFFICES ASSUME IInv, [Next]_vars PROVE StoresOutliveNode'
    OBVIOUS
  <1> USE ConstantsAssumption DEF IInv, Typed, TypeOK, Procs, Runtimes, Starters, Stoppers,
              requestVars, queueVars, serverVars, storeVars
  <1>1. CASE BootBegin
    BY <1>1 DEF BootBegin, StoresOutliveNode
  <1>2. ASSUME NEW p \in Starters, OpenDatastore(p)
        PROVE  StoresOutliveNode'
    BY <1>2 DEF OpenDatastore, Unlocked, StoresOutliveNode
  <1>3. ASSUME NEW p \in Starters, OpenBlockstore(p)
        PROVE  StoresOutliveNode'
    BY <1>3 DEF OpenBlockstore, Unlocked, StoresOutliveNode
  <1>4. ASSUME NEW p \in Starters, StartNode(p)
        PROVE  StoresOutliveNode'
    BY <1>4 DEF StartNode, StoresOutliveNode, StartInv, StepInv, StartSteps
  <1>5. ASSUME NEW p \in Starters, CreateHandlers(p)
        PROVE  StoresOutliveNode'
    BY <1>5 DEF CreateHandlers, StoresOutliveNode
  <1>6. CASE BootDone
    BY <1>6 DEF BootDone, StoresOutliveNode
  <1>7. CASE ProcessGone
    BY <1>7 DEF ProcessGone, Idle, StoresOutliveNode
  <1>8. ASSUME NEW r \in Requests, PostRun(r)
        PROVE  StoresOutliveNode'
    BY <1>8 DEF PostRun, Accept, Accepting, StoresOutliveNode
  <1>9. ASSUME NEW r \in Requests, PostTopic(r)
        PROVE  StoresOutliveNode'
    BY <1>9 DEF PostTopic, StoresOutliveNode
  <1>10. ASSUME NEW r \in Requests, TopicBody(r)
        PROVE  StoresOutliveNode'
    BY <1>10 DEF TopicBody, Accept, StoresOutliveNode
  <1>11. ASSUME NEW r \in Requests, Responds(r)
        PROVE  StoresOutliveNode'
    BY <1>11 DEF Responds, StoresOutliveNode
  <1>12. CASE RunImmediate
    BY <1>12 DEF RunImmediate, StoresOutliveNode
  <1>13. CASE JobBegin
    BY <1>13 DEF JobBegin, StoresOutliveNode
  <1>14. ASSUME NEW p \in Stoppers, StopNode(p)
        PROVE  StoresOutliveNode'
    BY <1>14 DEF StopNode, StoresOutliveNode
  <1>15. ASSUME NEW p \in Stoppers, NodeStopped(p)
        PROVE  StoresOutliveNode'
    BY <1>15 DEF NodeStopped, StoresOutliveNode
  <1>16. ASSUME NEW p \in Stoppers, CloseBlockstore(p)
        PROVE  StoresOutliveNode'
    BY <1>16 DEF CloseBlockstore, StoresOutliveNode, StopInv, StopSteps
  <1>17. ASSUME NEW p \in Stoppers, CloseDatastore(p)
        PROVE  StoresOutliveNode'
    BY <1>17 DEF CloseDatastore, StoresOutliveNode, StopInv, StopSteps
  <1>18. CASE JobSetOverrides
    BY <1>18 DEF JobSetOverrides, StoresOutliveNode
  <1>19. CASE JobDone
    BY <1>19 DEF JobDone, JobEnds, StoresOutliveNode
  <1>20. CASE JobFailed
    BY <1>20 DEF JobFailed, JobEnds, StoresOutliveNode
  <1>21. ASSUME NEW s \in Signals, Signal(s)
        PROVE  StoresOutliveNode'
    BY <1>21 DEF Signal, StoresOutliveNode
  <1>22. ASSUME NEW s \in Signals, CloseServers(s)
        PROVE  StoresOutliveNode'
    BY <1>22 DEF CloseServers, StoresOutliveNode
  <1>23. CASE UNCHANGED vars
    BY <1>23 DEF vars, StoresOutliveNode
  <1> QED
    BY NextCases, <1>1, <1>2, <1>3, <1>4, <1>5, <1>6, <1>7, <1>8, <1>9, <1>10, <1>11, <1>12, <1>13, <1>14, <1>15, <1>16, <1>17, <1>18, <1>19, <1>20, <1>21, <1>22, <1>23
      DEF StartStep, StopStep

LEMMA IInvInit == Init => IInv
  <1> SUFFICES ASSUME Init PROVE IInv
    OBVIOUS
  <1> USE ConstantsAssumption DEF Init, Idle, Procs, Starters, Stoppers, Runtimes
  <1>1. Typed
    BY InitTyped
  <1>2. StepInv
    BY DEF StepInv, Serving, StartSteps
  <1>3. StartInv /\ StopInv
    BY DEF StartInv, StopInv, OpenSteps, StopSteps
  <1>4. FreshInv /\ QueueInv
    BY DEF FreshInv, QueueInv, Queued, Distinct, StopSteps
  <1>5. ExclusiveInv /\ StoresOutliveNode
    BY DEF ExclusiveInv, StoresOutliveNode
  <1> QED
    BY <1>1, <1>2, <1>3, <1>4, <1>5 DEF IInv

LEMMA IInvNext == IInv /\ [Next]_vars => IInv'
  <1>1. IInv /\ [Next]_vars => Typed'
    BY NextTyped DEF IInv
  <1> QED
    BY <1>1, StepInvNext, StartInvNext, StopInvNext, FreshInvNext, QueueInvNext,
       ExclusiveInvNext, StoresOutliveNodeNext DEF IInv

LEMMA Inductive == Spec => []IInv
  BY IInvInit, IInvNext, PTL DEF Spec

\* A started node has both stores open, whatever restarts and shutdowns do.
THEOREM StoresSafe == Spec => []StoresOutliveNode
  <1>1. IInv => StoresOutliveNode
    BY DEF IInv
  <1> QED
    BY <1>1, Inductive, PTL

\* There is never more than one started node: each holds the LevelDB lock.
THEOREM OneNodeAtATime == Spec => []OneNode
  <1>1. IInv => OneNode
    BY DEF IInv, ExclusiveInv, StoresOutliveNode, OneNode
  <1> QED
    BY <1>1, Inductive, PTL
----------------------------------------------------------------------------
\* What the relay serves.  That the current runtime, the overrides and the
\* outcomes of the restarts agree whenever no job runs is the end of an
\* argument that follows each job through its steps.

\* While a job or main() starts a runtime it is nobody else's, and before
\* there is one the process has no current runtime.
CurrentInv ==
  /\ pc[Job] = "idle" => running = None
  /\ ~Serving => runtime = None
  /\ pc[Job] \in StopSteps => target[Job] = runtime
  /\ pc[Job] \in StartSteps => runtime # running /\ node[runtime] # "started"
  /\ \A s \in Signals :
       pc[Job] \in StartSteps /\ pc[s] \in StopSteps => target[s] # running
  /\ \A p \in Starters :
       pc[p] \in {"handlers", "publish"} => node[target[p]] = "started"

\* The overrides are those of the runtime that is started, or being started.
OverridesInv ==
  /\ ~Serving => activeOverrides = NoOverrides
  /\ pc[Main] = "publish" => listenOverrides[Boot] = NoOverrides
  /\ pc[Job] \in StartSteps => activeOverrides = next[running]
  /\ pc[Job] = "publish" => listenOverrides[running] = next[running]
  /\ Serving /\ node[runtime] = "started"
       => listenOverrides[runtime] = activeOverrides

\* The runtime that is down, or that holds a store, because of no fault: the
\* one being started, else the current one.
Closed(g) == node[g] # "started" /\ ~datastore[g] /\ ~blockstore[g]
Owner == IF pc[Main] # "serving" THEN Boot
         ELSE IF pc[Job] \in StartSteps THEN running ELSE runtime
TidyInv ==
  faults = 0 =>
    /\ \A g \in Runtimes : g # Owner => Closed(g)
    /\ \A p \in Starters :
         /\ pc[p] # "failed"
         /\ pc[p] = "openDatastore" => ~datastore[target[p]]
         /\ pc[p] \in {"openDatastore", "openBlockstore"} => ~blockstore[target[p]]
    /\ pc[Main] = "down" => Closed(Boot)
    /\ \A p \in Stoppers :
         /\ pc[p] \in {"closeDatastore", "stopped"} => ~blockstore[target[p]]
         /\ pc[p] = "stopped" => ~datastore[target[p]]

\* The accepted requests are the finished ones followed by the waiting ones.
Served == Len(accepted) - Len(Waiting)
ServedInv ==
  /\ Len(Waiting) <= Len(accepted)
  /\ \A i \in 1..Served : Finished(accepted[i])
  /\ \A i \in 1..Len(Waiting) : accepted[Served + i] = Waiting[i]

\* Only the restart that finished last can have left the relay down.
OutcomeInv ==
  Serving /\ ~ShuttingDown /\ pc[Job] = "idle" =>
    \/ node[runtime] = "started"
    \/ Served > 0 /\ req[accepted[Served]] = "failed"

SInv == IInv /\ CurrentInv /\ OverridesInv /\ TidyInv /\ ServedInv /\ OutcomeInv
----------------------------------------------------------------------------
\* The queue as a whole: what the steps of the handler, of setImmediate and of
\* the promise chain do to the requests that wait, in their order.

LEMMA WaitingType ==
  ASSUME Typed
  PROVE  Waiting \in Seq(Requests)
  <1>1. (IF running = None THEN <<>> ELSE <<running>>) \in Seq(Requests)
    BY DEF Typed, TypeOK
  <1> QED
    BY <1>1, ConcatProperties DEF Waiting, Typed, TypeOK

LEMMA WaitingAppend ==
  ASSUME Typed, NEW r \in Requests,
         immediates' = Append(immediates, r), UNCHANGED <<running, serialQueue>>
  PROVE  Waiting' = Append(Waiting, r)
  <1> DEFINE front == (IF running = None THEN <<>> ELSE <<running>>) \o serialQueue
  <1>1. front \in Seq(Requests)
    BY ConcatProperties DEF Typed, TypeOK
  <1>2. Waiting = front \o immediates /\ Waiting' = front \o Append(immediates, r)
    BY DEF Waiting
  <1>3. immediates \in Seq(Requests) /\ <<r>> \in Seq(Requests)
    BY DEF Typed, TypeOK
  <1> HIDE DEF front
  <1>4. Append(immediates, r) = immediates \o <<r>>
    BY <1>3, AppendIsConcat
  <1>5. Append(front \o immediates, r) = (front \o immediates) \o <<r>>
    BY <1>1, <1>3, AppendIsConcat, ConcatProperties
  <1> QED
    BY <1>1, <1>2, <1>3, <1>4, <1>5, ConcatAssociative

\* Moving the head of one queue to the end of the queue before it.
LEMMA HeadMoves ==
  ASSUME NEW s \in Seq(Requests), NEW t \in Seq(Requests), t # <<>>
  PROVE  Append(s, Head(t)) \o Tail(t) = s \o t
  <1>1. /\ Head(t) \in Requests /\ Tail(t) \in Seq(Requests)
        /\ Len(Tail(t)) = Len(t) - 1 /\ Len(t) \in Nat \ {0}
        /\ \A i \in 1..Len(Tail(t)) : Tail(t)[i] = t[i + 1]
        /\ Head(t) = t[1]
    BY HeadTailProperties, EmptySeq
  <1>2. /\ Append(s, Head(t)) \in Seq(Requests)
        /\ Len(Append(s, Head(t))) = Len(s) + 1
        /\ \A i \in 1..Len(s) : Append(s, Head(t))[i] = s[i]
        /\ Append(s, Head(t))[Len(s) + 1] = Head(t)
    BY <1>1, AppendProperties
  <1> DEFINE a == Append(s, Head(t))   b == Tail(t)
  <1> HIDE DEF a, b
  <1>3. /\ a \in Seq(Requests) /\ b \in Seq(Requests)
        /\ Len(a) = Len(s) + 1 /\ Len(b) = Len(t) - 1
        /\ \A i \in 1..Len(s) : a[i] = s[i]
        /\ a[Len(s) + 1] = t[1]
        /\ \A i \in 1..Len(b) : b[i] = t[i + 1]
        /\ Len(s) \in Nat /\ Len(t) \in Nat \ {0}
    BY <1>1, <1>2, LenProperties DEF a, b
  <1>4. /\ a \o b \in Seq(Requests) /\ Len(a \o b) = Len(a) + Len(b)
        /\ \A i \in 1..Len(a) + Len(b) :
             (a \o b)[i] = IF i <= Len(a) THEN a[i] ELSE b[i - Len(a)]
    BY <1>3, ConcatProperties
  <1>5. /\ s \o t \in Seq(Requests) /\ Len(s \o t) = Len(s) + Len(t)
        /\ \A i \in 1..Len(s) + Len(t) :
             (s \o t)[i] = IF i <= Len(s) THEN s[i] ELSE t[i - Len(s)]
    BY ConcatProperties
  <1>6. ASSUME NEW i \in 1..Len(a \o b) PROVE (a \o b)[i] = (s \o t)[i]
    <2>0. i \in Nat /\ i >= 1 /\ i <= Len(s) + Len(t)
      BY <1>3, <1>4
    <2>1. CASE i <= Len(s)
      BY <2>0, <2>1, <1>3, <1>4, <1>5
    <2>2. CASE i = Len(s) + 1
      BY <2>0, <2>2, <1>3, <1>4, <1>5
    <2>3. CASE i > Len(s) + 1
      <3>1. (a \o b)[i] = b[i - Len(a)] /\ i - Len(a) \in 1..Len(b)
        BY <2>0, <2>3, <1>3, <1>4
      <3>2. (s \o t)[i] = t[i - Len(s)] /\ i - Len(a) + 1 = i - Len(s)
        BY <2>0, <2>3, <1>3, <1>5
      <3> QED
        BY <3>1, <3>2, <1>3
    <2> QED
      BY <2>0, <2>1, <2>2, <2>3, <1>3
  <1>7. Len(a \o b) = Len(s \o t)
    BY <1>3, <1>4, <1>5
  <1>8. a \o b = s \o t
    BY <1>4, <1>5, <1>6, <1>7, SeqEqual
  <1> QED
    BY <1>8 DEF a, b

LEMMA WaitingImmediate ==
  ASSUME Typed, RunImmediate
  PROVE  Waiting' = Waiting
  <1> DEFINE front == (IF running = None THEN <<>> ELSE <<running>>)
  <1>1. front \in Seq(Requests)
    BY DEF Typed, TypeOK
  <1>2. /\ serialQueue \in Seq(Requests) /\ immediates \in Seq(Requests)
        /\ immediates # <<>> /\ UNCHANGED running
        /\ serialQueue' = Append(serialQueue, Head(immediates))
        /\ immediates' = Tail(immediates)
    BY DEF Typed, TypeOK, RunImmediate
  <1>3. serialQueue' \in Seq(Requests) /\ immediates' \in Seq(Requests)
    BY <1>2, HeadTailProperties, AppendProperties
  <1>4. Waiting' = (front \o serialQueue') \o immediates'
    BY <1>2 DEF Waiting
  <1>5. Waiting = (front \o serialQueue) \o immediates
    BY DEF Waiting
  <1> HIDE DEF front
  <1>6. serialQueue' \o immediates' = serialQueue \o immediates
    BY <1>2, HeadMoves
  <1>7. Waiting' = front \o (serialQueue' \o immediates')
    <2>1. (front \o serialQueue') \o immediates' = front \o (serialQueue' \o immediates')
      BY <1>1, <1>3, ConcatAssociative, SMTT(40)
    <2> QED
      BY <1>4, <2>1, Zenon
  <1>8. Waiting = front \o (serialQueue \o immediates)
    <2>1. (front \o serialQueue) \o immediates = front \o (serialQueue \o immediates)
      BY <1>1, <1>2, ConcatAssociative, SMTT(40)
    <2> QED
      BY <1>5, <2>1, Zenon
  <1> QED
    BY <1>6, <1>7, <1>8

LEMMA WaitingBegin ==
  ASSUME Typed, running = None, JobBegin
  PROVE  Waiting' = Waiting
  <1>1. /\ serialQueue \in Seq(Requests) /\ serialQueue # <<>>
        /\ running' = Head(serialQueue) /\ serialQueue' = Tail(serialQueue)
        /\ UNCHANGED immediates
    BY DEF Typed, TypeOK, JobBegin
  <1>2. Head(serialQueue) \in Requests /\ Head(serialQueue) # None
    BY <1>1, HeadTailProperties, ConstantsAssumption DEF Runtimes
  <1>3. Append(<<>>, Head(serialQueue)) \o Tail(serialQueue) = <<>> \o serialQueue
    BY <1>1, HeadMoves, EmptySeq
  <1>4. Append(<<>>, Head(serialQueue)) = <<Head(serialQueue)>>
    OBVIOUS
  <1> QED
    BY <1>1, <1>2, <1>3, <1>4 DEF Waiting

LEMMA WaitingHead ==
  ASSUME Typed, running \in Requests
  PROVE  /\ Waiting # <<>> /\ Head(Waiting) = running
         /\ Tail(Waiting) = serialQueue \o immediates
  <1> DEFINE rest == serialQueue \o immediates
  <1>1. /\ serialQueue \in Seq(Requests) /\ immediates \in Seq(Requests)
        /\ <<running>> \in Seq(Requests) /\ rest \in Seq(Requests)
    BY ConcatProperties DEF Typed, TypeOK
  <1>2. running # None
    BY ConstantsAssumption DEF Runtimes
  <1>3. Waiting = <<running>> \o rest
    BY <1>1, <1>2, ConcatAssociative DEF Waiting
  <1> HIDE DEF rest
  <1>4. Waiting \in Seq(Requests) /\ Len(Waiting) = 1 + Len(rest) /\ Len(rest) \in Nat
    BY <1>1, <1>3, ConcatProperties, LenProperties
  <1>5. Waiting # <<>>
    BY <1>4, EmptySeq
  <1>6. /\ Waiting[1] = running
        /\ \A i \in 1..Len(rest) : Waiting[i + 1] = rest[i]
    BY <1>1, <1>3, <1>4, ConcatProperties
  <1>7. Tail(Waiting) = rest
    <2>1. /\ Tail(Waiting) \in Seq(Requests) /\ Len(Tail(Waiting)) = Len(rest)
          /\ \A i \in 1..Len(Tail(Waiting)) : Tail(Waiting)[i] = Waiting[i + 1]
      BY <1>4, <1>5, HeadTailProperties
    <2> QED
      BY <2>1, <1>1, <1>6, SeqEqual
  <1>8. Head(Waiting) = Waiting[1]
    BY <1>4, <1>5
  <1> QED
    BY <1>5, <1>6, <1>7, <1>8 DEF rest

LEMMA WaitingEnds ==
  ASSUME Typed, running \in Requests, running' = None,
         UNCHANGED <<serialQueue, immediates>>
  PROVE  /\ Waiting # <<>> /\ Head(Waiting) = running
         /\ Waiting' = Tail(Waiting)
  <1>1. serialQueue \in Seq(Requests) /\ immediates \in Seq(Requests)
    BY DEF Typed, TypeOK
  <1>2. Waiting' = serialQueue \o immediates
    BY <1>1, ConcatEmptySeq DEF Waiting
  <1> QED
    BY <1>2, WaitingHead

\* A request waits until its job has ended.
LEMMA WaitingStates ==
  ASSUME SInv, NEW i \in 1..Len(Waiting)
  PROVE  req[Waiting[i]] \in {"accepted", "running"}
  <1> DEFINE unfinished == {q \in Requests : req[q] \in {"accepted", "running"}}
             first == IF running = None THEN <<>> ELSE <<running>>
  <1>1. ASSUME NEW q \in Seq(Requests), Queued(q) PROVE q \in Seq(unfinished)
    <2>1. Len(q) \in Nat /\ q \in [1..Len(q) -> unfinished]
      BY <1>1, LenProperties DEF Queued
    <2> QED
      BY <2>1, SeqDef
  <1>2. serialQueue \in Seq(unfinished) /\ immediates \in Seq(unfinished)
    BY <1>1 DEF SInv, IInv, Typed, TypeOK, QueueInv
  <1>3. running = None \/ running \in unfinished
    BY ConstantsAssumption DEF SInv, IInv, Typed, TypeOK, CurrentInv, QueueInv, Runtimes
  <1> HIDE DEF unfinished
  <1>4. first \in Seq(unfinished)
    BY <1>3
  <1>5. Waiting = (first \o serialQueue) \o immediates
    BY DEF Waiting
  <1> HIDE DEF first
  <1>6. Waiting \in Seq(unfinished)
    BY <1>2, <1>4, <1>5, ConcatProperties
  <1>7. Waiting[i] \in unfinished
    BY <1>6, ElementOfSeq
  <1> QED
    BY <1>7 DEF unfinished

----------------------------------------------------------------------------
\* The parts of SInv, step by step.

\* A runtime being started is not the current one, and nobody stops it.
LEMMA CurrentInvNext == SInv /\ [Next]_vars => CurrentInv'
  <1> SUFFICES ASSUME SInv, [Next]_vars PROVE CurrentInv'
    OBVIOUS
  <1> USE ConstantsAssumption DEF SInv, IInv, Typed, TypeOK, Procs, Runtimes, Starters, Stoppers,
              requestVars, queueVars, serverVars, storeVars
  <1>1. CASE BootBegin
    BY <1>1 DEF BootBegin, CurrentInv, StepInv, Serving, StartSteps, StopSteps
  <1>2. ASSUME NEW p \in Starters, OpenDatastore(p)
        PROVE  CurrentInv'
    BY <1>2 DEF OpenDatastore, Unlocked, CurrentInv, StepInv, Serving, StartSteps, StopSteps
  <1>3. ASSUME NEW p \in Starters, OpenBlockstore(p)
        PROVE  CurrentInv'
    BY <1>3 DEF OpenBlockstore, Unlocked, CurrentInv, StepInv, Serving, StartSteps, StopSteps
  <1>4. ASSUME NEW p \in Starters, StartNode(p)
        PROVE  CurrentInv'
    <2>1. pc[p] = "startNode" /\ node[target[p]] = "new" /\ target[p] \in Runtimes
      BY <1>4, StarterTarget DEF StartNode, StartInv, OpenSteps, StartSteps
    <2>2. /\ \E b \in {"started", "stopped"} : node' = [node EXCEPT ![target[p]] = b]
          /\ \/ pc' = [pc EXCEPT ![p] = "failed"]
             \/ /\ node' = [node EXCEPT ![target[p]] = "started"]
                /\ pc' = [pc EXCEPT ![p] = "handlers"]
          /\ UNCHANGED <<running, runtime, target>>
      BY <1>4 DEF StartNode
    <2>3. Serving => runtime \in Runtimes /\ runtime # target[p]
      BY <2>1 DEF StepInv
    <2>4. pc[Main] \in StartSteps => pc[Job] = "idle"
      BY DEF StepInv, Serving, StartSteps
    <2>5. ASSUME NEW q \in Starters, pc'[q] \in {"handlers", "publish"}
          PROVE  node'[target'[q]] = "started"
      <3>1. CASE q = p
        BY <2>1, <2>2, <2>5, <3>1
      <3>2. CASE q # p
        BY <2>1, <2>4, <2>5, <2>2, <3>2 DEF StartSteps
      <3> QED
        BY <3>1, <3>2
    <2>6. /\ pc'[Job] = "idle" => running' = None
          /\ ~Serving' => runtime' = None
          /\ pc'[Job] \in StopSteps => target'[Job] = runtime'
          /\ \A s \in Signals :
               pc'[Job] \in StartSteps /\ pc'[s] \in StopSteps => target'[s] # running'
      BY <2>1, <2>2 DEF CurrentInv, Serving, StartSteps, StopSteps
    <2>7. pc'[Job] \in StartSteps => runtime' # running' /\ node'[runtime'] # "started"
      <3>1. ASSUME pc'[Job] \in StartSteps PROVE pc[Job] \in StartSteps
        BY <3>1, <2>1, <2>2 DEF StartSteps
      <3>2. pc[Job] \in StartSteps => Serving
        BY DEF StepInv, StartSteps
      <3> QED
        BY <3>1, <3>2, <2>2, <2>3 DEF CurrentInv
    <2> QED
      BY <2>5, <2>6, <2>7 DEF CurrentInv
  <1>5. ASSUME NEW p \in Starters, CreateHandlers(p)
        PROVE  CurrentInv'
    BY <1>5 DEF CreateHandlers, CurrentInv, StepInv, Serving, StartSteps, StopSteps
  <1>6. CASE BootDone
    BY <1>6 DEF BootDone, CurrentInv, StepInv, Serving, StartSteps, StopSteps
  <1>7. CASE ProcessGone
    BY <1>7 DEF ProcessGone, Idle, CurrentInv, StepInv, Serving, StartSteps, StopSteps
  <1>8. ASSUME NEW r \in Requests, PostRun(r)
        PROVE  CurrentInv'
    BY <1>8 DEF PostRun, Accept, Accepting, CurrentInv, StepInv, Serving, StartSteps, StopSteps
  <1>9. ASSUME NEW r \in Requests, PostTopic(r)
        PROVE  CurrentInv'
    BY <1>9 DEF PostTopic, CurrentInv, StepInv, Serving, StartSteps, StopSteps
  <1>10. ASSUME NEW r \in Requests, TopicBody(r)
        PROVE  CurrentInv'
    BY <1>10 DEF TopicBody, Accept, CurrentInv, StepInv, Serving, StartSteps, StopSteps
  <1>11. ASSUME NEW r \in Requests, Responds(r)
        PROVE  CurrentInv'
    BY <1>11 DEF Responds, CurrentInv, StepInv, Serving, StartSteps, StopSteps
  <1>12. CASE RunImmediate
    BY <1>12 DEF RunImmediate, CurrentInv, StepInv, Serving, StartSteps, StopSteps
  <1>13. CASE JobBegin
    BY <1>13 DEF JobBegin, CurrentInv, StepInv, Serving, StartSteps, StopSteps
  <1>14. ASSUME NEW p \in Stoppers, StopNode(p)
        PROVE  CurrentInv'
    <2>1. Serving /\ target[p] \in Runtimes /\ pc[p] = "stopNode"
      BY <1>14 DEF StopNode, StepInv, StopInv, StopSteps
    <2>2. pc[Job] \in StartSteps => target[p] # running
      BY <2>1 DEF CurrentInv, StartSteps, StopSteps
    <2>3. /\ \E b \in {"stopping", "closeBlockstore"} : pc' = [pc EXCEPT ![p] = b]
          /\ node' = node \/ node' = [node EXCEPT ![target[p]] = "stopping"]
          /\ UNCHANGED <<running, runtime, target>>
      BY <1>14 DEF StopNode
    <2>4. ASSUME NEW q \in Starters, pc'[q] \in {"handlers", "publish"}
          PROVE  node'[target'[q]] = "started"
      <3>1. q # p /\ pc[q] \in {"handlers", "publish"}
        BY <2>3, <2>4
      <3>2. q = Job
        BY <3>1, <2>1 DEF Serving
      <3>3. node[target[q]] = "started" /\ target[q] = running
        BY <3>1, <3>2 DEF CurrentInv, StepInv, StartSteps
      <3> QED
        <4>1. target[q] # target[p]
          BY <3>1, <3>2, <3>3, <2>2 DEF StartSteps
        <4>2. target[q] \in Runtimes
          BY <3>1, StarterTarget DEF StartSteps
        <4> QED
          BY <4>1, <4>2, <3>3, <2>1, <2>3
    <2>5. /\ pc'[Job] = "idle" => running' = None
          /\ ~Serving' => runtime' = None
          /\ pc'[Job] \in StopSteps => target'[Job] = runtime'
          /\ \A s \in Signals :
               pc'[Job] \in StartSteps /\ pc'[s] \in StopSteps => target'[s] # running'
      BY <2>1, <2>3 DEF CurrentInv, Serving, StartSteps, StopSteps
    <2>6. pc'[Job] \in StartSteps => runtime' # running' /\ node'[runtime'] # "started"
      BY <2>1, <2>3 DEF CurrentInv, StepInv, StartSteps, StopSteps
    <2> QED
      BY <2>4, <2>5, <2>6 DEF CurrentInv
  <1>15. ASSUME NEW p \in Stoppers, NodeStopped(p)
        PROVE  CurrentInv'
    BY <1>15 DEF NodeStopped, CurrentInv, StepInv, Serving, StartSteps, StopSteps
  <1>16. ASSUME NEW p \in Stoppers, CloseBlockstore(p)
        PROVE  CurrentInv'
    BY <1>16 DEF CloseBlockstore, CurrentInv, StepInv, Serving, StartSteps, StopSteps
  <1>17. ASSUME NEW p \in Stoppers, CloseDatastore(p)
        PROVE  CurrentInv'
    BY <1>17 DEF CloseDatastore, CurrentInv, StepInv, Serving, StartSteps, StopSteps
  <1>18. CASE JobSetOverrides
    <2>1. /\ target[Job] = runtime /\ node[runtime] \notin {"new", "started"}
          /\ node[running] = "new"
      BY <1>18 DEF JobSetOverrides, CurrentInv, StopInv, FreshInv, StopSteps
    <2>2. \A s \in Signals : pc[s] \in StopSteps => target[s] # running
      BY <2>1 DEF StopInv
    <2>3. /\ pc' = [pc EXCEPT ![Job] = "openDatastore"]
          /\ target' = [target EXCEPT ![Job] = running]
          /\ UNCHANGED <<running, runtime, node>>
      BY <1>18 DEF JobSetOverrides
    <2>4. ASSUME NEW s \in Signals, pc'[s] \in StopSteps
          PROVE  target'[s] # running'
      BY <2>2, <2>3, <2>4
    <2> QED
      BY <2>1, <2>3, <2>4 DEF CurrentInv, Serving, StartSteps, StopSteps
  <1>19. CASE JobDone
    BY <1>19 DEF JobDone, JobEnds, CurrentInv, StepInv, Serving, StartSteps, StopSteps
  <1>20. CASE JobFailed
    BY <1>20 DEF JobFailed, JobEnds, CurrentInv, StepInv, Serving, StartSteps, StopSteps
  <1>21. ASSUME NEW s \in Signals, Signal(s)
        PROVE  CurrentInv'
    BY <1>21 DEF Signal, CurrentInv, StepInv, Serving, StartSteps, StopSteps
  <1>22. ASSUME NEW s \in Signals, CloseServers(s)
        PROVE  CurrentInv'
    BY <1>22 DEF CloseServers, CurrentInv, StepInv, Serving, StartSteps, StopSteps
  <1>23. CASE UNCHANGED vars
    BY <1>23 DEF vars, CurrentInv, StepInv, Serving, StartSteps, StopSteps
  <1> QED
    BY NextCases, <1>1, <1>2, <1>3, <1>4, <1>5, <1>6, <1>7, <1>8, <1>9, <1>10, <1>11, <1>12, <1>13, <1>14, <1>15, <1>16, <1>17, <1>18, <1>19, <1>20, <1>21, <1>22, <1>23
      DEF StartStep, StopStep

\* Only the step that publishes a runtime makes its overrides the current ones.
LEMMA OverridesInvNext == SInv /\ [Next]_vars => OverridesInv'
  <1> SUFFICES ASSUME SInv, [Next]_vars PROVE OverridesInv'
    OBVIOUS
  <1> USE ConstantsAssumption DEF SInv, IInv, Typed, TypeOK, Procs, Runtimes, Starters, Stoppers,
              requestVars, queueVars, serverVars, storeVars
  <1>1. CASE BootBegin
    BY <1>1 DEF BootBegin, OverridesInv, CurrentInv, StepInv, Serving, StartSteps
  <1>2. ASSUME NEW p \in Starters, OpenDatastore(p)
        PROVE  OverridesInv'
    BY <1>2 DEF OpenDatastore, Unlocked, OverridesInv, CurrentInv, StepInv, Serving, StartSteps
  <1>3. ASSUME NEW p \in Starters, OpenBlockstore(p)
        PROVE  OverridesInv'
    BY <1>3 DEF OpenBlockstore, Unlocked, OverridesInv, CurrentInv, StepInv, Serving, StartSteps
  <1>4. ASSUME NEW p \in Starters, StartNode(p)
        PROVE  OverridesInv'
    BY <1>4 DEF StartNode, OverridesInv, CurrentInv, StepInv, Serving, StartSteps
  <1>5. ASSUME NEW p \in Starters, CreateHandlers(p)
        PROVE  OverridesInv'
    <2>1. /\ UNCHANGED <<next, running, runtime, activeOverrides, node>>
          /\ \/ pc' = [pc EXCEPT ![p] = "failed"] /\ UNCHANGED listenOverrides
             \/ /\ pc' = [pc EXCEPT ![p] = "publish"]
                /\ listenOverrides' = [listenOverrides EXCEPT ![target[p]] =
                     IF p = Job THEN next[running] ELSE NoOverrides]
      BY <1>5 DEF CreateHandlers
    <2>2. pc[p] = "handlers" /\ target[p] \in Runtimes
      BY <1>5, StarterTarget DEF CreateHandlers, StartSteps
    <2>3. CASE p = Main
      <3>1. target[p] = Boot /\ ~Serving /\ pc[Job] = "idle"
        BY <2>2, <2>3 DEF StepInv, Serving, StartSteps
      <3>2. pc'[Main] \in {"failed", "publish"} /\ pc'[Job] = "idle"
        BY <2>1, <2>3, <3>1
      <3>3. pc'[Main] = "publish" => listenOverrides'[Boot] = NoOverrides
        BY <2>1, <2>2, <2>3, <3>1
      <3> QED
        BY <2>1, <3>1, <3>2, <3>3 DEF OverridesInv, Serving, StartSteps
    <2>4. CASE p = Job
      <3>1. /\ target[p] = running /\ Serving /\ runtime \in Runtimes
            /\ runtime # running /\ node[runtime] # "started"
        BY <2>2, <2>4 DEF StepInv, CurrentInv, StartSteps
      <3>2. pc'[Main] = "serving" /\ pc'[Job] \in {"failed", "publish"}
        BY <2>1, <2>4, <3>1 DEF Serving
      <3>3. pc'[Job] = "publish" => listenOverrides'[running] = next[running]
        BY <2>1, <2>2, <2>4, <3>1
      <3> QED
        BY <2>1, <2>2, <2>4, <3>1, <3>2, <3>3 DEF OverridesInv, Serving, StartSteps
    <2> QED
      BY <2>3, <2>4
  <1>6. CASE BootDone
    BY <1>6 DEF BootDone, OverridesInv, CurrentInv, StepInv, Serving, StartSteps
  <1>7. CASE ProcessGone
    BY <1>7 DEF ProcessGone, Idle, OverridesInv, CurrentInv, StepInv, Serving, StartSteps
  <1>8. ASSUME NEW r \in Requests, PostRun(r)
        PROVE  OverridesInv'
    <2>1. pc[Job] # "idle" => running \in Requests /\ running # r
      BY <1>8 DEF PostRun, QueueInv, JobHasRequest, Accepting
    <2>2. /\ \E o : next' = [next EXCEPT ![r] = o]
          /\ UNCHANGED <<running, pc, runtime, activeOverrides, listenOverrides, node>>
      BY <1>8 DEF PostRun, Accept
    <2>3. pc[Job] # "idle" => next'[running'] = next[running]
      BY <2>1, <2>2
    <2> QED
      BY <2>2, <2>3 DEF OverridesInv, Serving, StartSteps
  <1>9. ASSUME NEW r \in Requests, PostTopic(r)
        PROVE  OverridesInv'
    BY <1>9 DEF PostTopic, OverridesInv, CurrentInv, StepInv, Serving, StartSteps
  <1>10. ASSUME NEW r \in Requests, TopicBody(r)
        PROVE  OverridesInv'
    <2>1. pc[Job] # "idle" => running \in Requests /\ running # r
      BY <1>10 DEF TopicBody, QueueInv, JobHasRequest, Accepting
    <2>2. /\ \E o : next' = [next EXCEPT ![r] = o]
          /\ UNCHANGED <<running, pc, runtime, activeOverrides, listenOverrides, node>>
      BY <1>10 DEF TopicBody, Accept
    <2>3. pc[Job] # "idle" => next'[running'] = next[running]
      BY <2>1, <2>2
    <2> QED
      BY <2>2, <2>3 DEF OverridesInv, Serving, StartSteps
  <1>11. ASSUME NEW r \in Requests, Responds(r)
        PROVE  OverridesInv'
    BY <1>11 DEF Responds, OverridesInv, CurrentInv, StepInv, Serving, StartSteps
  <1>12. CASE RunImmediate
    BY <1>12 DEF RunImmediate, OverridesInv, CurrentInv, StepInv, Serving, StartSteps
  <1>13. CASE JobBegin
    BY <1>13 DEF JobBegin, OverridesInv, CurrentInv, StepInv, Serving, StartSteps
  <1>14. ASSUME NEW p \in Stoppers, StopNode(p)
        PROVE  OverridesInv'
    BY <1>14 DEF StopNode, OverridesInv, CurrentInv, StepInv, Serving, StartSteps
  <1>15. ASSUME NEW p \in Stoppers, NodeStopped(p)
        PROVE  OverridesInv'
    BY <1>15 DEF NodeStopped, OverridesInv, CurrentInv, StepInv, Serving, StartSteps
  <1>16. ASSUME NEW p \in Stoppers, CloseBlockstore(p)
        PROVE  OverridesInv'
    BY <1>16 DEF CloseBlockstore, OverridesInv, CurrentInv, StepInv, Serving, StartSteps
  <1>17. ASSUME NEW p \in Stoppers, CloseDatastore(p)
        PROVE  OverridesInv'
    BY <1>17 DEF CloseDatastore, OverridesInv, CurrentInv, StepInv, Serving, StartSteps
  <1>18. CASE JobSetOverrides
    <2>1. /\ Serving /\ target[Job] = runtime /\ node[runtime] # "started"
      BY <1>18 DEF JobSetOverrides, StepInv, CurrentInv, StopInv, StopSteps
    <2>2. /\ pc' = [pc EXCEPT ![Job] = "openDatastore"]
          /\ activeOverrides' = next[running]
          /\ UNCHANGED <<next, running, runtime, node, listenOverrides>>
      BY <1>18 DEF JobSetOverrides
    <2> QED
      BY <2>1, <2>2 DEF OverridesInv, Serving, StartSteps
  <1>19. CASE JobDone
    BY <1>19 DEF JobDone, JobEnds, OverridesInv, CurrentInv, StepInv, Serving, StartSteps
  <1>20. CASE JobFailed
    BY <1>20 DEF JobFailed, JobEnds, OverridesInv, CurrentInv, StepInv, Serving, StartSteps
  <1>21. ASSUME NEW s \in Signals, Signal(s)
        PROVE  OverridesInv'
    BY <1>21 DEF Signal, OverridesInv, CurrentInv, StepInv, Serving, StartSteps
  <1>22. ASSUME NEW s \in Signals, CloseServers(s)
        PROVE  OverridesInv'
    BY <1>22 DEF CloseServers, OverridesInv, CurrentInv, StepInv, Serving, StartSteps
  <1>23. CASE UNCHANGED vars
    BY <1>23 DEF vars, OverridesInv, CurrentInv, StepInv, Serving, StartSteps
  <1> QED
    BY NextCases, <1>1, <1>2, <1>3, <1>4, <1>5, <1>6, <1>7, <1>8, <1>9, <1>10, <1>11, <1>12, <1>13, <1>14, <1>15, <1>16, <1>17, <1>18, <1>19, <1>20, <1>21, <1>22, <1>23
      DEF StartStep, StopStep

\* The owner of the stores is the runtime that is being started, and nobody
\* stops it meanwhile.
LEMMA StarterOwns ==
  ASSUME SInv, NEW p \in Starters, pc[p] \in StartSteps
  PROVE  /\ target[p] \in Runtimes /\ target[p] = Owner
         /\ \A q \in Starters : q # p => pc[q] \notin StartSteps
         /\ \A s \in Stoppers : pc[s] \in StopSteps => target[s] # target[p]
  <1> USE ConstantsAssumption DEF Starters, Stoppers
  <1>1. target[p] \in Runtimes
    BY StarterTarget DEF SInv
  <1>2. CASE p = Main
    <2>1. \A s \in Stoppers : pc[s] = "idle"
      BY <1>2 DEF SInv, IInv, StepInv, Serving, StartSteps
    <2> QED
      BY <1>1, <1>2, <2>1 DEF SInv, IInv, StepInv, Owner, StartSteps, StopSteps
  <1>3. CASE p = Job
    <2>1. Serving /\ target[p] = running
      BY <1>3 DEF SInv, IInv, StepInv, StartSteps
    <2>2. pc[Job] \notin StopSteps
      BY <1>3 DEF StartSteps, StopSteps
    <2>3. pc[Main] \notin StartSteps
      BY <2>1 DEF Serving, StartSteps
    <2> QED
      BY <1>1, <1>3, <2>1, <2>2, <2>3 DEF SInv, CurrentInv, Owner, Serving
  <1> QED
    BY <1>2, <1>3 DEF Starters

LEMMA OwnerStays ==
  ASSUME SInv, NEW p \in Procs, NEW step \in Steps,
         pc[p] \in StartSteps <=> step \in StartSteps,
         p = Main => pc[Main] # "serving" /\ step # "serving",
         pc' = [pc EXCEPT ![p] = step], UNCHANGED <<running, runtime>>
  PROVE  Owner' = Owner
  BY ConstantsAssumption DEF SInv, IInv, Typed, TypeOK, Owner, Procs

\* Without an I/O error, only the owner of the stores has any of them open.
LEMMA TidyInvNext == SInv /\ [Next]_vars => TidyInv'
  <1> SUFFICES ASSUME SInv, [Next]_vars PROVE TidyInv'
    OBVIOUS
  <1> USE ConstantsAssumption DEF SInv, IInv, Typed, TypeOK, Procs, Runtimes, Starters, Stoppers,
              requestVars, queueVars, serverVars, storeVars
  <1>1. CASE BootBegin
    BY <1>1 DEF BootBegin, TidyInv, Closed, Owner, Serving, StartSteps
  <1>2. ASSUME NEW p \in Starters, OpenDatastore(p)
        PROVE  TidyInv'
    <2> SUFFICES ASSUME faults' = 0 PROVE TidyInv'
      BY DEF TidyInv
    <2>1. faults = 0 /\ pc[p] = "openDatastore" /\ p \in Procs
      BY <1>2 DEF OpenDatastore, Fault, NoFault
    <2>2. /\ target[p] \in Runtimes /\ target[p] = Owner
          /\ \A q \in Starters : q # p => pc[q] \notin StartSteps
          /\ \A s \in Stoppers : pc[s] \in StopSteps => target[s] # target[p]
      BY <2>1, StarterOwns DEF StartSteps
    <2>3. Unlocked(datastore)
      BY <2>1, <2>2 DEF TidyInv, Closed, Unlocked
    <2>4. /\ datastore' = [datastore EXCEPT ![target[p]] = TRUE]
          /\ pc' = [pc EXCEPT ![p] = "openBlockstore"]
          /\ UNCHANGED <<running, runtime, target, node, blockstore, faults>>
      BY <1>2, <2>1, <2>3 DEF OpenDatastore, Fault, NoFault
    <2>5. Owner' = Owner
      BY <2>1, <2>4, OwnerStays DEF StartSteps, Steps, Serving
    <2>6. \A g \in Runtimes : g # Owner' => Closed(g)'
      BY <2>1, <2>2, <2>4, <2>5 DEF TidyInv, Closed
    <2>7. ASSUME NEW q \in Starters
          PROVE  /\ pc'[q] # "failed"
                 /\ pc'[q] = "openDatastore" => ~datastore'[target'[q]]
                 /\ pc'[q] \in {"openDatastore", "openBlockstore"} => ~blockstore'[target'[q]]
      <3>1. CASE q = p
        BY <2>1, <2>2, <2>4, <3>1 DEF TidyInv
      <3>2. CASE q # p
        BY <2>2, <2>4, <3>2 DEF StartSteps
      <3> QED
        BY <3>1, <3>2
    <2>8. pc'[Main] # "down"
      BY <2>1, <2>2, <2>4 DEF TidyInv, StepInv, Serving, StartSteps
    <2>9. ASSUME NEW s \in Stoppers
          PROVE  /\ pc'[s] \in {"closeDatastore", "stopped"} => ~blockstore'[target'[s]]
                 /\ pc'[s] = "stopped" => ~datastore'[target'[s]]
      <3>1. s = p => pc'[s] \notin StopSteps
        BY <2>1, <2>4 DEF StopSteps
      <3>2. s # p => pc'[s] = pc[s] /\ target'[s] = target[s]
        BY <2>4
      <3>3. pc[s] \in StopSteps => target[s] \in Runtimes /\ target[s] # target[p]
        BY <2>2 DEF StopInv
      <3> QED
        BY <2>1, <2>2, <2>4, <3>1, <3>2, <3>3 DEF TidyInv, StopSteps
    <2> QED
      BY <2>6, <2>7, <2>8, <2>9 DEF TidyInv
  <1>3. ASSUME NEW p \in Starters, OpenBlockstore(p)
        PROVE  TidyInv'
    <2> SUFFICES ASSUME faults' = 0 PROVE TidyInv'
      BY DEF TidyInv
    <2>1. faults = 0 /\ pc[p] = "openBlockstore" /\ p \in Procs
      BY <1>3 DEF OpenBlockstore, Fault, NoFault
    <2>2. /\ target[p] \in Runtimes /\ target[p] = Owner
          /\ \A q \in Starters : q # p => pc[q] \notin StartSteps
          /\ \A s \in Stoppers : pc[s] \in StopSteps => target[s] # target[p]
      BY <2>1, StarterOwns DEF StartSteps
    <2>3. Unlocked(blockstore)
      BY <2>1, <2>2 DEF TidyInv, Closed, Unlocked
    <2>4. /\ blockstore' = [blockstore EXCEPT ![target[p]] = TRUE]
          /\ pc' = [pc EXCEPT ![p] = "startNode"]
          /\ UNCHANGED <<running, runtime, target, node, datastore, faults>>
      BY <1>3, <2>1, <2>3 DEF OpenBlockstore, Fault, NoFault
    <2>5. Owner' = Owner
      BY <2>1, <2>4, OwnerStays DEF StartSteps, Steps, Serving
    <2>6. \A g \in Runtimes : g # Owner' => Closed(g)'
      BY <2>1, <2>2, <2>4, <2>5 DEF TidyInv, Closed
    <2>7. ASSUME NEW q \in Starters
          PROVE  /\ pc'[q] # "failed"
                 /\ pc'[q] = "openDatastore" => ~datastore'[target'[q]]
                 /\ pc'[q] \in {"openDatastore", "openBlockstore"} => ~blockstore'[target'[q]]
      <3>1. CASE q = p
        BY <2>1, <2>2, <2>4, <3>1 DEF TidyInv
      <3>2. CASE q # p
        BY <2>2, <2>4, <3>2 DEF StartSteps
      <3> QED
        BY <3>1, <3>2
    <2>8. pc'[Main] # "down"
      BY <2>1, <2>2, <2>4 DEF TidyInv, StepInv, Serving, StartSteps
    <2>9. ASSUME NEW s \in Stoppers
          PROVE  /\ pc'[s] \in {"closeDatastore", "stopped"} => ~blockstore'[target'[s]]
                 /\ pc'[s] = "stopped" => ~datastore'[target'[s]]
      <3>1. s = p => pc'[s] \notin StopSteps
        BY <2>1, <2>4 DEF StopSteps
      <3>2. s # p => pc'[s] = pc[s] /\ target'[s] = target[s]
        BY <2>4
      <3>3. pc[s] \in StopSteps => target[s] \in Runtimes /\ target[s] # target[p]
        BY <2>2 DEF StopInv
      <3> QED
        BY <2>1, <2>2, <2>4, <3>1, <3>2, <3>3 DEF TidyInv, StopSteps
    <2> QED
      BY <2>6, <2>7, <2>8, <2>9 DEF TidyInv
  <1>4. ASSUME NEW p \in Starters, StartNode(p)
        PROVE  TidyInv'
    <2> SUFFICES ASSUME faults' = 0 PROVE TidyInv'
      BY DEF TidyInv
    <2>1. faults = 0 /\ pc[p] = "startNode" /\ p \in Procs
      BY <1>4 DEF StartNode, Fault, NoFault
    <2>2. /\ target[p] \in Runtimes /\ target[p] = Owner
          /\ \A q \in Starters : q # p => pc[q] \notin StartSteps
      BY <2>1, StarterOwns DEF StartSteps
    <2>3. /\ \E n \in NodeStates : node' = [node EXCEPT ![target[p]] = n]
          /\ pc' = [pc EXCEPT ![p] = "handlers"]
          /\ UNCHANGED <<running, runtime, target, datastore, blockstore, faults>>
      BY <1>4, <2>1, <2>2 DEF StartNode, Fault, NoFault, NodeStates
    <2>4. Owner' = Owner
      BY <2>1, <2>3, OwnerStays DEF StartSteps, Steps, Serving
    <2>5. \A g \in Runtimes : g # Owner' => Closed(g)'
      BY <2>1, <2>2, <2>3, <2>4 DEF TidyInv, Closed
    <2>6. pc'[Main] # "down"
      BY <2>1, <2>2, <2>3 DEF TidyInv, StepInv, Serving, StartSteps
    <2> QED
      BY <2>1, <2>3, <2>5, <2>6 DEF TidyInv
  <1>5. ASSUME NEW p \in Starters, CreateHandlers(p)
        PROVE  TidyInv'
    <2> SUFFICES ASSUME faults' = 0 PROVE TidyInv'
      BY DEF TidyInv
    <2>1. faults = 0 /\ pc[p] = "handlers" /\ p \in Procs
      BY <1>5 DEF CreateHandlers, Fault, NoFault
    <2>2. /\ target[p] \in Runtimes /\ target[p] = Owner
          /\ \A q \in Starters : q # p => pc[q] \notin StartSteps
      BY <2>1, StarterOwns DEF StartSteps
    <2>3. /\ \E n \in NodeStates : node' = [node EXCEPT ![target[p]] = n]
          /\ pc' = [pc EXCEPT ![p] = "publish"]
          /\ UNCHANGED <<running, runtime, target, datastore, blockstore, faults>>
      BY <1>5, <2>1, <2>2 DEF CreateHandlers, Fault, NoFault, NodeStates
    <2>4. Owner' = Owner
      BY <2>1, <2>3, OwnerStays DEF StartSteps, Steps, Serving
    <2>5. \A g \in Runtimes : g # Owner' => Closed(g)'
      BY <2>1, <2>2, <2>3, <2>4 DEF TidyInv, Closed
    <2>6. pc'[Main] # "down"
      BY <2>1, <2>2, <2>3 DEF TidyInv, StepInv, Serving, StartSteps
    <2> QED
      BY <2>1, <2>3, <2>5, <2>6 DEF TidyInv
  <1>6. CASE BootDone
    <2>1. /\ pc[Main] = "publish" /\ pc[Job] = "idle"
          /\ pc' = [pc EXCEPT ![Main] = "serving"]
          /\ \A s \in Stoppers : pc[s] = "idle"
          /\ runtime' = Boot
          /\ UNCHANGED <<node, datastore, blockstore, faults>>
      BY <1>6 DEF BootDone, StepInv, Serving
    <2>2. Owner = Boot /\ Owner' = Boot
      BY <2>1 DEF Owner, StartSteps
    <2>3. \A p \in Stoppers : pc'[p] = "idle"
      BY <2>1
    <2> QED
      BY <2>1, <2>2, <2>3 DEF TidyInv, Closed
  <1>7. CASE ProcessGone
    BY <1>7 DEF ProcessGone, Idle, TidyInv, Closed, Owner, Serving, StartSteps
  <1>8. ASSUME NEW r \in Requests, PostRun(r)
        PROVE  TidyInv'
    BY <1>8 DEF PostRun, Accept, Accepting, TidyInv, Closed, Owner, Serving, StartSteps
  <1>9. ASSUME NEW r \in Requests, PostTopic(r)
        PROVE  TidyInv'
    BY <1>9 DEF PostTopic, TidyInv, Closed, Owner, Serving, StartSteps
  <1>10. ASSUME NEW r \in Requests, TopicBody(r)
        PROVE  TidyInv'
    BY <1>10 DEF TopicBody, Accept, TidyInv, Closed, Owner, Serving, StartSteps
  <1>11. ASSUME NEW r \in Requests, Responds(r)
        PROVE  TidyInv'
    BY <1>11 DEF Responds, TidyInv, Closed, Owner, Serving, StartSteps
  <1>12. CASE RunImmediate
    BY <1>12 DEF RunImmediate, TidyInv, Closed, Owner, Serving, StartSteps
  <1>13. CASE JobBegin
    BY <1>13 DEF JobBegin, TidyInv, Closed, Owner, Serving, StartSteps
  <1>14. ASSUME NEW p \in Stoppers, StopNode(p)
        PROVE  TidyInv'
    BY <1>14 DEF StopNode, TidyInv, Closed, Owner, Serving, StartSteps
  <1>15. ASSUME NEW p \in Stoppers, NodeStopped(p)
        PROVE  TidyInv'
    BY <1>15 DEF NodeStopped, TidyInv, Closed, Owner, Serving, StartSteps
  <1>16. ASSUME NEW p \in Stoppers, CloseBlockstore(p)
        PROVE  TidyInv'
    <2> SUFFICES ASSUME faults' = 0 PROVE TidyInv'
      BY DEF TidyInv
    <2>1. /\ faults = 0 /\ p \in Procs /\ pc[p] = "closeBlockstore" /\ target[p] \in Runtimes
          /\ p # Main
      BY <1>16 DEF CloseBlockstore, Fault, NoFault, StopInv, StopSteps
    <2>2. /\ blockstore' = [blockstore EXCEPT ![target[p]] = FALSE]
          /\ pc' = [pc EXCEPT ![p] = "closeDatastore"]
          /\ UNCHANGED <<running, runtime, target, node, datastore, faults>>
      BY <1>16, <2>1 DEF CloseBlockstore, Fault, NoFault
    <2>3. Owner' = Owner
      BY <2>1, <2>2, OwnerStays DEF StartSteps, StopSteps, Steps, Serving
    <2>4. \A g \in Runtimes : Closed(g) => Closed(g)'
      BY <2>1, <2>2 DEF Closed
    <2>5. \A x : ~blockstore[x] /\ x \in Runtimes => ~blockstore'[x]
      BY <2>1, <2>2
    <2>6. \A s \in Stoppers : pc[s] \in StopSteps => target[s] \in Runtimes
      BY DEF StopInv
    <2>7. \A q \in Starters : pc[q] \in StartSteps => target[q] \in Runtimes
      BY StarterTarget
    <2>8. ASSUME NEW q \in Starters
          PROVE  /\ pc'[q] # "failed"
                 /\ pc'[q] = "openDatastore" => ~datastore'[target'[q]]
                 /\ pc'[q] \in {"openDatastore", "openBlockstore"} => ~blockstore'[target'[q]]
      <3>1. q = p => pc'[q] \notin StartSteps
        BY <2>1, <2>2 DEF StartSteps
      <3>2. q # p => pc'[q] = pc[q] /\ target'[q] = target[q]
        BY <2>2
      <3> QED
        BY <2>1, <2>2, <2>5, <2>7, <3>1, <3>2 DEF TidyInv, StartSteps
    <2>9. ASSUME NEW s \in Stoppers
          PROVE  /\ pc'[s] \in {"closeDatastore", "stopped"} => ~blockstore'[target'[s]]
                 /\ pc'[s] = "stopped" => ~datastore'[target'[s]]
      <3>1. CASE s = p
        BY <2>1, <2>2, <3>1 DEF TidyInv
      <3>2. CASE s # p
        BY <2>1, <2>2, <2>5, <2>6, <3>2 DEF TidyInv, StopSteps
      <3> QED
        BY <3>1, <3>2
    <2>10. pc'[Main] = "down" => Closed(Boot)'
      BY <2>1, <2>2, <2>4 DEF TidyInv
    <2> QED
      BY <2>1, <2>3, <2>4, <2>8, <2>9, <2>10 DEF TidyInv
  <1>17. ASSUME NEW p \in Stoppers, CloseDatastore(p)
        PROVE  TidyInv'
    <2> SUFFICES ASSUME faults' = 0 PROVE TidyInv'
      BY DEF TidyInv
    <2>1. /\ faults = 0 /\ p \in Procs /\ pc[p] = "closeDatastore" /\ target[p] \in Runtimes
          /\ p # Main
      BY <1>17 DEF CloseDatastore, Fault, NoFault, StopInv, StopSteps
    <2>2. /\ datastore' = [datastore EXCEPT ![target[p]] = FALSE]
          /\ pc' = [pc EXCEPT ![p] = "stopped"]
          /\ UNCHANGED <<running, runtime, target, node, blockstore, faults>>
      BY <1>17, <2>1 DEF CloseDatastore, Fault, NoFault
    <2>3. Owner' = Owner
      BY <2>1, <2>2, OwnerStays DEF StartSteps, StopSteps, Steps, Serving
    <2>4. \A g \in Runtimes : Closed(g) => Closed(g)'
      BY <2>1, <2>2 DEF Closed
    <2>5. \A x : ~datastore[x] /\ x \in Runtimes => ~datastore'[x]
      BY <2>1, <2>2
    <2>6. \A s \in Stoppers : pc[s] \in StopSteps => target[s] \in Runtimes
      BY DEF StopInv
    <2>7. \A q \in Starters : pc[q] \in StartSteps => target[q] \in Runtimes
      BY StarterTarget
    <2>8. ASSUME NEW q \in Starters
          PROVE  /\ pc'[q] # "failed"
                 /\ pc'[q] = "openDatastore" => ~datastore'[target'[q]]
                 /\ pc'[q] \in {"openDatastore", "openBlockstore"} => ~blockstore'[target'[q]]
      <3>1. q = p => pc'[q] \notin StartSteps
        BY <2>1, <2>2 DEF StartSteps
      <3>2. q # p => pc'[q] = pc[q] /\ target'[q] = target[q]
        BY <2>2
      <3> QED
        BY <2>1, <2>2, <2>5, <2>7, <3>1, <3>2 DEF TidyInv, StartSteps
    <2>9. ASSUME NEW s \in Stoppers
          PROVE  /\ pc'[s] \in {"closeDatastore", "stopped"} => ~blockstore'[target'[s]]
                 /\ pc'[s] = "stopped" => ~datastore'[target'[s]]
      <3>1. CASE s = p
        BY <2>1, <2>2, <3>1 DEF TidyInv
      <3>2. CASE s # p
        BY <2>1, <2>2, <2>5, <2>6, <3>2 DEF TidyInv, StopSteps
      <3> QED
        BY <3>1, <3>2
    <2>10. pc'[Main] = "down" => Closed(Boot)'
      BY <2>1, <2>2, <2>4 DEF TidyInv
    <2> QED
      BY <2>1, <2>3, <2>4, <2>8, <2>9, <2>10 DEF TidyInv
  <1>18. CASE JobSetOverrides
    <2>1. /\ pc[Job] = "stopped" /\ Serving /\ target[Job] = runtime
          /\ node[runtime] # "started" /\ node[runtime] # "new" /\ node[running] = "new"
          /\ running \in Runtimes
      BY <1>18 DEF JobSetOverrides, StepInv, CurrentInv, StopInv, FreshInv, JobHasRequest, StopSteps
    <2>2. /\ pc' = [pc EXCEPT ![Job] = "openDatastore"]
          /\ target' = [target EXCEPT ![Job] = running]
          /\ UNCHANGED <<running, runtime, node, datastore, blockstore, faults>>
      BY <1>18 DEF JobSetOverrides
    <2> SUFFICES ASSUME faults = 0 PROVE TidyInv'
      BY <2>2 DEF TidyInv
    <2>3. Owner = runtime /\ Owner' = running
      BY <2>1, <2>2 DEF Owner, Serving, StartSteps
    <2>4. \A g \in Runtimes : Closed(g)
      BY <2>1, <2>3 DEF TidyInv, Closed
    <2>5. pc'[Main] = "serving" /\ target'[Job] = running /\ pc'[Job] = "openDatastore"
      BY <2>1, <2>2 DEF Serving
    <2>6. \A s \in Stoppers :
            pc'[s] \in {"closeDatastore", "stopped"} => pc'[s] = pc[s] /\ target'[s] = target[s]
      BY <2>2
    <2> QED
      BY <2>1, <2>2, <2>3, <2>4, <2>5, <2>6 DEF TidyInv, Closed
  <1>19. CASE JobDone
    <2>1. pc[Job] = "publish" /\ Serving /\ target[Job] = running
      BY <1>19 DEF JobDone, StepInv, StartSteps
    <2>2. /\ pc' = [pc EXCEPT ![Job] = "idle"]
          /\ target' = [target EXCEPT ![Job] = None]
          /\ runtime' = running
          /\ UNCHANGED <<node, datastore, blockstore, faults>>
      BY <1>19, <2>1 DEF JobDone, JobEnds
    <2>3. Owner = running /\ Owner' = running
      BY <2>1, <2>2 DEF Owner, Serving, StartSteps
    <2>4. pc'[Main] = "serving" /\ pc'[Job] = "idle"
      BY <2>1, <2>2 DEF Serving
    <2>5. \A s \in Stoppers :
            pc'[s] \in {"closeDatastore", "stopped"} => pc'[s] = pc[s] /\ target'[s] = target[s]
      BY <2>2
    <2> QED
      BY <2>2, <2>3, <2>4, <2>5 DEF TidyInv, Closed
  <1>20. CASE JobFailed
    BY <1>20 DEF JobFailed, JobEnds, TidyInv, Closed, Owner, Serving, StartSteps
  <1>21. ASSUME NEW s \in Signals, Signal(s)
        PROVE  TidyInv'
    BY <1>21 DEF Signal, TidyInv, Closed, Owner, Serving, StartSteps
  <1>22. ASSUME NEW s \in Signals, CloseServers(s)
        PROVE  TidyInv'
    BY <1>22 DEF CloseServers, TidyInv, Closed, Owner, Serving, StartSteps
  <1>23. CASE UNCHANGED vars
    BY <1>23 DEF vars, TidyInv, Closed, Owner, Serving, StartSteps
  <1> QED
    BY NextCases, <1>1, <1>2, <1>3, <1>4, <1>5, <1>6, <1>7, <1>8, <1>9, <1>10, <1>11, <1>12, <1>13, <1>14, <1>15, <1>16, <1>17, <1>18, <1>19, <1>20, <1>21, <1>22, <1>23
      DEF StartStep, StopStep

\* What a step does to the waiting requests, each under the queue operation it
\* is: nothing, one more at the end, the first one done, or all of them lost.
LEMMA WaitingKept ==
  ASSUME UNCHANGED <<running, serialQueue, immediates>>
  PROVE  Waiting' = Waiting
  BY DEF Waiting

LEMMA ServedKept ==
  ASSUME SInv, UNCHANGED <<accepted, Waiting>>,
         \A r \in Requests : Finished(r) => req'[r] = req[r]
  PROVE  /\ ServedInv' /\ Served' = Served
         /\ Served > 0 => req'[accepted'[Served']] = req[accepted[Served]]
  <1>1. /\ Len(accepted) \in Nat /\ Len(Waiting) \in Nat
        /\ \A i \in 1..Len(accepted) : accepted[i] \in Requests
    BY WaitingType, LenProperties DEF SInv, IInv, Typed, TypeOK
  <1>2. Served' = Served /\ Served \in Nat /\ Served <= Len(accepted)
    BY <1>1 DEF SInv, ServedInv, Served
  <1>3. \A i \in 1..Served : Finished(accepted[i]) /\ Finished(accepted[i])'
    BY <1>1, <1>2 DEF SInv, ServedInv, Finished
  <1>4. Served > 0 => req'[accepted'[Served']] = req[accepted[Served]]
    BY <1>1, <1>2, <1>3
  <1>5. ServedInv'
    BY <1>2, <1>3 DEF SInv, ServedInv, Finished
  <1> QED
    BY <1>2, <1>4, <1>5

LEMMA ServedAccept ==
  ASSUME SInv, NEW r \in Requests, ~Finished(r),
         req' = [req EXCEPT ![r] = "accepted"],
         accepted' = Append(accepted, r),
         immediates' = Append(immediates, r), UNCHANGED <<running, serialQueue>>
  PROVE  /\ ServedInv' /\ Served' = Served
         /\ Served > 0 => req'[accepted'[Served']] = req[accepted[Served]]
  <1> DEFINE n == Len(accepted)   m == Len(Waiting)
  <1>1. /\ n \in Nat /\ m \in Nat /\ m <= n /\ Served = n - m
        /\ \A i \in 1..n : accepted[i] \in Requests
    BY WaitingType, LenProperties DEF SInv, IInv, Typed, TypeOK, ServedInv, Served
  <1>2. /\ Len(accepted') = n + 1 /\ accepted'[n + 1] = r
        /\ \A i \in 1..n : accepted'[i] = accepted[i]
    BY AppendProperties DEF SInv, IInv, Typed, TypeOK
  <1>3. Waiting' = Append(Waiting, r)
    BY WaitingAppend DEF SInv, IInv
  <1>4. /\ Len(Waiting') = m + 1 /\ Waiting'[m + 1] = r
        /\ \A i \in 1..m : Waiting'[i] = Waiting[i]
    BY <1>3, WaitingType, AppendProperties DEF SInv, IInv
  <1>5. Served' = Served
    BY <1>1, <1>2, <1>4 DEF Served
  <1> HIDE DEF n, m
  <1>6. ASSUME NEW i \in 1..Served
        PROVE  /\ Finished(accepted[i]) /\ i \in 1..n /\ accepted'[i] = accepted[i]
               /\ req'[accepted[i]] = req[accepted[i]]
    <2>1. i \in 1..n /\ Finished(accepted[i])
      BY <1>1 DEF SInv, ServedInv
    <2>2. accepted[i] \in Requests /\ accepted[i] # r
      BY <1>1, <2>1
    <2> QED
      BY <2>1, <2>2, <1>2 DEF SInv, IInv, Typed, TypeOK
  <1>7. \A i \in 1..Served' : Finished(accepted[i])'
    BY <1>5, <1>6 DEF Finished
  <1>8. ASSUME NEW i \in 1..(m + 1)
        PROVE  accepted'[Served + i] = Waiting'[i]
    <2>1. m \in Nat /\ n \in Nat /\ Served = n - m
      BY <1>1
    <2>2. ASSUME i = m + 1 PROVE accepted'[Served + i] = Waiting'[i]
      <3>1. Served + i = n + 1
        BY <2>1, <2>2
      <3> QED
        BY <3>1, <2>2, <1>2, <1>4
    <2>3. ASSUME i \in 1..m PROVE accepted'[Served + i] = Waiting'[i]
      <3>1. Served + i \in 1..n /\ accepted[Served + i] = Waiting[i]
        BY <2>1, <2>3, <1>1 DEF SInv, ServedInv, m
      <3> QED
        BY <2>3, <3>1, <1>2, <1>4
    <2>4. i = m + 1 \/ i \in 1..m
      BY <2>1
    <2> QED
      BY <2>2, <2>3, <2>4
  <1>9. ServedInv'
    <2>1. Len(Waiting') <= Len(accepted') /\ Len(Waiting') = m + 1
      BY <1>1, <1>2, <1>4
    <2> QED
      BY <2>1, <1>5, <1>7, <1>8 DEF ServedInv
  <1>10. Served > 0 => req'[accepted'[Served']] = req[accepted[Served]]
    BY <1>1, <1>5, <1>6
  <1> QED
    BY <1>5, <1>9, <1>10

LEMMA ServedEnds ==
  ASSUME SInv, NEW outcome \in {"done", "failed"}, running \in Requests,
         req[running] = "running", req' = [req EXCEPT ![running] = outcome],
         running' = None, UNCHANGED <<accepted, serialQueue, immediates>>
  PROVE  /\ ServedInv' /\ Served' > 0
         /\ req'[accepted'[Served']] = outcome
  <1> DEFINE n == Len(accepted)   m == Len(Waiting)
  <1>1. /\ n \in Nat /\ m \in Nat /\ m <= n /\ Served = n - m
        /\ \A i \in 1..n : accepted[i] \in Requests
    BY WaitingType, LenProperties DEF SInv, IInv, Typed, TypeOK, ServedInv, Served
  <1>2. Waiting # <<>> /\ Head(Waiting) = running /\ Waiting' = Tail(Waiting)
    BY WaitingEnds DEF SInv, IInv
  <1>3. /\ m >= 1 /\ Waiting[1] = running /\ Len(Waiting') = m - 1
        /\ \A i \in 1..m - 1 : Waiting'[i] = Waiting[i + 1]
    BY <1>1, <1>2, WaitingType, HeadTailProperties, EmptySeq DEF SInv, IInv
  <1>4. Served' = Served + 1
    BY <1>1, <1>3 DEF Served
  <1>5. accepted[Served + 1] = running
    BY <1>1, <1>3 DEF SInv, ServedInv
  <1>6. req'[running] = outcome
    BY DEF SInv, IInv, Typed, TypeOK
  <1> HIDE DEF n, m
  <1>7. ASSUME NEW i \in 1..Served' PROVE Finished(accepted[i])'
    <2>1. CASE i = Served + 1
      BY <2>1, <1>5, <1>6 DEF Finished
    <2>2. CASE i \in 1..Served
      <3>1. Finished(accepted[i]) /\ accepted[i] \in Requests
        BY <2>2, <1>1 DEF SInv, ServedInv
      <3>2. accepted[i] # running
        BY <3>1 DEF Finished
      <3> QED
        BY <3>1, <3>2 DEF Finished, SInv, IInv, Typed, TypeOK
    <2> QED
      BY <2>1, <2>2, <1>1, <1>4
  <1>8. ASSUME NEW i \in 1..m - 1 PROVE accepted'[Served' + i] = Waiting'[i]
    <2>1. i + 1 \in 1..m /\ Served' + i = Served + (i + 1)
      BY <1>1, <1>4
    <2>2. accepted[Served + (i + 1)] = Waiting[i + 1]
      BY <2>1 DEF SInv, ServedInv, m
    <2> QED
      BY <2>1, <2>2, <1>3
  <1>9. Len(Waiting') <= Len(accepted')
    BY <1>1, <1>3 DEF n, m
  <1>10. ServedInv'
    BY <1>3, <1>7, <1>8, <1>9 DEF ServedInv
  <1>11. Served' > 0
    BY <1>1, <1>4
  <1> QED
    BY <1>4, <1>5, <1>6, <1>10, <1>11

LEMMA ServedGone ==
  ASSUME ProcessGone
  PROVE  ServedInv'
  <1>1. accepted' = <<>> /\ Waiting' = <<>>
    BY DEF ProcessGone, Waiting
  <1> QED
    BY <1>1, EmptySeq DEF ServedInv, Served

\* A step that ends no restart leaves the outcome of the last one as it was.
LEMMA OutcomeKept ==
  ASSUME SInv, UNCHANGED <<pc, runtime, node>>,
         Served' = Served,
         Served > 0 => req'[accepted'[Served']] = req[accepted[Served]]
  PROVE  OutcomeInv'
  BY DEF SInv, OutcomeInv, Serving, ShuttingDown

\* The accepted requests stay the finished ones followed by the waiting ones, and
\* a relay that is down is so because of the restart that finished last.
LEMMA OutcomeNext == SInv /\ [Next]_vars => ServedInv' /\ OutcomeInv'
  <1> SUFFICES ASSUME SInv, [Next]_vars PROVE ServedInv' /\ OutcomeInv'
    OBVIOUS
  <1> USE ConstantsAssumption DEF SInv, IInv, Typed, TypeOK, Procs, Runtimes, Starters, Stoppers,
              requestVars, queueVars, serverVars, storeVars
  <1>1. CASE BootBegin
    <2>1. accepted' = accepted /\ req' = req /\ UNCHANGED <<running, serialQueue, immediates>>
      BY <1>1 DEF BootBegin
    <2>2. ServedInv'
      BY <2>1, WaitingKept, ServedKept
    <2>3. ~Serving'
      BY <1>1 DEF BootBegin, Serving
    <2> QED
      BY <2>2, <2>3 DEF OutcomeInv
  <1>2. ASSUME NEW p \in Starters, OpenDatastore(p)
        PROVE  ServedInv' /\ OutcomeInv'
    <2>1. accepted' = accepted /\ req' = req /\ UNCHANGED <<running, serialQueue, immediates>>
      BY <1>2 DEF OpenDatastore
    <2>2. ServedInv'
      BY <2>1, WaitingKept, ServedKept
    <2>3. ~Serving' \/ pc'[Job] # "idle"
      BY <1>2 DEF OpenDatastore, StepInv, Serving, StartSteps
    <2> QED
      BY <2>2, <2>3 DEF OutcomeInv
  <1>3. ASSUME NEW p \in Starters, OpenBlockstore(p)
        PROVE  ServedInv' /\ OutcomeInv'
    <2>1. accepted' = accepted /\ req' = req /\ UNCHANGED <<running, serialQueue, immediates>>
      BY <1>3 DEF OpenBlockstore
    <2>2. ServedInv'
      BY <2>1, WaitingKept, ServedKept
    <2>3. ~Serving' \/ pc'[Job] # "idle"
      BY <1>3 DEF OpenBlockstore, StepInv, Serving, StartSteps
    <2> QED
      BY <2>2, <2>3 DEF OutcomeInv
  <1>4. ASSUME NEW p \in Starters, StartNode(p)
        PROVE  ServedInv' /\ OutcomeInv'
    <2>1. accepted' = accepted /\ req' = req /\ UNCHANGED <<running, serialQueue, immediates>>
      BY <1>4 DEF StartNode
    <2>2. ServedInv'
      BY <2>1, WaitingKept, ServedKept
    <2>3. ~Serving' \/ pc'[Job] # "idle"
      BY <1>4 DEF StartNode, StepInv, Serving, StartSteps
    <2> QED
      BY <2>2, <2>3 DEF OutcomeInv
  <1>5. ASSUME NEW p \in Starters, CreateHandlers(p)
        PROVE  ServedInv' /\ OutcomeInv'
    <2>1. accepted' = accepted /\ req' = req /\ UNCHANGED <<running, serialQueue, immediates>>
      BY <1>5 DEF CreateHandlers
    <2>2. ServedInv'
      BY <2>1, WaitingKept, ServedKept
    <2>3. ~Serving' \/ pc'[Job] # "idle"
      BY <1>5 DEF CreateHandlers, StepInv, Serving, StartSteps
    <2> QED
      BY <2>2, <2>3 DEF OutcomeInv
  <1>6. CASE BootDone
    <2>1. accepted' = accepted /\ req' = req /\ UNCHANGED <<running, serialQueue, immediates>>
      BY <1>6 DEF BootDone
    <2>2. ServedInv'
      BY <2>1, WaitingKept, ServedKept
    <2>3. node'[runtime'] = "started"
      BY <1>6 DEF BootDone, CurrentInv, StepInv, StartSteps
    <2> QED
      BY <2>2, <2>3 DEF OutcomeInv
  <1>7. CASE ProcessGone
    <2>1. ~Serving'
      BY <1>7 DEF ProcessGone, Idle, Serving
    <2> QED
      BY <1>7, <2>1, ServedGone DEF OutcomeInv
  <1>8. ASSUME NEW r \in Requests, PostRun(r)
        PROVE  ServedInv' /\ OutcomeInv'
    <2>1. /\ ~Finished(r)
          /\ req' = [req EXCEPT ![r] = "accepted"] /\ accepted' = Append(accepted, r)
          /\ immediates' = Append(immediates, r)
          /\ UNCHANGED <<running, serialQueue, pc, runtime, node>>
      BY <1>8 DEF PostRun, Accept, Finished
    <2> QED
      BY <2>1, ServedAccept, OutcomeKept
  <1>9. ASSUME NEW r \in Requests, PostTopic(r)
        PROVE  ServedInv' /\ OutcomeInv'
    <2>1. /\ ~Finished(r) /\ \E o : req' = [req EXCEPT ![r] = o]
          /\ UNCHANGED <<accepted, running, serialQueue, immediates, pc, runtime, node>>
      BY <1>9 DEF PostTopic, Finished
    <2>2. \A q \in Requests : Finished(q) => req'[q] = req[q]
      BY <2>1
    <2> QED
      BY <2>1, <2>2, WaitingKept, ServedKept, OutcomeKept
  <1>10. ASSUME NEW r \in Requests, TopicBody(r)
        PROVE  ServedInv' /\ OutcomeInv'
    <2>1. /\ ~Finished(r)
          /\ req' = [req EXCEPT ![r] = "accepted"] /\ accepted' = Append(accepted, r)
          /\ immediates' = Append(immediates, r)
          /\ UNCHANGED <<running, serialQueue, pc, runtime, node>>
      BY <1>10 DEF TopicBody, Accept, Finished
    <2> QED
      BY <2>1, ServedAccept, OutcomeKept
  <1>11. ASSUME NEW r \in Requests, Responds(r)
        PROVE  ServedInv' /\ OutcomeInv'
    <2>1. /\ ~Finished(r) /\ \E o : req' = [req EXCEPT ![r] = o]
          /\ UNCHANGED <<accepted, running, serialQueue, immediates, pc, runtime, node>>
      BY <1>11 DEF Responds, Finished, Unanswered
    <2>2. \A q \in Requests : Finished(q) => req'[q] = req[q]
      BY <2>1
    <2> QED
      BY <2>1, <2>2, WaitingKept, ServedKept, OutcomeKept
  <1>12. CASE RunImmediate
    <2>1. UNCHANGED <<accepted, req, pc, runtime, node>>
      BY <1>12 DEF RunImmediate
    <2>2. Waiting' = Waiting
      BY <1>12, WaitingImmediate
    <2> QED
      BY <2>1, <2>2, ServedKept, OutcomeKept
  <1>13. CASE JobBegin
    <2>1. running = None /\ accepted' = accepted /\ pc'[Job] # "idle"
      BY <1>13 DEF JobBegin, CurrentInv
    <2>2. Waiting' = Waiting
      BY <1>13, <2>1, WaitingBegin
    <2>3. /\ serialQueue # <<>> /\ serialQueue \in Seq(Requests)
          /\ req' = [req EXCEPT ![Head(serialQueue)] = "running"]
      BY <1>13 DEF JobBegin
    <2>4. Head(serialQueue) = serialQueue[1] /\ 1 \in 1..Len(serialQueue)
      BY <2>3, EmptySeq
    <2>5. req[Head(serialQueue)] = "accepted"
      BY <2>4 DEF QueueInv, Queued
    <2>6. \A q \in Requests : Finished(q) => req'[q] = req[q]
      BY <2>3, <2>5 DEF Finished
    <2>7. ServedInv'
      BY <2>1, <2>2, <2>6, ServedKept
    <2> QED
      BY <2>1, <2>7 DEF OutcomeInv
  <1>14. ASSUME NEW p \in Stoppers, StopNode(p)
        PROVE  ServedInv' /\ OutcomeInv'
    <2>1. accepted' = accepted /\ req' = req /\ UNCHANGED <<running, serialQueue, immediates>>
      BY <1>14 DEF StopNode
    <2>2. ServedInv'
      BY <2>1, WaitingKept, ServedKept
    <2>3. ShuttingDown' \/ pc'[Job] # "idle"
      BY <1>14 DEF StopNode, ShuttingDown
    <2> QED
      BY <2>2, <2>3 DEF OutcomeInv
  <1>15. ASSUME NEW p \in Stoppers, NodeStopped(p)
        PROVE  ServedInv' /\ OutcomeInv'
    <2>1. accepted' = accepted /\ req' = req /\ UNCHANGED <<running, serialQueue, immediates>>
      BY <1>15 DEF NodeStopped
    <2>2. ServedInv'
      BY <2>1, WaitingKept, ServedKept
    <2>3. ShuttingDown' \/ pc'[Job] # "idle"
      BY <1>15 DEF NodeStopped, ShuttingDown
    <2> QED
      BY <2>2, <2>3 DEF OutcomeInv
  <1>16. ASSUME NEW p \in Stoppers, CloseBlockstore(p)
        PROVE  ServedInv' /\ OutcomeInv'
    <2>1. accepted' = accepted /\ req' = req /\ UNCHANGED <<running, serialQueue, immediates>>
      BY <1>16 DEF CloseBlockstore
    <2>2. ServedInv'
      BY <2>1, WaitingKept, ServedKept
    <2>3. ShuttingDown' \/ pc'[Job] # "idle"
      BY <1>16 DEF CloseBlockstore, ShuttingDown
    <2> QED
      BY <2>2, <2>3 DEF OutcomeInv
  <1>17. ASSUME NEW p \in Stoppers, CloseDatastore(p)
        PROVE  ServedInv' /\ OutcomeInv'
    <2>1. accepted' = accepted /\ req' = req /\ UNCHANGED <<running, serialQueue, immediates>>
      BY <1>17 DEF CloseDatastore
    <2>2. ServedInv'
      BY <2>1, WaitingKept, ServedKept
    <2>3. ShuttingDown' \/ pc'[Job] # "idle"
      BY <1>17 DEF CloseDatastore, ShuttingDown
    <2> QED
      BY <2>2, <2>3 DEF OutcomeInv
  <1>18. CASE JobSetOverrides
    <2>1. accepted' = accepted /\ req' = req /\ UNCHANGED <<running, serialQueue, immediates>>
      BY <1>18 DEF JobSetOverrides
    <2>2. ServedInv'
      BY <2>1, WaitingKept, ServedKept
    <2>3. pc'[Job] # "idle"
      BY <1>18 DEF JobSetOverrides
    <2> QED
      BY <2>2, <2>3 DEF OutcomeInv
  <1>19. CASE JobDone
    <2>1. /\ running \in Requests /\ req[running] = "running"
          /\ req' = [req EXCEPT ![running] = "done"] /\ running' = None
          /\ UNCHANGED <<accepted, serialQueue, immediates>>
      BY <1>19 DEF JobDone, JobEnds, QueueInv, JobHasRequest
    <2>2. ServedInv' /\ Served' > 0 /\ req'[accepted'[Served']] = "done"
      BY <2>1, ServedEnds
    <2>3. node'[runtime'] = "started"
      BY <1>19 DEF JobDone, CurrentInv
    <2> QED
      BY <2>2, <2>3 DEF OutcomeInv
  <1>20. CASE JobFailed
    <2>1. /\ running \in Requests /\ req[running] = "running"
          /\ req' = [req EXCEPT ![running] = "failed"] /\ running' = None
          /\ UNCHANGED <<accepted, serialQueue, immediates>>
      BY <1>20 DEF JobFailed, JobEnds, QueueInv, JobHasRequest
    <2>2. ServedInv' /\ Served' > 0 /\ req'[accepted'[Served']] = "failed"
      BY <2>1, ServedEnds
    <2> QED
      BY <2>2 DEF OutcomeInv
  <1>21. ASSUME NEW s \in Signals, Signal(s)
        PROVE  ServedInv' /\ OutcomeInv'
    <2>1. accepted' = accepted /\ req' = req /\ UNCHANGED <<running, serialQueue, immediates>>
      BY <1>21 DEF Signal
    <2>2. ServedInv'
      BY <2>1, WaitingKept, ServedKept
    <2>3. ShuttingDown'
      BY <1>21 DEF Signal, ShuttingDown
    <2> QED
      BY <2>2, <2>3 DEF OutcomeInv
  <1>22. ASSUME NEW s \in Signals, CloseServers(s)
        PROVE  ServedInv' /\ OutcomeInv'
    <2>1. accepted' = accepted /\ req' = req /\ UNCHANGED <<running, serialQueue, immediates>>
      BY <1>22 DEF CloseServers
    <2>2. ServedInv'
      BY <2>1, WaitingKept, ServedKept
    <2>3. ShuttingDown'
      BY <1>22 DEF CloseServers, ShuttingDown
    <2> QED
      BY <2>2, <2>3 DEF OutcomeInv
  <1>23. CASE UNCHANGED vars
    <2>1. UNCHANGED <<accepted, req, running, serialQueue, immediates, pc, runtime, node>>
      BY <1>23 DEF vars
    <2> QED
      BY <2>1, WaitingKept, ServedKept, OutcomeKept
  <1> QED
    BY NextCases, <1>1, <1>2, <1>3, <1>4, <1>5, <1>6, <1>7, <1>8, <1>9, <1>10, <1>11, <1>12, <1>13, <1>14, <1>15, <1>16, <1>17, <1>18, <1>19, <1>20, <1>21, <1>22, <1>23
      DEF StartStep, StopStep

LEMMA SInvInit == Init => SInv
  <1> SUFFICES ASSUME Init PROVE SInv
    OBVIOUS
  <1> USE ConstantsAssumption DEF Init, Idle, Procs, Starters, Stoppers, Runtimes
  <1>1. IInv
    BY IInvInit
  <1>2. CurrentInv /\ OverridesInv
    BY DEF CurrentInv, OverridesInv, Serving, StartSteps, StopSteps
  <1>3. TidyInv
    BY DEF TidyInv, Closed
  <1>4. Waiting = <<>> /\ accepted = <<>>
    BY DEF Waiting
  <1>5. ServedInv
    BY <1>4, EmptySeq DEF ServedInv, Served
  <1>6. OutcomeInv
    BY DEF OutcomeInv, Serving
  <1> QED
    BY <1>1, <1>2, <1>3, <1>5, <1>6 DEF SInv

LEMMA SInvNext == SInv /\ [Next]_vars => SInv'
  <1>1. SInv /\ [Next]_vars => IInv'
    BY IInvNext DEF SInv
  <1> QED
    BY <1>1, CurrentInvNext, OverridesInvNext, TidyInvNext, OutcomeNext DEF SInv

LEMMA ServingInductive == Spec => []SInv
  BY SInvInit, SInvNext, PTL DEF Spec

\* While no job runs, GET /status (control-http.ts) tells what the current
\* runtime listens on, after any succession of restarts, failures and signals.
THEOREM StatusIsTrue == Spec => []StatusMatchesRuntime
  <1>1. SInv => StatusMatchesRuntime
    BY DEF SInv, OverridesInv, StatusMatchesRuntime
  <1> QED
    BY <1>1, ServingInductive, PTL

\* A relay that is down with nothing in progress is down because the last
\* restart to finish failed: no earlier failure lingers, none is needed twice.
THEOREM DownIsExplained == Spec => []DownHasACause
  <1>1. SInv => DownHasACause
    <2> SUFFICES ASSUME SInv, Serving, ~ShuttingDown, pc[Job] = "idle",
                        node[runtime] # "started"
                 PROVE  \E i \in 1..Len(accepted) :
                          /\ req[accepted[i]] = "failed"
                          /\ \A j \in (i + 1)..Len(accepted) : ~Finished(accepted[j])
      BY DEF DownHasACause
    <2>1. Served > 0 /\ req[accepted[Served]] = "failed"
      BY DEF SInv, OutcomeInv
    <2>2. /\ Len(accepted) \in Nat /\ Len(Waiting) \in Nat
          /\ Served = Len(accepted) - Len(Waiting)
      BY WaitingType, LenProperties DEF SInv, IInv, Typed, TypeOK, Served
    <2>3. Served \in 1..Len(accepted)
      BY <2>1, <2>2
    <2>4. ASSUME NEW j \in (Served + 1)..Len(accepted)
          PROVE  ~Finished(accepted[j])
      <3>1. j - Served \in 1..Len(Waiting) /\ Served + (j - Served) = j
        BY <2>2
      <3>2. accepted[Served + (j - Served)] = Waiting[j - Served]
        BY <3>1 DEF SInv, ServedInv
      <3>3. accepted[j] = Waiting[j - Served]
        BY <3>1, <3>2
      <3> QED
        BY <3>1, <3>3, WaitingStates DEF Finished
    <2> QED
      BY <2>1, <2>3, <2>4
  <1> QED
    BY <1>1, ServingInductive, PTL

\* A shutdown that raced with no restart and met no I/O error leaves nothing
\* running and nothing open when it exits (shutdown() in server.ts).
THEOREM ExitIsClean == Spec => []CleanExit
  <1>1. SInv => CleanExit
    <2> SUFFICES ASSUME SInv, NEW s \in Signals, pc[s] = "stopped",
                        target[s] = runtime, pc[Job] = "idle", faults = 0,
                        NEW g \in Runtimes
                 PROVE  node[g] # "started" /\ ~datastore[g] /\ ~blockstore[g]
      BY DEF CleanExit
    <2>1. Serving /\ node[runtime] # "started"
      BY DEF SInv, IInv, StepInv, StopInv, StopSteps, Stoppers
    <2>2. Owner = runtime
      BY <2>1 DEF Owner, Serving, StartSteps
    <2>3. ~datastore[runtime] /\ ~blockstore[runtime]
      BY DEF SInv, TidyInv, Stoppers
    <2>4. g # runtime => Closed(g)
      BY <2>2 DEF SInv, TidyInv
    <2> QED
      BY <2>1, <2>3, <2>4 DEF Closed
  <1> QED
    BY <1>1, ServingInductive, PTL

\* An orphaned store keeps LevelDB's lock, so no step publishes a runtime while
\* there is one: whoever publishes holds both stores, and they exclude others.
LEMMA OrphanStep ==
  ASSUME SInv, [Next]_vars, NEW g \in Runtimes, Orphaned(g)
  PROVE  runtime' \in {runtime, None}
  <1>1. ASSUME NEW p \in Starters, pc[p] = "publish" PROVE FALSE
    <2>1. target[p] \in Runtimes /\ node[target[p]] = "started"
      BY <1>1, StarterTarget DEF SInv, CurrentInv, StartSteps
    <2>2. datastore[target[p]] /\ blockstore[target[p]]
      BY <2>1 DEF SInv, IInv, StoresOutliveNode
    <2>3. g = target[p]
      BY <2>1, <2>2 DEF SInv, IInv, ExclusiveInv, Orphaned
    <2> QED
      BY <2>3 DEF Orphaned, Starters, Procs
  <1>2. ~BootDone /\ ~JobDone
    BY <1>1 DEF BootDone, JobDone, Starters
  <1>3. runtime' = runtime \/ ProcessGone
    BY <1>2, NextCases
      DEF BootBegin, StartStep, OpenDatastore, OpenBlockstore, StartNode, CreateHandlers,
          PostRun, PostTopic, TopicBody, Responds, RunImmediate, JobBegin,
          JobSetOverrides, JobFailed, StopStep, StopNode, NodeStopped,
          CloseBlockstore, CloseDatastore, Signal, CloseServers, vars, serverVars
  <1> QED
    BY <1>3 DEF ProcessGone

\* A failed start that leaves a store open ends all restarts of the process
\* (relay-runtime.ts closes nothing when it throws).
THEOREM OrphansBlock == Spec => OrphanBlocksRestarts
  <1>1. SInv /\ [Next]_vars
          => [(\E g \in Runtimes : Orphaned(g)) => runtime' \in {runtime, None}]_vars
    BY OrphanStep
  <1> QED
    BY <1>1, ServingInductive, PTL DEF Spec, OrphanBlocksRestarts
----------------------------------------------------------------------------
\* RelayControl implements RestartQueue.  Most of the work is the queue: what
\* the abstract `pending` holds is spread over the request whose job runs, the
\* promise chain and the setImmediate callbacks.

LEMMA PendingType ==
  ASSUME Typed
  PROVE  /\ PendingOrders \in Seq(Queue!Orders)
         /\ Len(PendingOrders) = Len(Waiting)
         /\ \A i \in 1..Len(Waiting) :
              PendingOrders[i] = [id |-> Waiting[i], overrides |-> next[Waiting[i]]]
  <1>1. Waiting \in Seq(Requests) /\ Len(Waiting) \in Nat
    BY WaitingType, LenProperties
  <1>2. ASSUME NEW i \in 1..Len(Waiting)
        PROVE  [id |-> Waiting[i], overrides |-> next[Waiting[i]]] \in Queue!Orders
    BY <1>1, ElementOfSeq DEF Queue!Orders, Typed, TypeOK
  <1>3. PendingOrders \in [1..Len(Waiting) -> Queue!Orders]
    BY <1>2 DEF PendingOrders
  <1>4. PendingOrders \in Seq(Queue!Orders)
    BY <1>1, <1>3, SeqDef
  <1> QED
    BY <1>1, <1>3, <1>4, LenProperties DEF PendingOrders

LEMMA PendingKept ==
  ASSUME UNCHANGED <<Waiting, next>>
  PROVE  PendingOrders' = PendingOrders
  BY DEF PendingOrders

LEMMA PendingAppend ==
  ASSUME Typed, Typed', NEW r \in Requests, NEW o \in Overrides,
         \A i \in 1..Len(Waiting) : Waiting[i] # r,
         next' = [next EXCEPT ![r] = o], Waiting' = Append(Waiting, r)
  PROVE  PendingOrders' = Append(PendingOrders, [id |-> r, overrides |-> o])
  <1> DEFINE order == [id |-> r, overrides |-> o]
             longer == Append(PendingOrders, order)
  <1>1. Waiting \in Seq(Requests) /\ Len(Waiting) \in Nat
    BY WaitingType, LenProperties
  <1>2. /\ Len(Waiting') = Len(Waiting) + 1 /\ Waiting'[Len(Waiting) + 1] = r
        /\ \A i \in 1..Len(Waiting) : Waiting'[i] = Waiting[i]
    BY <1>1, AppendProperties
  <1>3. order \in Queue!Orders
    BY DEF Queue!Orders
  <1>4. /\ PendingOrders \in Seq(Queue!Orders) /\ Len(PendingOrders) = Len(Waiting)
        /\ \A i \in 1..Len(Waiting) :
              PendingOrders[i] = [id |-> Waiting[i], overrides |-> next[Waiting[i]]]
    BY PendingType
  <1>5. /\ PendingOrders' \in Seq(Queue!Orders) /\ Len(PendingOrders') = Len(Waiting')
        /\ \A i \in 1..Len(Waiting') :
              PendingOrders'[i] = [id |-> Waiting'[i], overrides |-> next'[Waiting'[i]]]
    <2>1. Waiting' \in Seq(Requests) /\ Len(Waiting') \in Nat
      BY <1>1, AppendProperties, LenProperties
    <2>2. next' \in [Requests -> Overrides]
      BY DEF Typed, TypeOK
    <2>3. PendingOrders' = [i \in 1..Len(Waiting') |->
             [id |-> Waiting'[i], overrides |-> next'[Waiting'[i]]]]
      BY DEF PendingOrders
    <2>4. ASSUME NEW i \in 1..Len(Waiting')
          PROVE  [id |-> Waiting'[i], overrides |-> next'[Waiting'[i]]] \in Queue!Orders
      BY <2>1, <2>2, ElementOfSeq DEF Queue!Orders
    <2>5. PendingOrders' \in [1..Len(Waiting') -> Queue!Orders]
      BY <2>3, <2>4
    <2>6. PendingOrders' \in Seq(Queue!Orders)
      BY <2>1, <2>5, SeqDef
    <2> QED
      BY <2>1, <2>3, <2>5, <2>6, LenProperties
  <1>6. /\ longer \in Seq(Queue!Orders) /\ Len(longer) = Len(Waiting) + 1
        /\ \A i \in 1..Len(Waiting) : longer[i] = PendingOrders[i]
        /\ longer[Len(Waiting) + 1] = order
    BY <1>3, <1>4, AppendProperties
  <1>7. next'[r] = o
    BY DEF Typed, TypeOK
  <1> HIDE DEF longer
  <1>8. ASSUME NEW i \in 1..Len(PendingOrders') PROVE PendingOrders'[i] = longer[i]
    <2>1. ASSUME i = Len(Waiting) + 1 PROVE PendingOrders'[i] = longer[i]
      BY <2>1, <1>2, <1>5, <1>6, <1>7
    <2>2. ASSUME i \in 1..Len(Waiting) PROVE PendingOrders'[i] = longer[i]
      <3>1. Waiting[i] \in Requests /\ Waiting[i] # r /\ Waiting'[i] = Waiting[i]
        BY <2>2, <1>1, <1>2, ElementOfSeq
      <3>2. next'[Waiting[i]] = next[Waiting[i]]
        BY <3>1 DEF Typed, TypeOK
      <3>3. i \in 1..Len(Waiting')
        BY <2>2, <1>1, <1>2
      <3>4. PendingOrders'[i] = [id |-> Waiting[i], overrides |-> next[Waiting[i]]]
        BY <3>1, <3>2, <3>3, <1>5
      <3> QED
        BY <2>2, <3>4, <1>4, <1>6
    <2>3. i = Len(Waiting) + 1 \/ i \in 1..Len(Waiting)
      BY <1>1, <1>2, <1>5
    <2> QED
      BY <2>1, <2>2, <2>3
  <1>9. PendingOrders' = longer
    BY <1>2, <1>5, <1>6, <1>8, SeqEqual
  <1> QED
    BY <1>9 DEF longer

LEMMA PendingHead ==
  ASSUME Typed, running \in Requests
  PROVE  /\ PendingOrders # <<>>
         /\ Head(PendingOrders) = [id |-> running, overrides |-> next[running]]
  <1>1. /\ Waiting \in Seq(Requests) /\ Waiting # <<>> /\ Head(Waiting) = running
        /\ Len(Waiting) \in Nat \ {0}
    BY WaitingType, WaitingHead, EmptySeq
  <1>2. /\ PendingOrders \in Seq(Queue!Orders) /\ Len(PendingOrders) = Len(Waiting)
        /\ \A i \in 1..Len(Waiting) :
              PendingOrders[i] = [id |-> Waiting[i], overrides |-> next[Waiting[i]]]
    BY PendingType
  <1>3. PendingOrders # <<>>
    <2>1. Len(PendingOrders) # 0
      BY <1>1, <1>2
    <2> QED
      BY <2>1
  <1>4. Waiting[1] = running /\ Head(PendingOrders) = PendingOrders[1]
    BY <1>1, <1>2, <1>3
  <1>5. PendingOrders[1] = [id |-> Waiting[1], overrides |-> next[Waiting[1]]]
    BY <1>1, <1>2
  <1> QED
    BY <1>3, <1>4, <1>5

LEMMA PendingEnds ==
  ASSUME Typed, Typed', running \in Requests, running' = None,
         UNCHANGED <<serialQueue, immediates, next>>
  PROVE  PendingOrders' = Tail(PendingOrders)
  <1>1. Waiting \in Seq(Requests) /\ Waiting # <<>> /\ Waiting' = Tail(Waiting)
    BY WaitingType, WaitingEnds
  <1>2. /\ PendingOrders \in Seq(Queue!Orders) /\ Len(PendingOrders) = Len(Waiting)
        /\ PendingOrders # <<>>
        /\ \A i \in 1..Len(Waiting) :
              PendingOrders[i] = [id |-> Waiting[i], overrides |-> next[Waiting[i]]]
    BY PendingType, PendingHead
  <1>3. /\ Len(Waiting) \in Nat \ {0} /\ Len(Waiting') = Len(Waiting) - 1
        /\ \A i \in 1..Len(Waiting') : Waiting'[i] = Waiting[i + 1]
        /\ Waiting' \in Seq(Requests)
    BY <1>1, HeadTailProperties, EmptySeq
  <1>4. /\ Tail(PendingOrders) \in Seq(Queue!Orders)
        /\ Len(Tail(PendingOrders)) = Len(Waiting')
        /\ \A i \in 1..Len(Waiting') : Tail(PendingOrders)[i] = PendingOrders[i + 1]
    BY <1>2, <1>3, HeadTailProperties
  <1>5. PendingOrders' = [i \in 1..Len(Waiting') |->
           [id |-> Waiting'[i], overrides |-> next[Waiting'[i]]]]
    BY DEF PendingOrders
  <1>6. ASSUME NEW i \in 1..Len(Waiting') PROVE PendingOrders'[i] = Tail(PendingOrders)[i]
    <2>1. i + 1 \in 1..Len(Waiting)
      BY <1>3
    <2> QED
      BY <2>1, <1>2, <1>3, <1>4, <1>5
  <1>7. ASSUME NEW i \in 1..Len(Waiting')
        PROVE  [id |-> Waiting'[i], overrides |-> next[Waiting'[i]]] \in Queue!Orders
    BY <1>3, ElementOfSeq DEF Queue!Orders, Typed, TypeOK
  <1>8. PendingOrders' \in Seq(Queue!Orders) /\ Len(PendingOrders') = Len(Waiting')
    <2>1. Len(Waiting') \in Nat /\ PendingOrders' \in [1..Len(Waiting') -> Queue!Orders]
      BY <1>3, <1>5, <1>7
    <2>2. PendingOrders' \in Seq(Queue!Orders)
      BY <2>1, SeqDef
    <2> QED
      BY <2>1, <2>2, LenProperties
  <1> QED
    BY <1>4, <1>6, <1>8, SeqEqual

LEMMA ListeningKept ==
  ASSUME UNCHANGED runtime,
         runtime # None =>
           /\ node'[runtime] = "started" <=> node[runtime] = "started"
           /\ listenOverrides'[runtime] = listenOverrides[runtime]
  PROVE  ListeningOn' = ListeningOn
  BY DEF ListeningOn

\* A step that touches neither the queue nor what the relay listens on is no
\* step of RestartQueue.
LEMMA QueueStutters ==
  ASSUME UNCHANGED <<Waiting, next, activeOverrides, ListeningOn>>
  PROVE  [Queue!Next]_(Queue!vars)
  BY PendingKept DEF Queue!vars

LEMMA QueueAccepts ==
  ASSUME SInv, SInv', NEW r \in Requests, NEW change \in Overrides, Accept(r, change),
         req[r] \in {"new", "reading"},
         UNCHANGED <<serialQueue, running, runtime, activeOverrides, node, listenOverrides>>
  PROVE  [Queue!Next]_(Queue!vars)
  <1> DEFINE o == Spread(activeOverrides, change)
             order == [id |-> r, overrides |-> o]
  <1>1. o \in Overrides /\ order \in Queue!Orders
    BY SpreadType DEF SInv, IInv, Typed, TypeOK, Queue!Orders
  <1>2. /\ next' = [next EXCEPT ![r] = o]
        /\ immediates' = Append(immediates, r)
    BY DEF Accept
  <1> HIDE DEF o
  <1>3. \A i \in 1..Len(Waiting) : Waiting[i] # r
    BY WaitingStates
  <1>4. Waiting' = Append(Waiting, r)
    BY <1>2, WaitingAppend DEF SInv, IInv
  <1>5. PendingOrders' = Append(PendingOrders, order)
    BY <1>1, <1>2, <1>3, <1>4, PendingAppend DEF SInv, IInv
  <1>6. \A i \in 1..Len(PendingOrders) : PendingOrders[i].id # order.id
    <2>1. /\ Len(PendingOrders) = Len(Waiting) /\ order.id = r
          /\ \A i \in 1..Len(Waiting) :
               PendingOrders[i] = [id |-> Waiting[i], overrides |-> next[Waiting[i]]]
      BY PendingType DEF SInv, IInv
    <2>2. ASSUME NEW i \in 1..Len(Waiting) PROVE PendingOrders[i].id = Waiting[i]
      <3>1. PendingOrders[i] = [id |-> Waiting[i], overrides |-> next[Waiting[i]]]
        BY <2>1
      <3> QED
        BY <3>1
    <2> QED
      BY <1>3, <2>1, <2>2
  <1>7. UNCHANGED <<activeOverrides, ListeningOn>>
    BY ListeningKept
  <1> HIDE DEF order
  <1>8. Queue!Accept(order)
    BY <1>5, <1>6, <1>7 DEF Queue!Accept
  <1> QED
    BY <1>1, <1>8 DEF Queue!Next

LEMMA QueueInit == Init => Queue!Init
  <1> SUFFICES ASSUME Init PROVE Queue!Init
    OBVIOUS
  <1>1. Waiting = <<>>
    BY DEF Init, Waiting
  <1>2. PendingOrders = <<>>
    BY <1>1 DEF PendingOrders
  <1>3. activeOverrides = NoOverrides /\ ListeningOn = None
    BY DEF Init, ListeningOn
  <1> QED
    BY <1>2, <1>3 DEF Queue!Init

\* Each step of RelayControl is a step of RestartQueue, or none.
LEMMA QueueNext == SInv /\ [Next]_vars => [Queue!Next]_(Queue!vars)
  <1> SUFFICES ASSUME SInv, [Next]_vars PROVE [Queue!Next]_(Queue!vars)
    OBVIOUS
  <1> USE ConstantsAssumption DEF SInv, IInv, Typed, TypeOK, Procs, Runtimes, Starters, Stoppers,
              requestVars, queueVars, serverVars, storeVars
  <1>1. CASE BootBegin
    <2>1. UNCHANGED <<running, serialQueue, immediates, next, activeOverrides, runtime>>
      BY <1>1 DEF BootBegin
    <2>2. ListeningOn' = ListeningOn
      BY <1>1, ListeningKept DEF BootBegin
    <2> QED
      BY <2>1, <2>2, WaitingKept, QueueStutters
  <1>2. ASSUME NEW p \in Starters, OpenDatastore(p)
        PROVE  [Queue!Next]_(Queue!vars)
    <2>1. UNCHANGED <<running, serialQueue, immediates, next, activeOverrides, runtime>>
      BY <1>2 DEF OpenDatastore
    <2>2. ListeningOn' = ListeningOn
      BY <1>2, ListeningKept DEF OpenDatastore
    <2> QED
      BY <2>1, <2>2, WaitingKept, QueueStutters
  <1>3. ASSUME NEW p \in Starters, OpenBlockstore(p)
        PROVE  [Queue!Next]_(Queue!vars)
    <2>1. UNCHANGED <<running, serialQueue, immediates, next, activeOverrides, runtime>>
      BY <1>3 DEF OpenBlockstore
    <2>2. ListeningOn' = ListeningOn
      BY <1>3, ListeningKept DEF OpenBlockstore
    <2> QED
      BY <2>1, <2>2, WaitingKept, QueueStutters
  <1>4. ASSUME NEW p \in Starters, StartNode(p)
        PROVE  [Queue!Next]_(Queue!vars)
    <2>1. UNCHANGED <<running, serialQueue, immediates, next, activeOverrides, runtime>>
      BY <1>4 DEF StartNode
    <2>2. ListeningOn' = ListeningOn
      <3>1. target[p] \in Runtimes /\ node[target[p]] = "new"
        BY <1>4, StarterTarget DEF StartNode, StartInv, OpenSteps, StartSteps
      <3>2. runtime # None => runtime # target[p] /\ runtime \in Runtimes
        BY <3>1 DEF CurrentInv, StepInv
      <3>3. \E b \in NodeStates : node' = [node EXCEPT ![target[p]] = b]
        BY <1>4 DEF StartNode, NodeStates
      <3>4. UNCHANGED <<runtime, listenOverrides>>
        BY <1>4 DEF StartNode
      <3> QED
        BY <3>1, <3>2, <3>3, <3>4, ListeningKept
    <2> QED
      BY <2>1, <2>2, WaitingKept, QueueStutters
  <1>5. ASSUME NEW p \in Starters, CreateHandlers(p)
        PROVE  [Queue!Next]_(Queue!vars)
    <2>1. UNCHANGED <<running, serialQueue, immediates, next, activeOverrides, runtime>>
      BY <1>5 DEF CreateHandlers
    <2>2. ListeningOn' = ListeningOn
      <3>1. target[p] \in Runtimes /\ pc[p] = "handlers"
        BY <1>5, StarterTarget DEF CreateHandlers, StartSteps
      <3>2. runtime # None => runtime # target[p] /\ runtime \in Runtimes
        <4>1. CASE p = Main
          BY <3>1, <4>1 DEF CurrentInv, Serving
        <4>2. CASE p = Job
          BY <3>1, <4>2 DEF CurrentInv, StepInv, StartSteps
        <4> QED
          BY <4>1, <4>2
      <3>3. \E o : listenOverrides' \in {listenOverrides, [listenOverrides EXCEPT ![target[p]] = o]}
        BY <1>5 DEF CreateHandlers
      <3>4. UNCHANGED <<runtime, node>>
        BY <1>5 DEF CreateHandlers
      <3> QED
        BY <3>1, <3>2, <3>3, <3>4, ListeningKept
    <2> QED
      BY <2>1, <2>2, WaitingKept, QueueStutters
  <1>6. CASE BootDone
    <2>1. /\ ~Serving /\ runtime = None /\ pc[Job] = "idle" /\ running = None
          /\ serialQueue = <<>> /\ immediates = <<>> /\ activeOverrides = NoOverrides
          /\ node[Boot] = "started" /\ listenOverrides[Boot] = NoOverrides
      BY <1>6 DEF BootDone, Serving, StepInv, CurrentInv, OverridesInv, StartSteps
    <2>2. /\ runtime' = Boot
          /\ UNCHANGED <<running, serialQueue, immediates, next, activeOverrides, node, listenOverrides>>
      BY <1>6 DEF BootDone
    <2>3. Waiting = <<>> /\ Waiting' = Waiting
      BY <2>1, <2>2, WaitingKept DEF Waiting
    <2>4. PendingOrders = <<>> /\ PendingOrders' = PendingOrders
      BY <2>2, <2>3, PendingKept DEF PendingOrders
    <2>5. ListeningOn = None /\ ListeningOn' = NoOverrides
      BY <2>1, <2>2 DEF ListeningOn
    <2>6. Queue!BeginListening
      BY <2>1, <2>2, <2>4, <2>5 DEF Queue!BeginListening
    <2> QED
      BY <2>6 DEF Queue!Next
  <1>7. CASE ProcessGone
    <2>1. Waiting' = <<>> /\ activeOverrides' = NoOverrides /\ ListeningOn' = None
      BY <1>7 DEF ProcessGone, Waiting, ListeningOn
    <2>2. PendingOrders' = <<>>
      BY <2>1 DEF PendingOrders
    <2>3. Queue!Gone
      BY <2>1, <2>2 DEF Queue!Gone
    <2> QED
      BY <2>3 DEF Queue!Next
  <1>8. ASSUME NEW r \in Requests, PostRun(r)
        PROVE  [Queue!Next]_(Queue!vars)
    <2>1. PICK change \in Overrides : Accept(r, change)
      BY <1>8, ChangesType DEF PostRun
    <2>2. /\ req[r] \in {"new", "reading"}
          /\ UNCHANGED <<serialQueue, running, runtime, activeOverrides, node, listenOverrides>>
      BY <1>8 DEF PostRun
    <2> QED
      BY <2>1, <2>2, SInvNext, QueueAccepts
  <1>9. ASSUME NEW r \in Requests, PostTopic(r)
        PROVE  [Queue!Next]_(Queue!vars)
    <2>1. UNCHANGED <<running, serialQueue, immediates, next, activeOverrides, runtime>>
      BY <1>9 DEF PostTopic
    <2>2. ListeningOn' = ListeningOn
      BY <1>9, ListeningKept DEF PostTopic
    <2> QED
      BY <2>1, <2>2, WaitingKept, QueueStutters
  <1>10. ASSUME NEW r \in Requests, TopicBody(r)
        PROVE  [Queue!Next]_(Queue!vars)
    <2>1. PICK change \in Overrides : Accept(r, change)
      BY <1>10, ChangesType DEF TopicBody
    <2>2. /\ req[r] \in {"new", "reading"}
          /\ UNCHANGED <<serialQueue, running, runtime, activeOverrides, node, listenOverrides>>
      BY <1>10 DEF TopicBody
    <2> QED
      BY <2>1, <2>2, SInvNext, QueueAccepts
  <1>11. ASSUME NEW r \in Requests, Responds(r)
        PROVE  [Queue!Next]_(Queue!vars)
    <2>1. UNCHANGED <<running, serialQueue, immediates, next, activeOverrides, runtime>>
      BY <1>11 DEF Responds
    <2>2. ListeningOn' = ListeningOn
      BY <1>11, ListeningKept DEF Responds
    <2> QED
      BY <2>1, <2>2, WaitingKept, QueueStutters
  <1>12. CASE RunImmediate
    <2>1. UNCHANGED <<next, activeOverrides, runtime, node, listenOverrides>>
      BY <1>12 DEF RunImmediate
    <2>2. Waiting' = Waiting
      BY <1>12, WaitingImmediate
    <2> QED
      BY <2>1, <2>2, ListeningKept, QueueStutters
  <1>13. CASE JobBegin
    <2>1. UNCHANGED <<next, activeOverrides, runtime, node, listenOverrides>> /\ running = None
      BY <1>13 DEF JobBegin, CurrentInv
    <2>2. Waiting' = Waiting
      BY <1>13, <2>1, WaitingBegin
    <2> QED
      BY <2>1, <2>2, ListeningKept, QueueStutters
  <1>14. ASSUME NEW p \in Stoppers, StopNode(p)
        PROVE  [Queue!Next]_(Queue!vars)
    <2>1. UNCHANGED <<running, serialQueue, immediates, next, activeOverrides, runtime, listenOverrides>>
      BY <1>14 DEF StopNode
    <2>2. Waiting' = Waiting /\ PendingOrders' = PendingOrders
      BY <2>1, WaitingKept, PendingKept
    <2>3. \/ node' = node
          \/ node' = [node EXCEPT ![target[p]] = "stopping"]
      BY <1>14 DEF StopNode
    <2>4. ListeningOn' = ListeningOn \/ ListeningOn' = None
      BY <2>1, <2>3 DEF ListeningOn
    <2>5. CASE ListeningOn' = ListeningOn
      BY <2>1, <2>2, <2>5, QueueStutters
    <2>6. CASE ListeningOn' = None /\ ListeningOn # None
      <3>1. Queue!TakeDown
        BY <2>1, <2>2, <2>6 DEF Queue!TakeDown
      <3> QED
        BY <3>1 DEF Queue!Next
    <2> QED
      BY <2>4, <2>5, <2>6
  <1>15. ASSUME NEW p \in Stoppers, NodeStopped(p)
        PROVE  [Queue!Next]_(Queue!vars)
    <2>1. UNCHANGED <<running, serialQueue, immediates, next, activeOverrides, runtime>>
      BY <1>15 DEF NodeStopped
    <2>2. ListeningOn' = ListeningOn
      <3>1. /\ node[target[p]] # "started" /\ target[p] \in Runtimes
            /\ node' = [node EXCEPT ![target[p]] = "stopped"]
            /\ UNCHANGED <<runtime, listenOverrides>>
        BY <1>15 DEF NodeStopped, StopInv, StopSteps
      <3> QED
        BY <3>1, ListeningKept
    <2> QED
      BY <2>1, <2>2, WaitingKept, QueueStutters
  <1>16. ASSUME NEW p \in Stoppers, CloseBlockstore(p)
        PROVE  [Queue!Next]_(Queue!vars)
    <2>1. UNCHANGED <<running, serialQueue, immediates, next, activeOverrides, runtime>>
      BY <1>16 DEF CloseBlockstore
    <2>2. ListeningOn' = ListeningOn
      BY <1>16, ListeningKept DEF CloseBlockstore
    <2> QED
      BY <2>1, <2>2, WaitingKept, QueueStutters
  <1>17. ASSUME NEW p \in Stoppers, CloseDatastore(p)
        PROVE  [Queue!Next]_(Queue!vars)
    <2>1. UNCHANGED <<running, serialQueue, immediates, next, activeOverrides, runtime>>
      BY <1>17 DEF CloseDatastore
    <2>2. ListeningOn' = ListeningOn
      BY <1>17, ListeningKept DEF CloseDatastore
    <2> QED
      BY <2>1, <2>2, WaitingKept, QueueStutters
  <1>18. CASE JobSetOverrides
    <2>1. /\ running \in Requests /\ target[Job] = runtime /\ node[runtime] # "started"
      BY <1>18 DEF JobSetOverrides, JobHasRequest, CurrentInv, StopInv, StopSteps
    <2>2. /\ activeOverrides' = next[running]
          /\ UNCHANGED <<running, serialQueue, immediates, next, runtime, node, listenOverrides>>
      BY <1>18 DEF JobSetOverrides
    <2>3. /\ PendingOrders # <<>>
          /\ Head(PendingOrders) = [id |-> running, overrides |-> next[running]]
      BY <2>1, PendingHead
    <2>4. PendingOrders' = PendingOrders /\ ListeningOn' = ListeningOn
      BY <2>2, WaitingKept, PendingKept, ListeningKept
    <2>5. ListeningOn = None
      BY <2>1 DEF ListeningOn
    <2>6. Head(PendingOrders).overrides = next[running]
      BY <2>3
    <2>7. Queue!Apply
      BY <2>2, <2>3, <2>4, <2>5, <2>6 DEF Queue!Apply
    <2> QED
      BY <2>7 DEF Queue!Next
  <1>19. CASE JobDone
    <2>1. /\ running \in Requests /\ activeOverrides = next[running]
          /\ node[runtime] # "started" /\ node[running] = "started"
          /\ listenOverrides[running] = next[running] /\ target[Job] = running
      BY <1>19 DEF JobDone, JobHasRequest, CurrentInv, OverridesInv, StepInv, StartSteps
    <2>2. /\ running' = None
          /\ UNCHANGED <<serialQueue, immediates, next, activeOverrides, node, listenOverrides>>
      BY <1>19 DEF JobDone, JobEnds
    <2>3. /\ PendingOrders # <<>>
          /\ Head(PendingOrders) = [id |-> running, overrides |-> next[running]]
          /\ PendingOrders' = Tail(PendingOrders)
      BY <2>1, <2>2, SInvNext, PendingHead, PendingEnds
    <2>4. activeOverrides = Head(PendingOrders).overrides
      BY <2>1, <2>3
    <2>5. ListeningOn = None /\ ListeningOn' = activeOverrides
      <3>1. runtime' = running /\ running # None
        BY <1>19, <2>1 DEF JobDone
      <3> QED
        BY <2>1, <2>2, <3>1 DEF ListeningOn
    <2>6. Queue!Succeed
      BY <2>2, <2>3, <2>4, <2>5 DEF Queue!Succeed
    <2> QED
      BY <2>6 DEF Queue!Next
  <1>20. CASE JobFailed
    <2>1. /\ running \in Requests /\ activeOverrides = next[running]
          /\ node[runtime] # "started" 
      BY <1>20 DEF JobFailed, JobHasRequest, CurrentInv, OverridesInv, StepInv, StartSteps
    <2>2. /\ running' = None
          /\ UNCHANGED <<serialQueue, immediates, next, activeOverrides, node, listenOverrides>>
      BY <1>20 DEF JobFailed, JobEnds
    <2>3. /\ PendingOrders # <<>>
          /\ Head(PendingOrders) = [id |-> running, overrides |-> next[running]]
          /\ PendingOrders' = Tail(PendingOrders)
      BY <2>1, <2>2, SInvNext, PendingHead, PendingEnds
    <2>4. activeOverrides = Head(PendingOrders).overrides
      BY <2>1, <2>3
    <2>5. ListeningOn = None /\ ListeningOn' = ListeningOn
      <3>1. runtime' = runtime
        BY <1>20 DEF JobFailed
      <3> QED
        BY <2>1, <2>2, <3>1 DEF ListeningOn
    <2>6. Queue!Fail
      BY <2>2, <2>3, <2>4, <2>5 DEF Queue!Fail
    <2> QED
      BY <2>6 DEF Queue!Next
  <1>21. ASSUME NEW s \in Signals, Signal(s)
        PROVE  [Queue!Next]_(Queue!vars)
    <2>1. UNCHANGED <<running, serialQueue, immediates, next, activeOverrides, runtime>>
      BY <1>21 DEF Signal
    <2>2. ListeningOn' = ListeningOn
      BY <1>21, ListeningKept DEF Signal
    <2> QED
      BY <2>1, <2>2, WaitingKept, QueueStutters
  <1>22. ASSUME NEW s \in Signals, CloseServers(s)
        PROVE  [Queue!Next]_(Queue!vars)
    <2>1. UNCHANGED <<running, serialQueue, immediates, next, activeOverrides, runtime>>
      BY <1>22 DEF CloseServers
    <2>2. ListeningOn' = ListeningOn
      BY <1>22, ListeningKept DEF CloseServers
    <2> QED
      BY <2>1, <2>2, WaitingKept, QueueStutters
  <1>23. CASE UNCHANGED vars
    <2>1. UNCHANGED <<running, serialQueue, immediates, next, activeOverrides, runtime, node, listenOverrides>>
      BY <1>23 DEF vars
    <2> QED
      BY <2>1, WaitingKept, ListeningKept, QueueStutters
  <1> QED
    BY NextCases, <1>1, <1>2, <1>3, <1>4, <1>5, <1>6, <1>7, <1>8, <1>9, <1>10, <1>11, <1>12, <1>13, <1>14, <1>15, <1>16, <1>17, <1>18, <1>19, <1>20, <1>21, <1>22, <1>23
      DEF StartStep, StopStep

\* The control plane implements the restart queue: restarts apply what was
\* accepted, one at a time and in order, and the relay only ever listens on
\* what was applied last (control-http.ts and server.ts as a whole).
THEOREM RestartQueueImplemented == Spec => ImplementsRestartQueue
  BY QueueInit, QueueNext, ServingInductive, PTL
    DEF Spec, ImplementsRestartQueue, Queue!Spec
=============================================================================
