---------------------------- MODULE RelayControl ----------------------------
(***************************************************************************)
(* The relay process: src/server.ts boots one libp2p runtime over two      *)
(* LevelDB stores, src/control-http.ts accepts restart requests and runs   *)
(* them one after another, src/relay-runtime.ts starts and stops a         *)
(* runtime, and a SIGINT/SIGTERM handler shuts the process down.  Of the   *)
(* /ipfs and /pinning routes mounted on the control server only that their *)
(* responses stay open for a while is modelled here.                       *)
(*                                                                         *)
(* Every `await` of those functions is a step boundary: between two steps  *)
(* of one asynchronous function any other one may run.  A runtime is named *)
(* by what created it: Boot, or the request whose restart job built it.    *)
(***************************************************************************)
EXTENDS Naturals, Sequences

CONSTANTS
  Requests,     \* control requests that may arrive, each at most once
  Signals,      \* deliveries of SIGINT or SIGTERM
  Fields,       \* overridable settings (tcpPort, wsPort, ..., pubsubDiscoveryTopic)
  Topic,        \* the one of them set by POST /run/pubsub-discovery
  Values,       \* values a setting may be given
  Main, Job,    \* main() up to the end of boot, and the serial restart job
  Boot,         \* the runtime main() starts
  None,         \* no runtime, no request
  MaxFaults     \* bound on I/O errors of the stores and of the libp2p node

Procs     == {Main, Job} \cup Signals
Starters  == {Main, Job}
Stoppers  == {Job} \cup Signals
Runtimes  == Requests \cup {Boot}

\* Partial<RelayListenEnv> & { pubsubDiscoveryTopic? }: a partial assignment.
Overrides == UNION {[S -> Values] : S \in SUBSET Fields}
NoOverrides == [f \in {} |-> f]

\* { ...prev, ...change }
Spread(prev, change) ==
  [f \in DOMAIN prev \cup DOMAIN change |->
     IF f \in DOMAIN change THEN change[f] ELSE prev[f]]

\* What one accepted request changes: nothing (/run/restart) or one setting.
Only(f, v) == [x \in {f} |-> v]
PortChanges  == {Only(f, v) : f \in Fields \ {Topic}, v \in Values}
TopicChanges == {Only(Topic, v) : v \in Values}

ASSUME ConstantsAssumption ==
  /\ Topic \in Fields
  /\ MaxFaults \in Nat
  /\ Main # Job
  /\ Main \notin Signals /\ Job \notin Signals
  /\ Boot \notin Requests
  /\ None \notin Runtimes

VARIABLES
  req,             \* what became of each control request
  asked,           \* history: the change an accepted request asked for
  accepted,        \* history: requests in the order their 202 was sent
  next,            \* nextOverrides captured by an accepted request
  immediates,      \* setImmediate callbacks not yet run
  serialQueue,     \* jobs chained on the serialQueue promise
  running,         \* the request whose job is being run
  pc,              \* where each asynchronous function is suspended
  target,          \* the runtime that function is starting or stopping
  runtime,         \* server.ts: `runtime`
  activeOverrides, \* server.ts: `activeOverrides`
  pinning,         \* the runtime whose handlers sharedPinningHandler holds
  listenOverrides, \* RelayRuntime.listenOverrides
  node,            \* state of each runtime's libp2p node
  datastore,       \* whether a runtime's LevelDatastore is open
  blockstore,      \* whether a runtime's LevelBlockstore is open
  faults           \* I/O errors so far

requestVars == <<req, asked, accepted, next>>
queueVars   == <<immediates, serialQueue, running>>
serverVars  == <<runtime, activeOverrides, pinning>>
storeVars   == <<datastore, blockstore>>
vars == <<requestVars, queueVars, pc, target, serverVars,
          listenOverrides, node, storeVars, faults>>

RequestStates == {"new", "reading", "open", "held", "answered", "accepted",
                  "running", "done", "failed", "lost"}
Unanswered    == {"reading", "open", "held"}
NodeStates    == {"new", "started", "stopping", "stopped"}
StartSteps    == {"openDatastore", "openBlockstore", "startNode", "handlers",
                  "publish", "failed"}
StopSteps     == {"stopNode", "stopping", "closeBlockstore",
                  "closeDatastore", "stopped"}
Steps == StartSteps \cup StopSteps \cup {"down", "serving", "idle", "closeServers"}

Serving      == pc[Main] = "serving"
ShuttingDown == \E s \in Signals : pc[s] # "idle"
Finished(r)  == req[r] \in {"done", "failed"}

----------------------------------------------------------------------------
\* The process: boot, crash, exit.

Idle == [p \in Procs |-> IF p = Main THEN "down" ELSE "idle"]

Init ==
  /\ req = [r \in Requests |-> "new"]
  /\ asked = [r \in Requests |-> NoOverrides]
  /\ next = [r \in Requests |-> NoOverrides]
  /\ accepted = <<>>
  /\ immediates = <<>> /\ serialQueue = <<>> /\ running = None
  /\ pc = Idle
  /\ target = [p \in Procs |-> None]
  /\ runtime = None /\ pinning = None
  /\ activeOverrides = NoOverrides
  /\ listenOverrides = [g \in Runtimes |-> NoOverrides]
  /\ node = [g \in Runtimes |-> "new"]
  /\ datastore = [g \in Runtimes |-> FALSE]
  /\ blockstore = [g \in Runtimes |-> FALSE]
  /\ faults = 0

\* The process is gone: its memory is lost and the OS drops its file locks.
\* Requests it had not finished are lost with it.
ProcessGone ==
  /\ req' = [r \in Requests |->
               IF req[r] \in Unanswered \cup {"accepted", "running"}
               THEN "lost" ELSE req[r]]
  /\ asked' = [r \in Requests |-> NoOverrides]
  /\ next' = [r \in Requests |-> NoOverrides]
  /\ accepted' = <<>>
  /\ immediates' = <<>> /\ serialQueue' = <<>> /\ running' = None
  /\ pc' = Idle
  /\ target' = [p \in Procs |-> None]
  /\ runtime' = None /\ pinning' = None
  /\ activeOverrides' = NoOverrides
  /\ listenOverrides' = [g \in Runtimes |-> NoOverrides]
  /\ node' = [g \in Runtimes |-> "new"]
  /\ datastore' = [g \in Runtimes |-> FALSE]
  /\ blockstore' = [g \in Runtimes |-> FALSE]
  /\ UNCHANGED faults

\* main() begins: activeOverrides = {} and startRelayRuntime is called.
BootBegin ==
  /\ pc[Main] = "down"
  /\ pc' = [pc EXCEPT ![Main] = "openDatastore"]
  /\ target' = [target EXCEPT ![Main] = Boot]
  /\ UNCHANGED <<requestVars, queueVars, serverVars, listenOverrides, node,
                 storeVars, faults>>

\* The first runtime is up: the control server is created and takes
\* getRuntime().pinning once; the signal handlers are installed.
BootDone ==
  /\ pc[Main] = "publish"
  /\ pc' = [pc EXCEPT ![Main] = "serving"]
  /\ target' = [target EXCEPT ![Main] = None]
  /\ runtime' = Boot
  /\ pinning' = Boot
  /\ UNCHANGED <<requestVars, queueVars, activeOverrides, listenOverrides,
                 node, storeVars, faults>>

\* main().catch: the process exits with status 1.
BootFailed == pc[Main] = "failed" /\ ProcessGone

\* SIGKILL, an uncaught exception, or a signal before its handler exists.
Crash == pc[Main] # "down" /\ ProcessGone

----------------------------------------------------------------------------
\* startRelayRuntime, run by main() and by the restart job.  An error leaves
\* everything opened so far as it is: nothing in the function closes it.

Fault   == faults < MaxFaults /\ faults' = faults + 1
NoFault == UNCHANGED faults

\* Mutant: a store that any number of instances may open.
UnlockedAlways(store) == TRUE

\* LevelDB lets one instance at a time open a directory.
Unlocked(store) == \A g \in Runtimes : ~store[g]

OpenDatastore(p) ==
  /\ pc[p] = "openDatastore"
  /\ \/ /\ Unlocked(datastore)
        /\ datastore' = [datastore EXCEPT ![target[p]] = TRUE]
        /\ pc' = [pc EXCEPT ![p] = "openBlockstore"]
        /\ NoFault
     \/ /\ IF Unlocked(datastore) THEN Fault ELSE NoFault
        /\ pc' = [pc EXCEPT ![p] = "failed"]
        /\ UNCHANGED datastore
  /\ UNCHANGED <<requestVars, queueVars, target, serverVars, listenOverrides,
                 node, blockstore>>

OpenBlockstore(p) ==
  /\ pc[p] = "openBlockstore"
  /\ \/ /\ Unlocked(blockstore)
        /\ blockstore' = [blockstore EXCEPT ![target[p]] = TRUE]
        /\ pc' = [pc EXCEPT ![p] = "startNode"]
        /\ NoFault
     \/ /\ IF Unlocked(blockstore) THEN Fault ELSE NoFault
        /\ pc' = [pc EXCEPT ![p] = "failed"]
        /\ UNCHANGED blockstore
  /\ UNCHANGED <<requestVars, queueVars, target, serverVars, listenOverrides,
                 node, datastore>>

\* createLibp2p and libp2p.start(); a start that throws (a port that cannot be
\* bound) has stopped the node again.
StartNode(p) ==
  /\ pc[p] = "startNode"
  /\ \/ /\ node' = [node EXCEPT ![target[p]] = "started"]
        /\ pc' = [pc EXCEPT ![p] = "handlers"]
        /\ NoFault
     \/ /\ Fault
        /\ node' = [node EXCEPT ![target[p]] = "stopped"]
        /\ pc' = [pc EXCEPT ![p] = "failed"]
  /\ UNCHANGED <<requestVars, queueVars, target, serverVars, listenOverrides,
                 storeVars>>

\* createPinningHttpHandlers() on the started node, then the runtime is
\* returned with the overrides it was started with.
CreateHandlers(p) ==
  /\ pc[p] = "handlers"
  /\ \/ /\ pc' = [pc EXCEPT ![p] = "publish"]
        /\ listenOverrides' = [listenOverrides EXCEPT ![target[p]] =
             IF p = Job THEN next[running] ELSE NoOverrides]
        /\ NoFault
     \/ /\ Fault
        /\ pc' = [pc EXCEPT ![p] = "failed"]
        /\ UNCHANGED listenOverrides
  /\ UNCHANGED <<requestVars, queueVars, target, serverVars, node, storeVars>>

StartStep(p) ==
  OpenDatastore(p) \/ OpenBlockstore(p) \/ StartNode(p) \/ CreateHandlers(p)

----------------------------------------------------------------------------
\* RelayRuntime.stop, run by the restart job and by each shutdown.  It catches
\* every error and goes on.

\* Mutant: libp2p.stop() is forgotten.
StopNodeForgotten(p) ==
  /\ pc[p] = "stopNode"
  /\ pc' = [pc EXCEPT ![p] = "closeBlockstore"]
  /\ UNCHANGED <<requestVars, queueVars, target, serverVars, listenOverrides,
                 node, storeVars, faults>>

\* Mutant: stopping waits for a stop event, also of a node that has stopped.
StopNodeWaits(p) ==
  /\ pc[p] = "stopNode"
  /\ node[target[p]] = "started"
  /\ node' = [node EXCEPT ![target[p]] = "stopping"]
  /\ pc' = [pc EXCEPT ![p] = "stopping"]
  /\ UNCHANGED <<requestVars, queueVars, target, serverVars, listenOverrides,
                 storeVars, faults>>

\* libp2p.stop() returns at once unless the node is started.
StopNode(p) ==
  /\ pc[p] = "stopNode"
  /\ IF node[target[p]] = "started"
       THEN /\ node' = [node EXCEPT ![target[p]] = "stopping"]
            /\ pc' = [pc EXCEPT ![p] = "stopping"]
       ELSE /\ pc' = [pc EXCEPT ![p] = "closeBlockstore"]
            /\ UNCHANGED node
  /\ UNCHANGED <<requestVars, queueVars, target, serverVars, listenOverrides,
                 storeVars, faults>>

NodeStopped(p) ==
  /\ pc[p] = "stopping"
  /\ node' = [node EXCEPT ![target[p]] = "stopped"]
  /\ pc' = [pc EXCEPT ![p] = "closeBlockstore"]
  /\ UNCHANGED <<requestVars, queueVars, target, serverVars, listenOverrides,
                 storeVars, faults>>

\* A close that throws leaves the store open and its directory locked.
CloseBlockstore(p) ==
  /\ pc[p] = "closeBlockstore"
  /\ pc' = [pc EXCEPT ![p] = "closeDatastore"]
  /\ \/ /\ blockstore' = [blockstore EXCEPT ![target[p]] = FALSE]
        /\ NoFault
     \/ /\ blockstore[target[p]]
        /\ Fault
        /\ UNCHANGED blockstore
  /\ UNCHANGED <<requestVars, queueVars, target, serverVars, listenOverrides,
                 node, datastore>>

\* Mutant: stop() forgets levelDatastore.close().
CloseDatastoreForgotten(p) ==
  /\ pc[p] = "closeDatastore"
  /\ pc' = [pc EXCEPT ![p] = "stopped"]
  /\ UNCHANGED <<requestVars, queueVars, target, serverVars, listenOverrides,
                 node, storeVars, faults>>

CloseDatastore(p) ==
  /\ pc[p] = "closeDatastore"
  /\ pc' = [pc EXCEPT ![p] = "stopped"]
  /\ \/ /\ datastore' = [datastore EXCEPT ![target[p]] = FALSE]
        /\ NoFault
     \/ /\ datastore[target[p]]
        /\ Fault
        /\ UNCHANGED datastore
  /\ UNCHANGED <<requestVars, queueVars, target, serverVars, listenOverrides,
                 node, blockstore>>

StopStep(p) ==
  StopNode(p) \/ NodeStopped(p) \/ CloseBlockstore(p) \/ CloseDatastore(p)

----------------------------------------------------------------------------
\* The HTTP handler.  It runs in one turn of the event loop, except that
\* POST /run/pubsub-discovery awaits its body first.

\* A signal handler calls server.close(), which takes no new connection; one
\* the server still has may carry another request until close() returns.
Accepting == Serving /\ \A s \in Signals : pc[s] \in {"idle", "closeServers"}

\* 202, the overrides computed from the current ones, and setImmediate.
Accept(r, change) ==
  /\ req' = [req EXCEPT ![r] = "accepted"]
  /\ asked' = [asked EXCEPT ![r] = change]
  /\ next' = [next EXCEPT ![r] = Spread(activeOverrides, change)]
  /\ accepted' = Append(accepted, r)
  /\ immediates' = Append(immediates, r)

\* POST /run/restart, POST /run/<kind>/<port>.
PostRun(r) ==
  /\ Accepting
  /\ req[r] = "new"
  /\ \E change \in PortChanges \cup {NoOverrides} : Accept(r, change)
  /\ UNCHANGED <<serialQueue, running, pc, target, serverVars,
                 listenOverrides, node, storeVars, faults>>

\* POST /run/pubsub-discovery, before `await readJsonBody(req)`.
PostTopic(r) ==
  /\ Accepting
  /\ req[r] = "new"
  /\ req' = [req EXCEPT ![r] = "reading"]
  /\ UNCHANGED <<asked, accepted, next, queueVars, pc, target, serverVars,
                 listenOverrides, node, storeVars, faults>>

\* ... and after it.
TopicBody(r) ==
  /\ req[r] = "reading"
  /\ \E change \in TopicChanges : Accept(r, change)
  /\ UNCHANGED <<serialQueue, running, pc, target, serverVars,
                 listenOverrides, node, storeVars, faults>>

\* 401, 404, or 400 for a body that is bad, too long or without a topic.
Refuse(r) ==
  /\ \/ Accepting /\ req[r] = "new"
     \/ req[r] = "reading"
  /\ req' = [req EXCEPT ![r] = "answered"]
  /\ UNCHANGED <<asked, accepted, next, queueVars, pc, target, serverVars,
                 listenOverrides, node, storeVars, faults>>

\* A request of the mounted routes, GET /ipfs/<cid> or /pinning/...  Its
\* response ends, by itself or by the timer of a cat; unless it is held up by a
\* client that stops reading or by content that never comes, for which the
\* handlers have no timer.  Either may pass.
MountedRoute(r) ==
  /\ \/ Accepting /\ req[r] = "new" /\ req' = [req EXCEPT ![r] = "open"]
     \/ req[r] = "open" /\ req' = [req EXCEPT ![r] = "held"]
     \/ req[r] = "held" /\ req' = [req EXCEPT ![r] = "open"]
  /\ UNCHANGED <<asked, accepted, next, queueVars, pc, target, serverVars,
                 listenOverrides, node, storeVars, faults>>

ResponseEnds(r) ==
  /\ req[r] = "open"
  /\ req' = [req EXCEPT ![r] = "answered"]
  /\ UNCHANGED <<asked, accepted, next, queueVars, pc, target, serverVars,
                 listenOverrides, node, storeVars, faults>>

----------------------------------------------------------------------------
\* scheduleRestart: setImmediate, then runSerial's promise chain.

RunImmediate ==
  /\ immediates # <<>>
  /\ serialQueue' = Append(serialQueue, Head(immediates))
  /\ immediates' = Tail(immediates)
  /\ UNCHANGED <<requestVars, running, pc, target, serverVars,
                 listenOverrides, node, storeVars, faults>>

\* Mutant: setOverrides comes before old.stop().
JobBeginEager ==
  /\ pc[Job] = "idle"
  /\ serialQueue # <<>>
  /\ running' = Head(serialQueue)
  /\ serialQueue' = Tail(serialQueue)
  /\ req' = [req EXCEPT ![Head(serialQueue)] = "running"]
  /\ activeOverrides' = next[Head(serialQueue)]
  /\ pc' = [pc EXCEPT ![Job] = "stopNode"]
  /\ target' = [target EXCEPT ![Job] = runtime]
  /\ UNCHANGED <<asked, accepted, next, immediates, runtime, pinning,
                 listenOverrides, node, storeVars, faults>>

\* const old = opts.getRuntime(); await old.stop()
JobBegin ==
  /\ pc[Job] = "idle"
  /\ serialQueue # <<>>
  /\ running' = Head(serialQueue)
  /\ serialQueue' = Tail(serialQueue)
  /\ req' = [req EXCEPT ![Head(serialQueue)] = "running"]
  /\ pc' = [pc EXCEPT ![Job] = "stopNode"]
  /\ target' = [target EXCEPT ![Job] = runtime]
  /\ UNCHANGED <<asked, accepted, next, immediates, serverVars,
                 listenOverrides, node, storeVars, faults>>

\* Mutant: the job forgets setOverrides.
JobSetOverridesForgotten ==
  /\ pc[Job] = "stopped"
  /\ pc' = [pc EXCEPT ![Job] = "openDatastore"]
  /\ target' = [target EXCEPT ![Job] = running]
  /\ UNCHANGED <<requestVars, queueVars, serverVars, listenOverrides, node,
                 storeVars, faults>>

\* opts.setOverrides(nextOverrides), and startRelayRuntime is called.
JobSetOverrides ==
  /\ pc[Job] = "stopped"
  /\ activeOverrides' = next[running]
  /\ pc' = [pc EXCEPT ![Job] = "openDatastore"]
  /\ target' = [target EXCEPT ![Job] = running]
  /\ UNCHANGED <<requestVars, queueVars, runtime, pinning, listenOverrides,
                 node, storeVars, faults>>

JobEnds(outcome) ==
  /\ req' = [req EXCEPT ![running] = outcome]
  /\ running' = None
  /\ pc' = [pc EXCEPT ![Job] = "idle"]
  /\ target' = [target EXCEPT ![Job] = None]

\* Mutant: the job forgets setRuntime.
JobDoneForgotten ==
  /\ pc[Job] = "publish"
  /\ JobEnds("done")
  /\ UNCHANGED <<asked, accepted, next, immediates, serialQueue, serverVars,
                 listenOverrides, node, storeVars, faults>>

\* opts.setRuntime(created)
JobDone ==
  /\ pc[Job] = "publish"
  /\ runtime' = target[Job]
  /\ JobEnds("done")
  /\ UNCHANGED <<asked, accepted, next, immediates, serialQueue,
                 activeOverrides, pinning, listenOverrides, node, storeVars,
                 faults>>

\* Mutant: a failed job resets the overrides to undefined.
JobFailedClears ==
  /\ pc[Job] = "failed"
  /\ activeOverrides' = None
  /\ JobEnds("failed")
  /\ UNCHANGED <<asked, accepted, next, immediates, serialQueue, runtime,
                 pinning, listenOverrides, node, storeVars, faults>>

\* Mutant: a failed job breaks the promise chain (no rejection handler).
JobFailedBreaksChain ==
  /\ pc[Job] = "failed"
  /\ req' = [req EXCEPT ![running] = "failed"]
  /\ pc' = [pc EXCEPT ![Job] = "down"]
  /\ UNCHANGED <<asked, accepted, next, queueVars, target, serverVars,
                 listenOverrides, node, storeVars, faults>>

\* The catch of the job logs and nothing else: the stopped runtime stays the
\* current one and activeOverrides keeps the overrides that failed.
JobFailed ==
  /\ pc[Job] = "failed"
  /\ JobEnds("failed")
  /\ UNCHANGED <<asked, accepted, next, immediates, serialQueue, serverVars,
                 listenOverrides, node, storeVars, faults>>

JobStep ==
  JobBegin \/ StopStep(Job) \/ JobSetOverrides \/ StartStep(Job)
    \/ JobDone \/ JobFailed

----------------------------------------------------------------------------
\* shutdown(): each delivery of a signal runs its own.

Signal(s) ==
  /\ Serving
  /\ pc[s] = "idle"
  /\ pc' = [pc EXCEPT ![s] = "closeServers"]
  /\ UNCHANGED <<requestVars, queueVars, target, serverVars, listenOverrides,
                 node, storeVars, faults>>

\* control.close() waits for every response of the server to end; then
\* runtime.stop() is called on what `runtime` is at that moment.
CloseServers(s) ==
  /\ pc[s] = "closeServers"
  /\ \A r \in Requests : req[r] \notin Unanswered
  /\ pc' = [pc EXCEPT ![s] = "stopNode"]
  /\ target' = [target EXCEPT ![s] = runtime]
  /\ UNCHANGED <<requestVars, queueVars, serverVars, listenOverrides, node,
                 storeVars, faults>>

\* process.exit(0)
Exit(s) == pc[s] = "stopped" /\ ProcessGone

ShutdownStep(s) == CloseServers(s) \/ StopStep(s) \/ Exit(s)

----------------------------------------------------------------------------
Next ==
  \/ BootBegin \/ StartStep(Main) \/ BootDone \/ BootFailed \/ Crash
  \/ \E r \in Requests :
       \/ PostRun(r) \/ PostTopic(r) \/ TopicBody(r) \/ Refuse(r)
       \/ MountedRoute(r) \/ ResponseEnds(r)
  \/ RunImmediate \/ JobStep
  \/ \E s \in Signals : Signal(s) \/ ShutdownStep(s)

Spec == Init /\ [][Next]_vars

\* The event loop keeps turning and every promise the code awaits settles:
\* libp2p.stop() and the stores.  A response that nothing holds up ends.
\* Nothing obliges a client to send its body (once server.close() is called
\* Node's requestTimeout does not either), nor a signal, a crash or a boot to
\* happen.
Fairness ==
  /\ WF_vars(RunImmediate)
  /\ WF_vars(JobStep)
  /\ \A r \in Requests : WF_vars(ResponseEnds(r))
  /\ \A s \in Signals : WF_vars(ShutdownStep(s))

FairSpec == Spec /\ Fairness
----------------------------------------------------------------------------
\* Properties.

\* Every variable has its type.
TypeOK ==
  /\ req \in [Requests -> RequestStates]
  /\ asked \in [Requests -> Overrides]
  /\ next \in [Requests -> Overrides]
  /\ accepted \in Seq(Requests)
  /\ immediates \in Seq(Requests)
  /\ serialQueue \in Seq(Requests)
  /\ running \in Requests \cup {None}
  /\ pc \in [Procs -> Steps]
  /\ target \in [Procs -> Runtimes \cup {None}]
  /\ runtime \in Runtimes \cup {None}
  /\ activeOverrides \in Overrides
  /\ pinning \in Runtimes \cup {None}
  /\ listenOverrides \in [Runtimes -> Overrides]
  /\ node \in [Runtimes -> NodeStates]
  /\ datastore \in [Runtimes -> BOOLEAN]
  /\ blockstore \in [Runtimes -> BOOLEAN]
  /\ faults \in 0..MaxFaults

\* A started libp2p node always has both of its stores open, whoever stops it:
\* the restart job, a shutdown, or both at once (stop() in relay-runtime.ts
\* stops the node before it closes what the node writes to).
StoresOutliveNode ==
  \A g \in Runtimes : node[g] = "started" => datastore[g] /\ blockstore[g]

\* However restarts, failures and shutdowns interleave, the process never runs
\* two started libp2p nodes, which would bind the same ports with one key.
OneNode ==
  \A g, h \in Runtimes : node[g] = "started" /\ node[h] = "started" => g = h

\* While no job runs, a started current runtime listens on exactly what
\* GET /status reports as listenOverrides.
StatusMatchesRuntime ==
  Serving /\ pc[Job] = "idle" /\ node[runtime] = "started"
    => listenOverrides[runtime] = activeOverrides

\* The relay is down while nothing is in progress only because the restart
\* accepted last among those finished failed.
DownHasACause ==
  Serving /\ ~ShuttingDown /\ pc[Job] = "idle" /\ node[runtime] # "started"
    => \E i \in 1..Len(accepted) :
         /\ req[accepted[i]] = "failed"
         /\ \A j \in (i + 1)..Len(accepted) : ~Finished(accepted[j])

\* A store that is open although its runtime is neither the current one nor
\* being started or stopped: nobody is left who would close it.
Orphaned(g) ==
  /\ datastore[g] \/ blockstore[g]
  /\ g # runtime
  /\ \A p \in Procs : target[p] # g

\* A failed start that leaves a store open ends all restarts: no later job
\* publishes a runtime before the process itself is restarted.
OrphanBlocksRestarts ==
  [][(\E g \in Runtimes : Orphaned(g)) => runtime' \in {runtime, None}]_vars

\* A shutdown that raced with no restart and met no I/O error leaves nothing
\* running and nothing open when it calls process.exit.
CleanExit ==
  \A s \in Signals :
    pc[s] = "stopped" /\ target[s] = runtime /\ pc[Job] = "idle" /\ faults = 0
      => \A g \in Runtimes :
           node[g] # "started" /\ ~datastore[g] /\ ~blockstore[g]

\* Every request answered 202 is served, or lost with its process.
AcceptedIsServed ==
  \A r \in Requests :
    req[r] = "accepted" ~> req[r] \in {"done", "failed", "lost"}

\* What control.close() waits for without a limit: a response of the /ipfs and
\* /pinning routes that is held up, and a client that does not send its body.
HoldsShutdown(r) == req[r] \in {"reading", "held"}

\* SIGINT or SIGTERM ends the process, also during a restart, unless there are
\* such requests again and again, or one for ever.
SignalEndsProcess ==
  \A s \in Signals :
    (pc[s] # "idle" /\ []~(\E r \in Requests : HoldsShutdown(r)))
      ~> pc[Main] = "down"

----------------------------------------------------------------------------
\* The abstract restart queue this implements.

Waiting ==
  (IF running = None THEN <<>> ELSE <<running>>) \o serialQueue \o immediates

PendingOrders ==
  [i \in 1..Len(Waiting) |->
     [id |-> Waiting[i], overrides |-> next[Waiting[i]]]]

ListeningOn ==
  IF runtime # None /\ node[runtime] = "started"
  THEN listenOverrides[runtime] ELSE None

Queue == INSTANCE RestartQueue WITH
  pending <- PendingOrders, config <- activeOverrides,
  listening <- ListeningOn, Nothing <- None

\* Restarts apply what was accepted, one at a time and in order, and the relay
\* only ever listens on what was applied last (control-http.ts as a whole).
ImplementsRestartQueue == Queue!Spec

----------------------------------------------------------------------------
\* What the documentation says and the code does not do.

\* README.md:109: control-plane restarts replace the Helia instance and the
\* HTTP server uses the current runtime per request.
PinningIsCurrent ==
  Serving /\ pc[Job] = "idle" /\ node[runtime] = "started" => pinning = runtime

\* No request accepted after the i-th sets the topic that one sets.
LastTopic(i) ==
  /\ Topic \in DOMAIN asked[accepted[i]]
  /\ \A j \in (i + 1)..Len(accepted) : Topic \notin DOMAIN asked[accepted[j]]

\* README.md:61: the topic is overridden by POST /run/pubsub-discovery while
\* the process runs.  Once such a restart has succeeded, and until another
\* request sets the topic, a runtime started later still uses it.
TopicStaysOverridden ==
  \A i \in 1..Len(accepted) :
    LastTopic(i) /\ req[accepted[i]] = "done" /\ pc[Job] = "idle"
      => /\ Topic \in DOMAIN listenOverrides[runtime]
         /\ listenOverrides[runtime][Topic] = asked[accepted[i]][Topic]
=============================================================================
