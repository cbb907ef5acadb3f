---------------------------- MODULE GatewayServer ----------------------------
(***************************************************************************)
(* The standalone gateway's HTTP server around the requests of             *)
(* IpfsGateway, and the shutdown() of src/server.ts that closes it before  *)
(* it stops the runtime the requests read from.  In this mode the control  *)
(* server does not run, so the runtime is never restarted.                 *)
(***************************************************************************)
EXTENDS IpfsGateway

CONSTANT Signals   \* deliveries of SIGINT or SIGTERM

VARIABLES
  server,     \* the HTTP server: listening, closing, or all connections ended
  shutdown,   \* the shutdown() of each signal
  runtime     \* the relay runtime, and "gone" with the process

serverVars == <<server, shutdown, runtime>>
allVars == <<vars, serverVars>>

ServerInit ==
  /\ Init
  /\ server = "listening"
  /\ shutdown = [s \in Signals |-> "none"]
  /\ runtime = "running"

----------------------------------------------------------------------------
\* Mutant: shutdown() stops the runtime without waiting for the gateway.
CloseDoesNotWait(s) ==
  /\ runtime # "gone"
  /\ shutdown[s] = "closing"
  /\ shutdown' = [shutdown EXCEPT ![s] = "stopping"]
  /\ runtime' = IF runtime = "running" THEN "stopping" ELSE runtime
  /\ UNCHANGED <<vars, server>>

\* Mutant: the server waits for the handlers, not for their connections.
ServerClosedAfterHandlers ==
  /\ runtime # "gone"
  /\ server = "closing"
  /\ \A q \in Gets : pc[q] \in {"idle", "done"}
  /\ server' = "closed"
  /\ UNCHANGED <<vars, shutdown, runtime>>

\* The handler's own 404 and 405; /health is answered in one step as well.
OtherRoute(q) ==
  /\ pc[q] = "idle"
  /\ \E code \in {404, 405} : Fail(q, code)
  /\ UNCHANGED <<chunks, written, path, client, writeError>>

\* The steps of a request, while the process lives.  A closing server takes no
\* connection, but one it still has may carry another request.
Serve(q) ==
  /\ runtime # "gone"
  /\ \/ (HandlerStep(q) \/ OtherRoute(q)) /\ (pc[q] = "idle" => server # "closed")
     \/ TimerFires(q)
     \/ ClientMoves(q)
  /\ UNCHANGED serverVars

\* process.on('SIGINT' | 'SIGTERM', shutdown), up to ipfsGateway.close().
Signal(s) ==
  /\ runtime # "gone"
  /\ shutdown[s] = "none"
  /\ shutdown' = [shutdown EXCEPT ![s] = "closing"]
  /\ server' = IF server = "listening" THEN "closing" ELSE server
  /\ UNCHANGED <<vars, runtime>>

\* The 'close' event, when the last connection is over.
ServerClosed ==
  /\ runtime # "gone"
  /\ server = "closing"
  /\ \A q \in Gets : ~Connected(q)
  /\ server' = "closed"
  /\ UNCHANGED <<vars, shutdown, runtime>>

\* close() resolves; a second one rejects at the same moment, which is
\* ignored.  Each shutdown then calls runtime.stop().
CloseReturns(s) ==
  /\ runtime # "gone"
  /\ shutdown[s] = "closing"
  /\ server = "closed"
  /\ shutdown' = [shutdown EXCEPT ![s] = "stopping"]
  /\ runtime' = IF runtime = "running" THEN "stopping" ELSE runtime
  /\ UNCHANGED <<vars, server>>

\* A stop() returns: process.exit(0).
Exit(s) ==
  /\ runtime # "gone"
  /\ shutdown[s] = "stopping"
  /\ runtime' = "gone"
  /\ UNCHANGED <<vars, server, shutdown>>

ServerNext ==
  \/ \E q \in Gets : Serve(q)
  \/ \E s \in Signals : Signal(s) \/ CloseReturns(s) \/ Exit(s)
  \/ ServerClosed

\* The fairness of the requests, as long as there is a process; and the server
\* and the stores close when nothing holds them open.
ServerSpec ==
  /\ ServerInit /\ [][ServerNext]_allVars
  /\ \A q \in Gets : WF_allVars(Serve(q) /\ Settles(q))
  /\ WF_allVars(ServerClosed)
  /\ \A s \in Signals : WF_allVars(CloseReturns(s) \/ Exit(s))

----------------------------------------------------------------------------
\* Properties.

\* The runtime is not stopped under a response its client still waits for:
\* shutdown() closes the server first, and close() waits for every response.
RuntimeOutlivesRequests ==
  runtime = "stopping" => \A q \in Gets : ~Connected(q)

\* Once the timer of a cat is armed, the handler ends or waits for its client,
\* or the process is gone.
CatEndsOrWaitsForClient ==
  \A q \in Gets :
    timer[q] = "armed" ~> pc[q] \in {"done", "drain"} \/ runtime = "gone"

\* A signal ends the process, unless a client that stays connected does not
\* read its response, or waits for pinned content that never comes: the only
\* two waits of a handler no timer ends.
HoldsShutdown(q) ==
  /\ Connected(q)
  /\ \/ client[q] = "stalled"
     \/ pc[q] = "pinnedLookup"
     \/ pc[q] = "chunk" /\ path[q] = "pinned"

SignalEndsProcess ==
  \A s \in Signals :
    (shutdown[s] = "closing" /\ []~(\E q \in Gets : HoldsShutdown(q)))
      ~> runtime = "gone"
=============================================================================
