------------------------- MODULE GatewayServerProofs -------------------------
(***************************************************************************)
(* Proofs about the IPFS gateway, for every set of requests and signals    *)
(* and files of any size: first of the requests alone (IpfsGateway), then  *)
(* with the server and the shutdown around them (GatewayServer).           *)
(***************************************************************************)
EXTENDS GatewayServer, TLAPS

----------------------------------------------------------------------------
\* The invariant of the requests.  A response is open until its handler is
\* done, its status stays 200 while it is, and nothing has been written before
\* the first chunk; so an error response, which needs an unwritten body, and
\* an ended one, which needs a written one, exclude each other.

Typed ==
  /\ TypeOK
  /\ chunks \in [Gets -> Nat]
  /\ written \in [Gets -> Nat]

OpenUntilDone(q) ==
  /\ pc[q] = "done" <=> response[q] # "open"
  /\ pc[q] # "done" => status[q] = 200
  /\ pc[q] \in {"idle", "pinnedLookup", "stat"} => written[q] = 0

RequestInv == Typed /\ BodyIsWholeOrBroken /\ \A q \in Gets : OpenUntilDone(q)

LEMMA InitRequests == Init => RequestInv
  <1> SUFFICES ASSUME Init PROVE RequestInv
    OBVIOUS
  <1>1. /\ chunks \in [Gets -> UNION {Sizes[q] : q \in Gets}]
        /\ \A q \in Gets : chunks[q] \in Sizes[q]
    BY DEF Init
  <1>2. chunks \in [Gets -> Nat]
    BY <1>1, SizesAssumption
  <1>3. Typed
    BY <1>1, <1>2 DEF Init, Typed, TypeOK, Steps
  <1>4. BodyIsWholeOrBroken /\ \A q \in Gets : OpenUntilDone(q)
    BY DEF Init, BodyIsWholeOrBroken, OpenUntilDone
  <1> QED
    BY <1>3, <1>4 DEF RequestInv

Codes == {400, 404, 405, 500, 502, 503, 504}

\* An error response, sent before anything is written, ends the handler.
LEMMA FailKeeps ==
  ASSUME RequestInv, NEW q \in Gets, NEW code \in Codes,
         Fail(q, code), written[q] = 0, pc[q] # "done",
         UNCHANGED <<chunks, written, client, writeError>>,
         path' \in [Gets -> {"none", "pinned", "cat"}]
  PROVE  RequestInv'
  <1>1. /\ pc' = [pc EXCEPT ![q] = "done"]
        /\ status' = [status EXCEPT ![q] = code]
        /\ response' = [response EXCEPT ![q] = "error"]
        /\ timer' = [timer EXCEPT ![q] = IF timer[q] = "armed" THEN "off" ELSE @]
    BY DEF Fail, Goto, ClearTimeout
  <1>2. Typed'
    BY <1>1 DEF RequestInv, Typed, TypeOK, Steps, Codes
  <1>3. BodyIsWholeOrBroken'
    BY <1>1 DEF RequestInv, Typed, TypeOK, BodyIsWholeOrBroken
  <1>4. (\A r \in Gets : OpenUntilDone(r))'
    BY <1>1 DEF RequestInv, Typed, TypeOK, OpenUntilDone
  <1> QED
    BY <1>2, <1>3, <1>4 DEF RequestInv

\* An error that is caught ends the handler as well: by such a response, or by
\* breaking off what has been sent.
LEMMA CaughtKeeps ==
  ASSUME RequestInv, NEW q \in Gets, NEW code \in Codes,
         Caught(q, code), pc[q] # "done",
         UNCHANGED <<chunks, written, path, client>>,
         writeError' \in [Gets -> BOOLEAN]
  PROVE  RequestInv'
  <1>1. CASE HeadersSent(q)
    <2>1. /\ response' = [response EXCEPT ![q] = "destroyed"]
          /\ pc' = [pc EXCEPT ![q] = "done"]
          /\ timer' = [timer EXCEPT ![q] = IF timer[q] = "armed" THEN "off" ELSE @]
          /\ UNCHANGED status
      BY <1>1 DEF Caught, Goto, ClearTimeout
    <2>2. Typed'
      BY <2>1 DEF RequestInv, Typed, TypeOK, Steps
    <2>3. BodyIsWholeOrBroken'
      BY <2>1 DEF RequestInv, Typed, TypeOK, BodyIsWholeOrBroken
    <2>4. (\A r \in Gets : OpenUntilDone(r))'
      BY <2>1 DEF RequestInv, Typed, TypeOK, OpenUntilDone
    <2> QED
      BY <2>2, <2>3, <2>4 DEF RequestInv
  <1>2. CASE ~HeadersSent(q)
    <2>1. /\ pc' = [pc EXCEPT ![q] = "done"]
          /\ status' = [status EXCEPT ![q] = code]
          /\ response' = [response EXCEPT ![q] = "error"]
          /\ timer' = [timer EXCEPT ![q] = IF timer[q] = "armed" THEN "off" ELSE @]
      BY <1>2 DEF Caught, Fail, Goto, ClearTimeout
    <2>2. Typed'
      BY <2>1 DEF RequestInv, Typed, TypeOK, Steps, Codes
    <2>3. written[q] = 0
      BY <1>2 DEF HeadersSent, RequestInv, Typed
    <2>4. BodyIsWholeOrBroken'
      BY <2>1, <2>3 DEF RequestInv, Typed, TypeOK, BodyIsWholeOrBroken
    <2>5. (\A r \in Gets : OpenUntilDone(r))'
      BY <2>1, <2>3 DEF RequestInv, Typed, TypeOK, OpenUntilDone
    <2> QED
      BY <2>2, <2>4, <2>5 DEF RequestInv
  <1> QED
    BY <1>1, <1>2

\* The switch to unixfs begins while nothing is written.
LEMMA UnixfsKeeps ==
  ASSUME RequestInv, NEW q \in Gets, UnixfsBegin(q), pc[q] \in {"idle", "pinnedLookup"},
         UNCHANGED <<chunks, written, client, writeError>>
  PROVE  RequestInv'
  <1>1. written[q] = 0 /\ pc[q] # "done"
    BY DEF RequestInv, OpenUntilDone
  <1>2. CASE \E code \in {503, 400} : Fail(q, code) /\ UNCHANGED path
    BY <1>1, <1>2, FailKeeps DEF Codes, RequestInv, Typed, TypeOK
  <1>3. CASE ~\E code \in {503, 400} : Fail(q, code) /\ UNCHANGED path
    <2>1. /\ timer' = [timer EXCEPT ![q] = "armed"]
          /\ path' = [path EXCEPT ![q] = "cat"]
          /\ pc' = [pc EXCEPT ![q] = "stat"]
          /\ UNCHANGED <<status, response>>
      BY <1>3 DEF UnixfsBegin, Goto
    <2>2. Typed'
      BY <2>1 DEF RequestInv, Typed, TypeOK, Steps
    <2>3. BodyIsWholeOrBroken'
      BY <2>1 DEF RequestInv, BodyIsWholeOrBroken
    <2>4. (\A r \in Gets : OpenUntilDone(r))'
      BY <1>1, <2>1 DEF RequestInv, Typed, TypeOK, OpenUntilDone
    <2> QED
      BY <2>2, <2>3, <2>4 DEF RequestInv
  <1> QED
    BY <1>2, <1>3

\* A handler that goes on to a later step, with the response still open.
LEMMA GoesOnKeeps ==
  ASSUME RequestInv, NEW q \in Gets, NEW step \in Steps \ {"idle", "done"},
         Goto(q, step), pc[q] # "done",
         step \in {"pinnedLookup", "stat"} => written[q] = 0,
         path' \in [Gets -> {"none", "pinned", "cat"}],
         UNCHANGED <<chunks, written, status, response, timer, client, writeError>>
  PROVE  RequestInv'
  <1>1. Typed'
    BY DEF Goto, RequestInv, Typed, TypeOK
  <1>2. BodyIsWholeOrBroken'
    BY DEF RequestInv, BodyIsWholeOrBroken
  <1>3. (\A r \in Gets : OpenUntilDone(r))'
    BY DEF Goto, RequestInv, Typed, TypeOK, OpenUntilDone
  <1> QED
    BY <1>1, <1>2, <1>3 DEF RequestInv

LEMMA ErrorCodes ==
  ASSUME NEW q \in Gets
  PROVE  Errors(q) \subseteq Codes
  BY DEF Errors, FetchErrors, Codes

\* Every step of a handler keeps the invariant.
LEMMA HandlerKeeps ==
  ASSUME RequestInv, NEW q \in Gets, HandlerStep(q)
  PROVE  RequestInv'
  <1>0. /\ pc[q] \in {"idle", "pinnedLookup", "stat"} => written[q] = 0
        /\ path \in [Gets -> {"none", "pinned", "cat"}]
        /\ writeError \in [Gets -> BOOLEAN]
    BY DEF RequestInv, OpenUntilDone, Typed, TypeOK
  <1>1. CASE Start(q)
    <2>1. pc[q] = "idle" /\ UNCHANGED <<chunks, written, client, writeError>>
      BY <1>1 DEF Start
    <2>2. CASE Fail(q, 400) /\ UNCHANGED path
      BY <1>0, <2>1, <2>2, FailKeeps DEF Codes
    <2>3. CASE Goto(q, "pinnedLookup") /\ UNCHANGED <<path, status, response, timer>>
      BY <1>0, <2>1, <2>3, GoesOnKeeps DEF Steps
    <2>4. CASE UnixfsBegin(q)
      BY <2>1, <2>4, UnixfsKeeps
    <2> QED
      BY <1>1, <2>2, <2>3, <2>4 DEF Start
  <1>2. CASE PinnedResult(q)
    <2>1. pc[q] = "pinnedLookup" /\ UNCHANGED <<chunks, written, client, writeError>>
      BY <1>2 DEF PinnedResult
    <2>2. CASE /\ path' = [path EXCEPT ![q] = "pinned"]
               /\ Goto(q, "chunk")
               /\ UNCHANGED <<status, response, timer>>
      BY <1>0, <2>1, <2>2, GoesOnKeeps DEF Steps
    <2>3. CASE UnixfsBegin(q)
      BY <2>1, <2>3, UnixfsKeeps
    <2>4. ASSUME NEW code \in {400, 500}, Fail(q, code), UNCHANGED path
          PROVE  RequestInv'
      BY <1>0, <2>1, <2>4, FailKeeps DEF Codes
    <2> QED
      BY <1>2, <2>2, <2>3, <2>4 DEF PinnedResult
  <1>3. CASE FetchFails(q)
    <2>1. /\ pc[q] # "done" /\ UNCHANGED <<chunks, written, path, client, writeError>>
          /\ \E code \in Errors(q) : Caught(q, code)
      BY <1>3 DEF FetchFails
    <2>2. PICK code \in Codes : Caught(q, code)
      BY <2>1, ErrorCodes
    <2> QED
      BY <1>0, <2>1, <2>2, CaughtKeeps
  <1>4. CASE StatResult(q)
    <2>1. pc[q] = "stat" /\ UNCHANGED <<chunks, written, path, client, writeError>>
      BY <1>4 DEF StatResult
    <2>2. CASE Fail(q, 400)
      BY <1>0, <2>1, <2>2, FailKeeps DEF Codes
    <2>3. CASE Goto(q, "chunk") /\ UNCHANGED <<status, response, timer>>
      BY <1>0, <2>1, <2>3, GoesOnKeeps DEF Steps
    <2> QED
      BY <1>4, <2>2, <2>3 DEF StatResult
  <1>5. CASE Chunk(q)
    <2>1. /\ pc[q] = "chunk" /\ written[q] < chunks[q]
          /\ written' = [written EXCEPT ![q] = @ + 1]
          /\ UNCHANGED <<chunks, path, status, response, timer, client>>
          /\ pc' = pc \/ pc' = [pc EXCEPT ![q] = "drain"]
          /\ writeError' = writeError \/ writeError' = [writeError EXCEPT ![q] = TRUE]
      BY <1>5 DEF Chunk, Goto
    <2>2. \A r \in Gets : chunks[r] \in Nat /\ written[r] \in Nat /\ written[r] \in 0..chunks[r]
      BY DEF RequestInv, Typed, TypeOK
    <2>3. /\ written' \in [Gets -> Nat]
          /\ \A r \in Gets : written'[r] \in 0..chunks[r]
      BY <2>1, <2>2 DEF RequestInv, Typed
    <2>4. pc' \in [Gets -> Steps]
      BY <2>1 DEF RequestInv, Typed, TypeOK, Steps
    <2>5. writeError' \in [Gets -> BOOLEAN]
      BY <1>0, <2>1
    <2>6. Typed'
      BY <2>1, <2>3, <2>4, <2>5 DEF RequestInv, Typed, TypeOK
    <2>7. response[q] = "open"
      BY <2>1 DEF RequestInv, OpenUntilDone
    <2>8. BodyIsWholeOrBroken'
      BY <2>1, <2>7 DEF RequestInv, Typed, BodyIsWholeOrBroken
    <2>9. (\A r \in Gets : OpenUntilDone(r))'
      BY <2>1 DEF RequestInv, Typed, TypeOK, OpenUntilDone
    <2> QED
      BY <2>6, <2>8, <2>9 DEF RequestInv
  <1>6. CASE Ends(q)
    <2>1. /\ pc[q] = "chunk" /\ written[q] = chunks[q]
          /\ response' = [response EXCEPT ![q] = "ended"]
          /\ pc' = [pc EXCEPT ![q] = "done"]
          /\ timer' = [timer EXCEPT ![q] = IF timer[q] = "armed" THEN "off" ELSE @]
          /\ UNCHANGED <<chunks, written, path, status, client, writeError>>
      BY <1>6 DEF Ends, Goto, ClearTimeout
    <2>2. Typed'
      BY <2>1 DEF RequestInv, Typed, TypeOK, Steps
    <2>3. status[q] = 200
      BY <2>1 DEF RequestInv, OpenUntilDone
    <2>4. BodyIsWholeOrBroken'
      BY <2>1, <2>3 DEF RequestInv, Typed, TypeOK, BodyIsWholeOrBroken
    <2>5. (\A r \in Gets : OpenUntilDone(r))'
      BY <2>1 DEF RequestInv, Typed, TypeOK, OpenUntilDone
    <2> QED
      BY <2>2, <2>4, <2>5 DEF RequestInv
  <1>7. CASE Drain(q)
    BY <1>0, <1>7, GoesOnKeeps DEF Drain, Steps
  <1>8. CASE WriteFails(q)
    <2>1. writeError' \in [Gets -> BOOLEAN]
      BY <1>0, <1>8 DEF WriteFails
    <2> QED
      BY <1>8, <2>1, CaughtKeeps DEF WriteFails, Codes
  <1> QED
    BY <1>1, <1>2, <1>3, <1>4, <1>5, <1>6, <1>7, <1>8 DEF HandlerStep

\* The timer and the client change nothing the invariant speaks of.
LEMMA OthersKeep ==
  ASSUME RequestInv, NEW q \in Gets, TimerFires(q) \/ ClientMoves(q)
  PROVE  RequestInv'
  <1>1. /\ UNCHANGED <<pc, chunks, written, path, status, response, writeError>>
        /\ timer' \in [Gets -> {"off", "armed", "fired"}]
        /\ client' \in [Gets -> {"reading", "stalled", "gone"}]
    BY DEF TimerFires, ClientMoves, RequestInv, Typed, TypeOK
  <1>2. Typed'
    BY <1>1 DEF RequestInv, Typed, TypeOK
  <1> QED
    BY <1>1, <1>2 DEF RequestInv, BodyIsWholeOrBroken, OpenUntilDone

LEMMA StutterKeeps == RequestInv /\ UNCHANGED vars => RequestInv'
  BY DEF vars, RequestInv, Typed, TypeOK, BodyIsWholeOrBroken, OpenUntilDone

LEMMA NextKeeps == RequestInv /\ [Next]_vars => RequestInv'
  BY HandlerKeeps, OthersKeep, StutterKeeps DEF Next

----------------------------------------------------------------------------
\* The requests alone.

LEMMA RequestsInductive == Spec => []RequestInv
  BY InitRequests, NextKeeps, PTL DEF Spec

\* Every variable of a request keeps its type, for files of any length: no
\* handler writes more chunks than there are.
THEOREM TypeCorrect == Spec => []TypeOK
  <1>1. RequestInv => TypeOK
    BY DEF RequestInv, Typed
  <1> QED
    BY <1>1, RequestsInductive, PTL

\* However fetches, write errors and timeouts interleave, a response that ends
\* is complete and an error response follows nothing (tryServeIpfsCat in both
\* of its loops).
THEOREM WholeOrBroken == Spec => []BodyIsWholeOrBroken
  <1>1. RequestInv => BodyIsWholeOrBroken
    BY DEF RequestInv
  <1> QED
    BY <1>1, RequestsInductive, PTL

----------------------------------------------------------------------------
\* With the server.

\* A server is closed only when no client is connected, and it stays so: a
\* closed one takes no request, and the response of a request it had is
\* flushed, broken off, or of a client that is gone.
CloseInv ==
  /\ runtime = "stopping" => server = "closed"
  /\ server = "closed" => \A q \in Gets : ~Connected(q)

ServerInv == RequestInv /\ CloseInv

LEMMA OtherRouteKeeps ==
  ASSUME RequestInv, NEW q \in Gets, OtherRoute(q)
  PROVE  RequestInv'
  BY FailKeeps DEF OtherRoute, Codes, RequestInv, OpenUntilDone, Typed, TypeOK

\* A handler leaves the responses of the others alone.
LEMMA LeavesOthers ==
  ASSUME Typed, NEW q \in Gets, HandlerStep(q) \/ OtherRoute(q), NEW r \in Gets \ {q}
  PROVE  pc'[r] = pc[r] /\ response'[r] = response[r]
  <1> DEFINE Local == /\ pc' = pc \/ \E step : pc' = [pc EXCEPT ![q] = step]
                      /\ response' = response
                           \/ \E how : response' = [response EXCEPT ![q] = how]
  <1>1. ASSUME NEW code, Fail(q, code) PROVE Local
    BY <1>1 DEF Fail, Goto
  <1>2. ASSUME NEW code, Caught(q, code) PROVE Local
    BY <1>1, <1>2 DEF Caught, Goto
  <1>3. ASSUME UnixfsBegin(q) PROVE Local
    BY <1>1, <1>3 DEF UnixfsBegin, Goto
  <1>4. ASSUME Start(q) PROVE Local
    BY <1>1, <1>3, <1>4 DEF Start, Goto
  <1>5. ASSUME PinnedResult(q) PROVE Local
    BY <1>1, <1>3, <1>5 DEF PinnedResult, Goto
  <1>6. ASSUME FetchFails(q) \/ WriteFails(q) PROVE Local
    BY <1>2, <1>6 DEF FetchFails, WriteFails
  <1>7. ASSUME StatResult(q) \/ Chunk(q) \/ Ends(q) \/ Drain(q) PROVE Local
    BY <1>1, <1>7 DEF StatResult, Chunk, Ends, Drain, Goto
  <1>8. ASSUME OtherRoute(q) PROVE Local
    BY <1>1, <1>8 DEF OtherRoute
  <1>9. Local
    BY <1>4, <1>5, <1>6, <1>7, <1>8 DEF HandlerStep
  <1> QED
    BY <1>9 DEF Typed, TypeOK

\* With the server closed, a step of a request connects no client.
LEMMA StaysUnconnected ==
  ASSUME RequestInv, server = "closed", NEW q \in Gets, Serve(q),
         NEW r \in Gets, ~Connected(r)
  PROVE  ~Connected(r)'
  <1> USE DEF RequestInv, Typed, TypeOK
  <1>1. CASE TimerFires(q)
    BY <1>1 DEF TimerFires, Connected
  <1>2. CASE ClientMoves(q)
    BY <1>2 DEF ClientMoves, Connected
  <1>3. CASE (HandlerStep(q) \/ OtherRoute(q)) /\ pc[q] # "idle"
    <2>1. client' = client /\ pc[q] # "done"
      BY <1>3 DEF HandlerStep, OtherRoute, Start, PinnedResult, FetchFails, StatResult,
                  Chunk, Ends, Drain, WriteFails
    <2>2. CASE r = q
      <3>1. response[q] = "open"
        BY <2>1 DEF OpenUntilDone
      <3> QED
        BY <1>3, <2>1, <2>2, <3>1 DEF Connected
    <2>3. CASE r # q
      <3>1. pc'[r] = pc[r] /\ response'[r] = response[r]
        BY <1>3, <2>3, LeavesOthers
      <3> QED
        BY <2>1, <3>1 DEF Connected
    <2> QED
      BY <2>2, <2>3
  <1> QED
    BY <1>1, <1>2, <1>3 DEF Serve

LEMMA ServerInvNext == ServerInv /\ [ServerNext]_allVars => ServerInv'
  <1> SUFFICES ASSUME ServerInv, [ServerNext]_allVars PROVE ServerInv'
    OBVIOUS
  <1>0. RequestInv /\ CloseInv
    BY DEF ServerInv
  <1>1. ASSUME NEW q \in Gets, Serve(q)
        PROVE  ServerInv'
    <2>1. RequestInv'
      BY <1>0, <1>1, HandlerKeeps, OtherRouteKeeps, OthersKeep DEF Serve
    <2>2. UNCHANGED <<server, runtime>>
      BY <1>1 DEF Serve, serverVars
    <2>4. server = "closed" => \A r \in Gets : ~Connected(r)'
      BY <1>0, <1>1, StaysUnconnected DEF CloseInv
    <2>5. CloseInv'
      BY <1>0, <2>2, <2>4 DEF CloseInv
    <2> QED
      BY <2>1, <2>5 DEF ServerInv
  <1>2. CASE UNCHANGED vars
    <2>1. RequestInv'
      BY <1>0, <1>2, StutterKeeps
    <2>2. \A q \in Gets : Connected(q)' <=> Connected(q)
      BY <1>2 DEF Connected, vars
    <2>3. ASSUME NEW s \in Signals, Signal(s) \/ CloseReturns(s) \/ Exit(s)
          PROVE  CloseInv'
      BY <1>0, <2>2, <2>3 DEF Signal, CloseReturns, Exit, CloseInv
    <2>4. ASSUME ServerClosed PROVE CloseInv'
      BY <1>0, <2>2, <2>4 DEF ServerClosed, CloseInv
    <2>5. ASSUME UNCHANGED serverVars PROVE CloseInv'
      BY <1>0, <2>2, <2>5 DEF serverVars, CloseInv
    <2>6. ASSUME NEW q \in Gets, Serve(q)
          PROVE  CloseInv'
      BY <1>1, <2>6 DEF ServerInv
    <2> QED
      BY <2>1, <2>3, <2>4, <2>5, <2>6 DEF ServerInv, ServerNext, allVars
  <1> QED
    BY <1>1, <1>2 DEF ServerNext, allVars, Signal, CloseReturns, Exit, ServerClosed

LEMMA ServerInvInit == ServerInit => ServerInv
  BY InitRequests DEF ServerInit, ServerInv, CloseInv

\* With its server around them, responses stay whole or visibly broken, and
\* shutdown() stops the runtime only when no client waits for one any more
\* (server.ts closes the gateway before runtime.stop()).
THEOREM ServerSafe ==
  ServerSpec => [](TypeOK /\ BodyIsWholeOrBroken /\ RuntimeOutlivesRequests)
  <1>1. ServerInv => TypeOK /\ BodyIsWholeOrBroken /\ RuntimeOutlivesRequests
    BY DEF ServerInv, RequestInv, Typed, CloseInv, RuntimeOutlivesRequests
  <1> QED
    BY <1>1, ServerInvInit, ServerInvNext, PTL DEF ServerSpec
=============================================================================
