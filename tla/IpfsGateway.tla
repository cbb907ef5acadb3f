---------------------------- MODULE IpfsGateway ----------------------------
(***************************************************************************)
(* The standalone IPFS gateway of src/ipfs-http-gateway.ts: one run of     *)
(* tryServeIpfsCat per GET /ipfs/<cid>, first from the relay's pinned      *)
(* content, then with unixfs stat and cat under an abort timer.            *)
(*                                                                         *)
(* The content is a number of chunks.  The peer of the HTTP connection may *)
(* stop reading or go away; blocks may never arrive, or fail to, for any   *)
(* reason (among them a restart that stops the runtime the request took).  *)
(***************************************************************************)
EXTENDS Naturals

CONSTANTS
  Gets,        \* requests
  Sizes        \* how many chunks the file each of them asks for may have

ASSUME SizesAssumption == Sizes \in [Gets -> SUBSET Nat]

VARIABLES
  pc,         \* where the handler of each request is suspended
  chunks,     \* how many chunks the requested file has
  written,    \* how many of them were passed to res.write
  path,       \* the loop that writes them: from pinned content, or unixfs.cat
  status,     \* res.statusCode
  response,   \* what happened to the response
  timer,      \* the timeout of tryServeRuntimeUnixfsCat
  client,     \* the other end of the connection
  writeError  \* an 'error' event of the response is about to be emitted

vars == <<pc, chunks, written, path, status, response, timer, client, writeError>>

Steps == {"idle", "pinnedLookup", "stat", "chunk", "drain", "done"}

Init ==
  /\ pc = [q \in Gets |-> "idle"]
  /\ chunks \in {c \in [Gets -> UNION {Sizes[q] : q \in Gets}] :
                 \A q \in Gets : c[q] \in Sizes[q]}
  /\ written = [q \in Gets |-> 0]
  /\ path = [q \in Gets |-> "none"]
  /\ status = [q \in Gets |-> 200]
  /\ response = [q \in Gets |-> "open"]
  /\ timer = [q \in Gets |-> "off"]
  /\ client = [q \in Gets |-> "reading"]
  /\ writeError = [q \in Gets |-> FALSE]

Goto(q, step) == pc' = [pc EXCEPT ![q] = step]
HeadersSent(q) == written[q] > 0 \/ response[q] # "open"

----------------------------------------------------------------------------
\* The response.

\* finally { clearTimeout(timeout) }
ClearTimeout(q) ==
  timer' = [timer EXCEPT ![q] = IF timer[q] = "armed" THEN "off" ELSE @]

\* sendGatewayError, and the 500 of tryServeIpfsCat.
Fail(q, code) ==
  /\ status' = [status EXCEPT ![q] = code]
  /\ response' = [response EXCEPT ![q] = "error"]
  /\ Goto(q, "done")
  /\ ClearTimeout(q)

\* Mutant: an error in mid-stream ends the response instead of destroying it.
CaughtEnds(q, code) ==
  IF HeadersSent(q)
  THEN /\ response' = [response EXCEPT ![q] = "ended"]
       /\ Goto(q, "done")
       /\ ClearTimeout(q)
       /\ UNCHANGED status
  ELSE Fail(q, code)

\* The catch of both functions: an error response while none has begun, else
\* res.destroy(), so that the client sees a broken body and not a short one.
Caught(q, code) ==
  IF HeadersSent(q)
  THEN /\ response' = [response EXCEPT ![q] = "destroyed"]
       /\ Goto(q, "done")
       /\ ClearTimeout(q)
       /\ UNCHANGED status
  ELSE Fail(q, code)

\* gatewayErrorStatus: an aborted fetch is 504 when its message says "abort",
\* but the abort reason itself, "gateway timeout", is one of the 502s.
FetchErrors(q) == IF timer[q] = "fired" THEN {504, 502} ELSE {404, 502}
Errors(q) == IF path[q] = "cat" THEN FetchErrors(q) ELSE {500}

----------------------------------------------------------------------------
\* tryServeIpfsCat.

\* The branch without streamPinnedCid or with a 404 from it.
UnixfsBegin(q) ==
  \/ \* Helia is null, or the CID does not parse
     /\ \E code \in {503, 400} : Fail(q, code)
     /\ UNCHANGED path
  \/ /\ timer' = [timer EXCEPT ![q] = "armed"]
     /\ path' = [path EXCEPT ![q] = "cat"]
     /\ Goto(q, "stat")
     /\ UNCHANGED <<status, response>>

Start(q) ==
  /\ pc[q] = "idle"
  /\ \/ /\ Fail(q, 400)            \* parseIpfsRequest refuses the path
        /\ UNCHANGED path
     \/ /\ Goto(q, "pinnedLookup")
        /\ UNCHANGED <<path, status, response, timer>>
     \/ UnixfsBegin(q)             \* no pinning handlers
  /\ UNCHANGED <<chunks, written, client, writeError>>

\* await runtime.pinning.streamPinnedCid(...); nothing bounds the wait.
PinnedResult(q) ==
  /\ pc[q] = "pinnedLookup"
  /\ \/ /\ path' = [path EXCEPT ![q] = "pinned"]
        /\ Goto(q, "chunk")
        /\ UNCHANGED <<status, response, timer>>
     \/ UnixfsBegin(q)
     \/ /\ \E code \in {400, 500} : Fail(q, code)   \* another status, or it throws
        /\ UNCHANGED path
  /\ UNCHANGED <<chunks, written, client, writeError>>

\* Mutant: unixfsOpts carries no signal.
FetchFailsUnsignalled(q) ==
  /\ pc[q] \in {"stat", "chunk"}
  /\ timer[q] # "fired"
  /\ \E code \in Errors(q) : Caught(q, code)
  /\ UNCHANGED <<chunks, written, path, client, writeError>>

\* stat or the next chunk fails, as it may at any time and, unless what it
\* waits for arrives first, does after the signal is aborted.
FetchFails(q) ==
  /\ pc[q] \in {"stat", "chunk"}
  /\ \E code \in Errors(q) : Caught(q, code)
  /\ UNCHANGED <<chunks, written, path, client, writeError>>

StatResult(q) ==
  /\ pc[q] = "stat"
  /\ \/ /\ Fail(q, 400)            \* a directory
     \/ /\ Goto(q, "chunk")
        /\ UNCHANGED <<status, response, timer>>
  /\ UNCHANGED <<chunks, written, path, client, writeError>>

\* Mutant: the loop runs once too often.
ChunkOffByOne(q) ==
  /\ pc[q] = "chunk"
  /\ written[q] <= chunks[q]
  /\ written' = [written EXCEPT ![q] = @ + 1]
  /\ UNCHANGED <<pc, chunks, path, status, response, timer, client, writeError>>

\* A chunk arrives and res.write takes it.  While the client reads, the write
\* may or may not fill the buffer; to a connection that is gone it returns
\* false and emits 'error' in the next tick.
Chunk(q) ==
  /\ pc[q] = "chunk"
  /\ written[q] < chunks[q]
  /\ written' = [written EXCEPT ![q] = @ + 1]
  /\ \/ client[q] # "gone" /\ UNCHANGED <<pc, writeError>>
     \/ client[q] # "gone" /\ Goto(q, "drain") /\ UNCHANGED writeError
     \/ /\ client[q] = "gone"
        /\ Goto(q, "drain")
        /\ writeError' = [writeError EXCEPT ![q] = TRUE]
  /\ UNCHANGED <<chunks, path, status, response, timer, client>>

\* The loop is over: res.end().
Ends(q) ==
  /\ pc[q] = "chunk"
  /\ written[q] = chunks[q]
  /\ response' = [response EXCEPT ![q] = "ended"]
  /\ Goto(q, "done")
  /\ ClearTimeout(q)
  /\ UNCHANGED <<chunks, written, path, status, client, writeError>>

\* res.once('drain', resolve)
Drain(q) ==
  /\ pc[q] = "drain"
  /\ client[q] = "reading"
  /\ Goto(q, "chunk")
  /\ UNCHANGED <<chunks, written, path, status, response, timer, client,
                 writeError>>

\* res.once('error', reject); a client that leaves during the wait causes
\* 'close', which nobody listens to.
WriteFails(q) ==
  /\ pc[q] = "drain"
  /\ writeError[q]
  /\ writeError' = [writeError EXCEPT ![q] = FALSE]
  /\ Caught(q, 500)
  /\ UNCHANGED <<chunks, written, path, client>>

HandlerStep(q) ==
  Start(q) \/ PinnedResult(q) \/ FetchFails(q) \/ StatResult(q)
    \/ Chunk(q) \/ Ends(q) \/ Drain(q) \/ WriteFails(q)

\* setTimeout(() => controller.abort(...), cfg.catTimeoutMs)
TimerFires(q) ==
  /\ timer[q] = "armed"
  /\ timer' = [timer EXCEPT ![q] = "fired"]
  /\ UNCHANGED <<pc, chunks, written, path, status, response, client, writeError>>

----------------------------------------------------------------------------
\* The client.

\* There is a connection until the response is flushed or broken off, which a
\* client that does not read puts off for ever.
Connected(q) ==
  /\ pc[q] # "idle"
  /\ client[q] # "gone"
  /\ \/ response[q] = "open"
     \/ response[q] \in {"ended", "error"} /\ client[q] = "stalled"

ClientMoves(q) ==
  /\ Connected(q)
  /\ \/ client[q] = "reading" /\ client' = [client EXCEPT ![q] = "stalled"]
     \/ client[q] = "stalled" /\ client' = [client EXCEPT ![q] = "reading"]
     \/ client[q] # "gone" /\ client' = [client EXCEPT ![q] = "gone"]
  /\ UNCHANGED <<pc, chunks, written, path, status, response, timer, writeError>>

Next == \E q \in Gets : HandlerStep(q) \/ TimerFires(q) \/ ClientMoves(q)

Spec == Init /\ [][Next]_vars

\* Timers fire, an aborted fetch rejects, a readable buffer drains and an
\* emitted error is handled.  A block or a pinned lookup may never arrive, and
\* a client may stall for ever.
Settles(q) ==
  \/ TimerFires(q)
  \/ timer[q] = "fired" /\ FetchFails(q)
  \/ Drain(q)
  \/ WriteFails(q)

Fairness == \A q \in Gets : WF_vars(Settles(q))

FairSpec == Spec /\ Fairness

----------------------------------------------------------------------------
\* Properties.

\* Every variable has its type.
TypeOK ==
  /\ pc \in [Gets -> Steps]
  /\ \A q \in Gets : chunks[q] \in Sizes[q] /\ written[q] \in 0..chunks[q]
  /\ path \in [Gets -> {"none", "pinned", "cat"}]
  /\ status \in [Gets -> {200, 400, 404, 405, 500, 502, 503, 504}]
  /\ response \in [Gets -> {"open", "error", "ended", "destroyed"}]
  /\ timer \in [Gets -> {"off", "armed", "fired"}]
  /\ client \in [Gets -> {"reading", "stalled", "gone"}]
  /\ writeError \in [Gets -> BOOLEAN]

\* A response that ends as a complete 200 carries the whole file, whatever
\* aborts, write errors and timeouts happened on the way, and an error status
\* and its text never follow content that was already sent.
BodyIsWholeOrBroken ==
  \A q \in Gets :
    /\ response[q] = "ended" => status[q] = 200 /\ written[q] = chunks[q]
    /\ response[q] = "error" => written[q] = 0

----------------------------------------------------------------------------
\* What the documentation says and the code does not do.

\* README.md:98: RELAY_IPFS_CAT_TIMEOUT_MS is the maximum time for a single
\* cat stream, so one whose timer has fired ends.
CatEndsInTime == \A q \in Gets : timer[q] = "fired" ~> pc[q] = "done"
=============================================================================
