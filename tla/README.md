# helia-connectivity-lab: models, checks and proofs

TLA+ modules for the programs of this repository: the relay process with its
identity and its HTTP control plane, the IPFS gateway it serves, the bulk transfers
and the transport test that measure connections to it, and the browser page with
its in-browser node and its HTTP calls to relays.
TLC checks each module on small instances; TLAPS proves every safety property
of the passing runs for all values of the constants that their assumptions allow.

Source paths below are relative to the repository: `src/*.ts` is the relay and
the command line clients, `apps/pwa/src/` the page.

    tlc -workers 2 -config RelayProcess_safety.cfg MCRelayProcess
    tlapm RelayControlProofs.tla

## 1. The system

### Components

| component | source | state it keeps | operations | model |
| --- | --- | --- | --- | --- |
| Relay process and control plane | `server.ts`, `control-http.ts`, `relay-runtime.ts`, `libp2p-server-config.ts` | `runtime`, `activeOverrides`, the `serialQueue` promise, the pinning handlers taken at creation; per runtime a libp2p node and two LevelDB stores | boot; `POST /run/restart`, `/run/<kind>/<port>`, `/run/pubsub-discovery`; `scheduleRestart`; `startRelayRuntime`; `RelayRuntime.stop`; `shutdown` | `RelayControl`, `RestartQueue` |
| Standalone IPFS gateway | `ipfs-http-gateway.ts` | per request: response, abort timer, position in the file | `tryServeIpfsCat`: pinned lookup, stat, cat, write with backpressure, error mapping; the standalone server's other routes and its close at shutdown | `IpfsGateway`, `GatewayServer` |
| Bulk transfer client and framing | `transfer-dial.ts`, `stream-binary.ts`, `lib/browserNode.ts` | counters, deadlines, the reader's `carry`, the client's node | `dialBulkTransfer`, the page's `runBulk`, `ByteStreamReader.readExactly`, `readFramedChunk`, `encodeFrame` | `BulkTransfer` |
| Browser discovery and auto-dial | `lib/browserNode.ts` | `discoveryMap`, `autoDialInFlight`, `lastAutoDialFingerprint`, the notification timer | `peer:discovery`, `peer:update`, `connection:open`, discovery messages, `upsertDiscoveryRow`, `runAutoDialAttempt`, notification, `start`, `stop` | `BrowserDiscovery` |
| Browser page and node life cycle | `App.svelte`, `lib/browserNode.ts` | `busy`, `node`, `discoveryRows`, `bulkAbort` | the functions behind the buttons, `onMount`, `ensureNode` | `BrowserApp` |
| Browser to-do database | `lib/todoOrbitdb.ts`, `App.svelte` | the OrbitDB and database fields | `open`, `close`, the page's to-do functions | `BrowserApp` (life cycle) |
| Pinning HTTP | `pinning-http.ts` | none of its own | status, pins, `POST /pinning/sync` with its retries | `PageRelay` (the retries) |
| Relay identity | `relay-key.ts`, `server.ts` | the key file, which outlives the process | read or create at boot | `RelayProcess` |
| Address selection and filters | `public-multiaddr-filter.ts`, `lib/publicMultiaddrFilter.ts`, `lib/relayApi.ts` | none | pure functions | `Addresses` |
| Transport test | `transport-matrix.ts` | the chosen addresses, the result lines, the results file | status, rewriting and choosing addresses, four transports, bulk ladder, report | `TransportMatrix` |
| Echo dial and line framing | `echo-dial.ts`, `stream-line.ts`, `client.ts` | a line buffer, the dial's node | one line out, one line back | `TransportMatrix` |
| Browser HTTP client | `lib/relayApi.ts`, `App.svelte` | `status`, `httpBase`, `relayPinningInfo` on the page | `refreshHttp`, `restartRelay`, `checkRelayReplication`, `syncRelayReplication` and their `fetch` wrappers | `PageRelay` |
| Console logging, other command line tools, deployment, browser tests | | none that lasts | printing, argument loops, service files | no |

### How they interact

- The control server calls back into `server.ts` (`getRuntime`, `setRuntime`,
  `getOverrides`, `setOverrides`). Restart jobs and signal handlers share
  `runtime` only through these and interleave at every `await`.
- The gateway takes `getRuntime()` at the start of a request. A restart may stop
  that runtime while the request streams: in the model any fetch may fail at
  any time. When the control server does not run, the gateway has a server of its
  own, and `shutdown` closes it, which waits for every open response, before it
  stops the runtime.
- The bulk client and the relay's bulk handler talk over one libp2p stream that
  preserves neither message boundaries nor, in case of a reset, its tail.
- libp2p calls the browser node with events; the browser node calls the page's
  discovery callback, 50 ms later, with a copy of its table.
- The page asks a relay over HTTP and dials it with the addresses of the answer.
  The relay filters them by who seems to ask, the page by the base URL its text
  field holds when it dials; the two decide apart. The base may be edited, and
  another refresh started, while answers are on their way.
- The page's functions are async and share plain variables. `busy` disables
  most buttons; nothing else separates the functions.

### What is hard, and what makes each component correct

| component | hard behaviour | what must hold |
| --- | --- | --- |
| relay | a restart racing a shutdown, two shutdowns at once, a start that fails half way, a crash anywhere, overrides read at acceptance and applied later | a started node has its stores; one started node; restarts in order of their 202; `/status` tells the truth; a signal ends the process unless a response is held up for ever |
| identity | the process may die, or the disk be full, at any step of creating the key file | every node ever started has the same key |
| gateway | errors after the body has begun, an abort during a write, a client that stalls or leaves, a shutdown meanwhile | a body that ends is whole; no error after content; a cat ends or waits for its client; the runtime outlives the responses; a signal ends the process |
| bulk | bytes cut anywhere, altered lengths, lost tails, two deadlines, aborts, bad sizes | rounds end at frame boundaries; "ok" means intact and full length; the transfer ends |
| transport test | answers in any chunks or cut short, addresses that do not parse, a run ended half way | a report is whole; the process ends when its dials do |
| discovery | events during a dial, during `start` and after `stop`, dials and timers that outlive `stop` | one attempt per peer; nothing pending for ever; no stale table; no dial storm |
| page | functions that read shared variables again after an `await` | the kept node is alive and its table is shown; a transfer keeps its controller; `busy` is never left set; without overlap nothing is lost |
| page and relay | answers out of order, a base edited meanwhile, two filters, retries | what the page dials is the relay it read about; no caller loses the last address it can dial to a filter; "nothing" means nothing; calls end |

`PROJECT.json` lists the hazards line by line, each with the properties about it.

## 2. The modules

A step of a module is the code from one suspension point (`await`, callback,
event) to the next; between two steps anything else may run. "Mutant"
definitions beside an action are wrong versions of it, each made to break one
property; no behaviour of the specification uses them.

### RelayControl

`pc` says where `main`, the serial job and each signal handler are suspended;
`target` is the runtime each is starting or stopping. A runtime is named by what
created it (`Boot`, or the request whose job built it). Correspondence:

| model | code |
| --- | --- |
| `runtime`, `activeOverrides` | the variables of `main` in `server.ts` |
| `pinning` | the argument of `createSharedPinningHttpHandler`, read once in `startControlHttpServer` |
| `immediates`, `serialQueue`, `running` | `setImmediate` callbacks, the jobs chained by `runSerial`, the job in progress |
| `datastore`, `blockstore`, `node`, `listenOverrides` | fields of a `RelayRuntime` |
| `PostRun`, `PostTopic`/`TopicBody`, `Refuse` | the `POST /run/...` branches; only the topic route awaits (its body) before it accepts |
| `MountedRoute`, `ResponseEnds` | `/ipfs/<cid>` and `/pinning/...` on the control server; a response may be `held` by a client or by content that does not come |
| `JobBegin` ... `JobDone`/`JobFailed` | the job of `scheduleRestart`: stop, `setOverrides`, start, `setRuntime`, or the `catch` that only logs |
| `OpenDatastore` ... `CreateHandlers` | `startRelayRuntime`; an error leaves what is open open |
| `StopNode` ... `CloseDatastore` | `RelayRuntime.stop`; every error is caught |
| `Signal`, `CloseServers`, `Exit` | `shutdown`, run once per delivered signal; `control.close()` returns when no request of the server is `Unanswered` |
| `Crash`, `BootFailed`, `BootBegin` | the process dies and is started again by its supervisor |

Abstracted: ports and topics are members of `Values`; HTTP authentication,
parsing errors and unknown routes are the one action `Refuse`; of the mounted
routes only that their responses are open matters here (what they do is
`IpfsGateway`'s); the other read-only routes answer in one step and are left out. LevelDB's exclusive directory lock and
libp2p's start/stop are external and modelled from how the code uses them
(`libp2p.stop()` returns at once unless the node is started). `asked` and
`accepted` are history variables.

### RestartQueue

What the control plane promises: override sets are applied one at a time in the
order accepted, and the relay listens on what was applied last or not at all.
`RelayControl` implements it under the mapping `PendingOrders`,
`activeOverrides`, `ListeningOn` (property `ImplementsRestartQueue`).

### RelayProcess

Extends `RelayControl` with what `main` does first. `load` is where
`loadOrGenerateRelayPrivateKey` is suspended, `keyFile` what `RELAY_KEY_FILE`
holds: nothing, an empty file (`writeFile` has opened it), a part of a key, or a
key. `LoadFails` is an error or death at any of its steps. `ControlStep` is any step
of `RelayControl`, possible once the key is loaded; `Leaves` forgets it when the
process ends. `identities` is a history variable: the keys of all nodes started.
A part of a key never decodes as a key: the protobuf is cut short, and an Ed25519 key
of another length is refused. The ephemeral key of a process with neither setting is
left out, as it promises no identity.

### IpfsGateway

One handler per request over a file of `chunks[q]` chunks. `path` tells the two
streaming loops apart; the pinned one has no timer. `Caught` is the `catch` of
both: an error response while none has begun, `res.destroy()` afterwards. `Drain`
and `WriteFails` are the two ways the wait for backpressure ends; the client may
stall, come back or leave at any time. Chunk contents are left out.

### GatewayServer

The standalone server around `IpfsGateway`'s requests, in the mode without control
server: `Serve` is any step of a request while the process lives, `OtherRoute` the
handler's own 404 and 405. `Signal` is `shutdown()` up to `ipfsGateway.close()`,
`ServerClosed` the server's `'close'` event (Node's, external: all connections have
ended), `CloseReturns` and `Exit` the rest of `shutdown()`, once per signal. A
connection (`Connected`) lasts until its response is flushed or broken off; an idle
keep-alive connection is closed by Node at once and is left out. The stores and the
node of the runtime are `RelayControl`'s subject and are one value here. Mounted on
the control server, the same requests run beside restarts; `IpfsGateway` allows a
fetch to fail at any time for that.

### BulkTransfer

`client` says which of the two functions it is: `dialBulkTransfer` tests its sizes,
owns a node and compares every echo; the page's `runBulk` does none of these, but looks
at an abort signal before every frame. `sizes` are the bounds they were given,
`Lengths` what `randomPayload` makes of them, also the wrong way round, and `Quota`
what `crypto.getRandomValues` gives the page. The generator that feeds
`stream.sink` and the reader work byte for byte: a byte is a digit `0..Base-1`, a
frame's length `HeaderBytes` digits, each times a `Power` of the base. `NextChunk` cuts what has arrived anywhere,
`Echo` is the relay's handler (external) which may change any one byte, `StreamEnds`
a timeout or reset that may lose a tail. `clock` passes `transferEnd` and then
`hardDeadline`. Only one frame is ever on its way, because the generator waits for
each echo. The page's copy of the reader is the same code without the signal its
original takes and this program never passes.

### TransportMatrix

One run of `transport-matrix.ts`. `picks` is one address per transport, after
`rewriteLoopbackToDialHost` and `filterByDialHost`; an address is its transport, its
family and its host, and `Parses` says whether `multiaddr()` accepts the result of
rewriting. `at` is where the current dial is: `dialEchoOnce` with `readLine` over a
stream that delivers the answer in any chunks or only its beginning, or
`dialBulkTransfer`, of which only the result matters here. `left` counts nodes that
were started by a dial that then threw before its `try` block; such a node listens
and keeps the process alive. The answer is cut into tokens, so that a chunk may end
inside `echo:`. The command line and the report's wording are left out.

### BrowserDiscovery

`upsertDiscoveryRow` runs without an `await` up to the first dial of the attempt
it may start, so an event is one step (`Upsert`). Four events lead to it:
`Discovered`, `Updated`, `ConnectionOpened` and `PubsubMessage`; `phase` says how far
`start` or `stop` is, and with it which listeners exist, also when `start` throws
and leaves a started libp2p behind (`leaked`). Dials settle in steps of their
own; `Notify` is the 50 ms timer; `StopBegins` and `StopEnds` are the two sides
of `stop`'s awaits. An advert is a set of addresses, an address the set of its
protocols, of which `Dialable` looks for those the code looks for. Row texts,
flash deadlines and the debug log are left out, and so is a `stop` before `start`
has returned, which only overlapping page functions cause (`BrowserApp`).

### Addresses

The filters and choices as operators. An address is the kind of its host (loopback,
private, public, a name) and the protocols on top, as far as the code tells them
apart. `Pick` is a set, because the code takes the first of a list whose order
nothing defines.

### PageRelay

The calls behind the page's relay buttons, each a chain of fetches (`pc`), with
what they took when they began (`asked`) and what they leave on the page (`status`,
`info`). `RelayStatus` is `GET /status` of `control-http.ts` with the relay's filter; the
runtime it asks may run, be stopping, or be stopped, so `RelayAddrs` gives each relay
several answers of `getMultiaddrs`, `{}` among them. A status records, as a history, what
was `announced`. A base URL is a relay, whether `isLocalRelayHttpBase` takes it for a local one,
whether it is only a path, and for whom the relay takes the requester (the socket, or
what a proxy says). `FallbackAnswered` is the `/multiaddrs` of some other program,
`SyncAttempt` one round of the retry loop of `pinning-http.ts`. That file's
handler is written for the relay, as `architecture.md:333` says, but `control-http.ts`
mounts the one of `orbitdb-relay-pinner` for these routes; the model takes the
repository's own. `outcomes` is a history variable. Numbers, tokens and wording are
left out.

### BrowserApp

Every click starts a call; `calls[c]` records where it is and its locals. Steps
that wait for the outside come when they like (`Quiet`); steps in between
finish before the next event, as promise callbacks do before the browser
handles the next click. A node, a database and an AbortController are
named by the call that made them. What a dial answers is left out, since every
function goes on to its `finally` block either way. `filePicked` and `disturbed`
are history variables. "check" stands for the two buttons that `busy` disables but
whose functions never set it (`SetsBusy`); they overlap with everything, read nothing
another function writes but the database's address, and are followed by `PageRelay`.
`close()` waits twice, for the database and for OrbitDB (`Closing`, `OrbitStopped`).
The node's notification timer may fire whenever the node
exists, which is coarser than the code; the page being closed is left out.

## 3. The runs

| run | instance | what it shows |
| --- | --- | --- |
| `relay_safety` | `RelayProcess` with a key file: 3 requests, 2 signals, 1 value, 1 I/O error of a runtime, 2 new keys, any crashes; symmetry | every safety property of the relay, the refinement of `RestartQueue`, one identity |
| `relay_liveness` | `RelayProcess` with the key from the environment: 2 requests, 2 signals, 1 I/O error | accepted requests are served; a signal ends the process, unless a response on the control server is held up for ever |
| `relay_pinning` | violation | after a restart, pinning requests go to the stopped runtime's handlers |
| `relay_topic` | violation | a restart accepted while a topic change is queued takes the topic back |
| `gateway` | `GatewayServer` with 2 requests, of 0 or 2 chunks and of 1, and 2 signals | responses are whole or visibly broken; a shutdown waits for them, and for what |
| `gateway_timeout` | violation | a cat waiting for a stalled client ignores its timer |
| `bulk` | 2 rounds by either client, base 2, 2-byte header, three pairs of sizes | what is counted and reported is what came back, and the transfer ends |
| `bulk_deadline` | violation | a read in flight outlasts the hard deadline |
| `matrix` | 4 status lists, 3 kinds of `--dial` value, echo, fixed and the ladder of six | a report is whole; the process ends if the addresses it picked parse |
| `discovery` | 2 peers, 2 adverts, 3 events about one peer and 1 about the other | one dial per peer, nothing pending for ever, no old table |
| `app` | `onMount` and 3 clicks on any button; symmetry | shared variables stay usable; `busy` is set by a function that clears it; without overlap nothing is lost |
| `page_relay` | 2 calls, 3 relays, running or stopped, 5 bases, 1 database | what the page dials reaches the relay it read about, and the filters leave it what it can dial; syncs tell the truth and end |

### The bounds and why they are enough

- Three requests: one whose job runs, one in the promise chain and one in
  `setImmediate`, so queues have neighbours on both sides. The liveness run has
  two, which is one waiting behind another. Two signals race with each other and
  with the job. Crashes are not bounded; `MaxFaults = 1` puts one I/O error at
  any point. One value per field is enough because overrides differ by their
  domains; symmetry over requests, signals and values is sound, as no definition
  names one of them, and is not used in the liveness run.
- Gateway requests share no state but the server they hold open, so two are
  enough for one that ends and one that does not. Two chunks give a first, a last
  and a write between them; zero is the empty file. Two signals race in `close`.
- Bulk: base 2 with a 2-byte header expresses lengths 0 to 3, hence an altered
  length can be zero, shorter, longer, and above `MaxPayload = 2`. Two rounds
  show that nothing leaks from one to the next. The sizes are in order, with an empty
  payload, and the wrong way round; `Quota` is the maximum, above which nothing
  may be sent anyway.
- Key file: two keys that may be generated are one more than a relay should ever
  use. Errors of the key file are not bounded.
- Transport test: the status lists hold loopback only, both families, names and
  unknown forms, and nothing; the values of `--dial` are an IPv4 address, an IPv6
  address and a name. The answer has four tokens, so every cut that matters to
  `echo:`, to the message and to the line feed happens. The ladder is the code's.
- Discovery: three events allow an event that starts a dial, one during it and
  one after it; the other peer shares only the timer, which its one event can start.
- Page and relay: two calls overlap in every way, and a third would only repeat
  one of them, since a call reads nothing of another but `status` and `busy`. The
  relays are one on the page's machine, one in its network and one far away with a
  TLS name, each running or stopped; the bases are a loopback URL, a LAN URL, the path of
  the dev server's proxy on another machine, a public URL, and a public URL behind a proxy that hides the requester.
- Page: three clicks beside `onMount` allow a chain in which the third call reads
  what two overlapping ones left. Every class of button is enabled.

`CHECK_DEADLOCK FALSE` is set where the model may really come to rest: a response
ended, a transfer returned, no events left, all clicks used. The relay is checked
for deadlock.

### Fairness

- Relay: the event loop runs what is queued, and every promise the code awaits
  settles (stores, `libp2p.stop()`); a response that nothing holds up ends
  (`ResponseEnds`: a cat has its timer, and each block that is there is sent). None for
  clients, which need neither send a body nor read a response, nor for content that
  never comes, signals, crashes or a supervisor. Node's `requestTimeout` is not
  relied on: `server.close()` stops the timer that enforces it.
- Gateway: timers fire, an aborted fetch rejects, a buffer a client reads drains,
  an emitted error is handled; the server closes when no connection is left, and
  `runtime.stop()` returns. A block or the pinned lookup may never come, and a client
  may stall for ever.
- Bulk: the client runs and time passes. `TransferEnds` also needs the relay's
  handler to end an idle stream (`readTimeoutMs`, `idleTimeoutMs` in
  `relay-runtime.ts`); `bulk_deadline` is checked without that, because the hard
  deadline is the client's own.
- Discovery: libp2p settles every dial (it has a dial timeout) and due timers fire.
- Page and relay: a fetch is answered or its connection breaks. Each call has its own
  fairness; `CallsEnd` needs the retries to be counted.
- Transport test: its promises settle. The echo dial has no time limit of its own, so
  `RunEnds` also needs that a stream does not stay silent for ever.
- The page has no liveness properties.

### What the violation runs found

1. `relay_pinning`: `control-http.ts:149` reads `getRuntime().pinning` once;
   `README.md:109` says each request uses the current runtime.
2. `relay_topic`: `control-http.ts:238` computes overrides at acceptance from
   what `setOverrides` (line 184) has not yet changed; two 202s, one effect.
3. `gateway_timeout`: the wait for `'drain'` (`ipfs-http-gateway.ts:146`) listens
   to neither the signal nor `'close'`; `README.md:98` promises a maximum time.
4. `bulk_deadline`: the test at `transfer-dial.ts:87` sits inside a loop that ends
   earlier than the deadline it tests; the comment at line 28 speaks of reads.

Seen while modelling, without a run of their own: `README.md:52` says that the
`multiaddrs` of `GET /status` are filtered to public addresses, while
`filterMultiaddrsForStatusRequest` (`public-multiaddr-filter.ts:58`) gives a caller on
the loopback interface all of them, private and loopback ones included, which
`CallersCanDial` takes for what is meant, as the comment above the function does;
`App.svelte:785` disables "Abort bulk" while `busy`, which `runBulkOn` holds for as
long as it transfers; the page's transfer reports success whatever the echoes
contained, where `README.md:269` says of the command line's that "the client verifies
every round-trip"; and with a base that is only a path, as `apps/pwa/.env.example:4`
offers, every replication check ends in an error, because `fetchPinnedDatabase` builds
a `URL` from it (`LookupStep`).

Weaker facts that hold, and are stated as such: a shutdown of the standalone gateway
ends unless a connected client does not read its response or waits for pinned content,
and one of the control server unless such a response of its mounted routes, or a topic
body, never ends (`HoldsShutdown` in both `SignalEndsProcess`). Under a base that is
not local everything the page dials is public, whatever status it shows; under a local
base it dials the relay it read about only if the status is of that base, came from
`GET /status`, and the relay takes only callers on its own machine for local ones
(`OwnStatus` in `PickReachesRelay`). Otherwise it may dial its own machine or network:
the user has edited the base to a local one and the private addresses of the status
before come through, or the page of the dev server is opened on another device, for
which the server forwards `/__relay` from its own. `GET /status` asks the current
runtime, which is stopped during a restart and after one that failed, and
`restartRelay` reads it right after the 202, so the page may show no addresses at all;
`CallersCanDial` says that the filters do not take away the last one a runtime
announced. A start that fails after opening a store blocks all later restarts of the
process (`OrphanBlocksRestarts`). Of the functions that set `busy`, one runs at a time
as long as no file is picked (`BusyIsTrue`); an upload neither waits for `busy` nor
restores it, and the two replication buttons (`App.svelte:1080-1081`) are disabled by
`busy` without ever setting it, so those overlap with one another and with the rest.
The transport test ends by itself only if the addresses it picked parse, which they do
not for a `--dial` name put in the place of a loopback IPv4 address (`RunEnds`;
`README.md:290` allows "IP or DNS"). Overlapping page functions can leave a running
node nobody keeps (`AloneNothingIsLost` holds as long as no two that set `busy`
overlap), and a start that fails after libp2p runs leaves that node behind even alone.

## 4. The proofs

Every invariant and every action property of the passing runs is also a theorem,
for all values of the constants that the named assumptions allow, and so is the
refinement of `RestartQueue`. Each proof module states one inductive invariant `IInv`
(TLC checked it first), shows conjunct by conjunct that every action keeps it, and
joins that by one temporal step per theorem.

### RelayControlProofs

For all sets of requests, signals, fields and values and any bound on I/O errors:

| theorem | property |
| --- | --- |
| `TypeCorrect` | `Spec => []TypeOK` |
| `StoresSafe` | `Spec => []StoresOutliveNode`: a started node has both stores open |
| `OneNodeAtATime` | `Spec => []OneNode`: two nodes are never started at once |
| `StatusIsTrue` | `Spec => []StatusMatchesRuntime` |
| `DownIsExplained` | `Spec => []DownHasACause` |
| `ExitIsClean` | `Spec => []CleanExit` |
| `OrphansBlock` | `Spec => OrphanBlocksRestarts` (an action property) |
| `RestartQueueImplemented` | `Spec => ImplementsRestartQueue`, the refinement |

The only assumption is `ConstantsAssumption`: the topic is one of the fields, the
bound is a natural number, and the names of processes and runtimes are distinct.

`TypeOK` becomes inductive with `JobHasRequest` (a busy job has a request). The two
theorems about stores need to know what the code never says in one place, and `IInv`
is their common invariant:

- `StepInv`: where each function can be, that nothing but `main` runs before boot
  has ended, and that the current runtime has had its node started (or has failed to).
- `StartInv`: what a function that starts a runtime has done by each step: the
  node is new until `startNode`, and the stores opened so far are still open.
- `StopInv`: a function that stops a runtime has one whose node is no longer new,
  and once it has called `libp2p.stop()` that node is not started. So two
  `stop` calls on one runtime cannot close a store under a started node: each closes
  stores only after its own call of `libp2p.stop()`, and a node is started only
  when new.
- `FreshInv`: the runtime a request will get does not exist before its job starts it.
- `QueueInv`: a request waits at one place at most, so no runtime is built twice.
- `ExclusiveInv`: LevelDB's lock; at most one runtime has the datastore open, and
  at most one the blockstore.

With these, `StoresOutliveNode` is inductive: nobody closes the stores of a runtime
that is being started, because that runtime is new and stopped ones are not.
`OneNode` then follows at once: two started nodes would both have the
datastore open, which `ExclusiveInv` forbids. `FreshInv` and `QueueInv` are what keep
the job from starting a runtime that a shutdown is stopping.

The other theorems are about what the control plane promises. `SInv` adds to `IInv`:

- `CurrentInv`: the job stops the current runtime and starts one that nobody else
  has; before boot there is no current runtime.
- `OverridesInv`: a started current runtime listens on `activeOverrides`. The two are
  assigned at different steps, so it says what they are at each step between.
- `TidyInv`: without I/O errors only one runtime has anything open, the one being
  started or the current one.
- `ServedInv`: `accepted` is the finished requests followed by the waiting ones, in
  order, wherever they wait: in `setImmediate`, in the chain or in the job.
- `OutcomeInv`: a relay that is down with no job had its last restart fail.

In the refinement, accepting a request appends an order, `setOverrides` applies the
first one, `libp2p.stop()` takes the relay down, and the end of the job, good or bad,
takes the order away; every other step stutters. Half of the work is `Waiting`, which
joins the places where a request waits: moving from one to the next leaves it as it is.

### RelayProcessProofs

For any set of keys, on top of the above:

| theorem | property |
| --- | --- |
| `ProcessIsRelay` | `ProcessSpec => Spec`: loading the key is invisible to `RelayControl`, so all its theorems carry over |
| `ProcessSafe` | `ProcessSpec => [](StoresOutliveNode /\ OneNode)` |
| `ProcessServes` | the other theorems of `RelayControlProofs`, of the whole process |
| `SameIdentity` | `ProcessSpec => []OneIdentity` |

It adds `KeyAssumption`: the contents of the file that are no key, and the key of the
environment, differ from the keys that may be generated. `OneIdentity` compares keys
of nodes; `KeyInv` says where they come from. Its part `FileInv` is the argument: the
nodes started so far have the key the file holds, the loaded key is that one, and
while a key is being created no node has been started yet, because the file held no
key. An interrupted write may therefore lose a key, but only one nobody has seen.

### GatewayServerProofs

For any number of requests and signals and files of any length (`SizesAssumption`):

| theorem | property |
| --- | --- |
| `TypeCorrect` | `Spec => []TypeOK` of `IpfsGateway` |
| `WholeOrBroken` | `Spec => []BodyIsWholeOrBroken` of `IpfsGateway` |
| `ServerSafe` | the same two of `ServerSpec`, and `[]RuntimeOutlivesRequests` |

A response is open exactly until its handler is done, its status stays 200 while it
is, and nothing is written before the first chunk (`OpenUntilDone`). So an
error response, which needs an unwritten body, and a complete one, which needs a
written one, exclude each other in both loops. `CloseInv` adds that a closed
server has no connected client and that the runtime is stopped only behind it; the
handlers that still run then serve clients that are gone.

### BulkTransferProofs

For every base, header length, limit, pair of sizes and number of rounds
(`SizeAssumption`: the largest payload fits the header):

| theorem | property |
| --- | --- |
| `LengthRoundTrip` | `DecodeLength(EncodeLength(n)) = n` for every `n` that fits |
| `TypeCorrect` | `Spec => []TypeOK` |
| `RoundsAtFrames` | `Spec => []RoundsEndAtFrames` |
| `OkIsIntact` | `Spec => []OkMeansIntact` |

The first half is about the codec: `DecodeLength` is injective on headers
(`DecodeInjective`), so an altered length is never taken for the right one. The
induction it needs is over sets of natural numbers, through their least element
(`LeastElement`, `InductionUpTo`), since the library's induction theorems take an
operator and cannot be used.

The second half follows the bytes. `WireInv` says of the frame on its way that it
is unanswered, or that what the client has read of the echo (`out`), holds (`carry`)
and may still get (`down`), with a header already consumed before it and a lost tail
after it, is as long as the frame, and differs from it exactly if `altered`. The
client takes an echo only when its header decodes to the payload's length and, on the
command line, its bytes are the payload's; then nothing is left behind it
(`IdleInv`) and nothing was altered. The page compares nothing, so its invariant is
about transfers in which no echo was altered (`Tracked`), as `RoundsEndAtFrames` is.
`++` is `\o` under a name of its own: the provers are given its laws, not its definition.

### TransportMatrixProofs

For all status lists, `--dial` values, ladders and answers (`MatrixAssumption`):

| theorem | property |
| --- | --- |
| `TypeCorrect` | `Spec => []TypeOK`: what was read is a beginning of the answer |
| `ReportWhole` | `Spec => []ReportIsWhole` |

`LinesInv` splits the lines at `Cut`: below it are whole blocks of the transports
done, in order; above it the rungs that the current transport has climbed, all
"OK" and one less than `rung`. So a ladder that ends with an "OK" has a line for each
rung (`BlockIsWhole`), and a line of one transport leaves the blocks of the others
whole (`WholeKept`) and in order (`OrderKept`). `PhaseInv` and `ResultInv` say
that a dial belongs to the head of `todo`, which has an address, and what it may end
with; `LeftInv` that a dial leaves one node behind at most.

### BrowserDiscoveryProofs

For all sets of peers and adverts and any number of events:

| theorem | property |
| --- | --- |
| `TypeCorrect` | `Spec => []TypeOK` |
| `OneAttempt` | `Spec => []OneAttemptPerPeer` |
| `PendingDialled` | `Spec => []PendingIsDialing` |
| `TableIsShown` | `Spec => []StaleTableIsRefreshed` |
| `StoppedStaysEmpty` | `Spec => []StoppedIsEmpty` |
| `NoDialStorm` | `Spec => NoRepeatedDial` (an action property) |

`IInv` is `TypeOK` and the four invariants, which are inductive together and not
alone: a dial that comes back takes its peer out of `dialing` without looking whose
attempt it was, which leaves no other attempt of that peer behind only because there
was none (`OneAttemptPerPeer`), and no row "pending" only because it settles that row.
`Event` collects the four events that upsert a row, so that most facts are
proved once for all of them. `NoRepeatedDial` needs only the types: the fingerprint is
recorded in the same step that begins the dial.

### BrowserAppProofs

For any number of clicks and any set of buttons:

| theorem | property |
| --- | --- |
| `TypeCorrect` | `Spec => []TypeOK` |
| `KeptNodeAlive` | `Spec => []KeptNodeIsAlive` |
| `ControllersKept` | `Spec => []BulkKeepsItsController`: of the controller, not of the button that is disabled |
| `BusyFlagIsTrue` | `Spec => []BusyIsTrue` |
| `NothingLostAlone` | `Spec => []AloneNothingIsLost` |

`StepInv` says which function passes where, `InstInv` what has become of the node
that each step is about, `BulkInv` that a transfer has a controller. `BusyInv` ties
the flag to the functions that set it: set, it has one that will clear it; and as
long as no file is picked it is set while one runs. `AloneInv` is the
substance of `NothingLostAlone`: a function that runs alone finds `node` and `db`,
which it reads again after each `await`, as its own last step left them.

### PageRelayProofs

For all relays, bases, databases and numbers of calls:

| theorem | property |
| --- | --- |
| `TypeCorrect` | `Spec => []TypeOK` |
| `NothingMissed` | `Spec => []NothingMeansNothing` |
| `DialsTheRelay` | `Spec => []PickReachesRelay` |
| `CallersAreServed` | `Spec => []CallersCanDial` |

`StatusInv` is the argument: the status on the page is always what its own base told,
through that base's filter and rewriting, never a mixture of two answers. From there
the theorems are facts about the filters: rewriting leaves public addresses alone
(`Addresses`), and neither filter takes away the last address a caller can dial. Both
hold for whatever sets of addresses a runtime may announce, the empty one included, and
assume nothing about who is where: `PickReachesRelay` asks it of the base in question.

### Model-checked only

Liveness is out of the prover's reach, with `ENABLED`: `AcceptedIsServed` and
`SignalEndsProcess` (of the relay and of the gateway), `CatEndsOrWaitsForClient`,
`TransferEnds`, `RunEnds`, `PendingSettles` and `CallsEnd` are checked on the
instances of section 3. The violation runs are TLC's alone.

## 5. What is planned

- Safety facts that the liveness properties rest on: that a run whose addresses all
  parse leaves no node behind, that the retries of a sync are bounded, that an
  attempt in flight has a row to settle.
- The composition of the gateway's requests with the relay's restarts.

## 6. Not modelled

- The read-only routes (`/health`, the pinning stats and listing) and CORS change no
  state and answer in one step.
- `webrtcAddrs.ts`, `peer-multiaddr-validate.ts` and `transportLabel` classify strings
  for display or refuse what the user pasted; no state depends on them.
- The ephemeral key of a relay without key setting, which promises no identity.
- Documents put into and removed from the to-do database: OrbitDB merges them.
- `client.ts` and the other command line tools are loops around the dials modelled here.

Left out for good: the contents of blocks, documents and messages, libp2p's own
protocols, HTTP wording and CORS, console output, command line argument handling,
service files and browser tests.
