-------------------------- MODULE TransportMatrix --------------------------
(***************************************************************************)
(* One run of the transport test, src/transport-matrix.ts, with the echo   *)
(* dial (echo-dial.ts, stream-line.ts) it makes of each transport.  A bulk *)
(* dial is BulkTransfer, seen here only as what it returns.                *)
(*                                                                         *)
(* A multiaddr is the transport it offers and its host.  A text is a       *)
(* sequence of tokens: the relay's answer is Tag, Message and LF, each in  *)
(* pieces that the stream may deliver in any chunks or not at all.  The    *)
(* wording of the report is left out, and so is the command line.          *)
(***************************************************************************)
EXTENDS Naturals, SequencesExt

CONSTANTS
  Statuses,      \* multiaddrs lists that GET /status or the status file may give
  Ip4, Ip6,      \* host addresses other than loopback
  Dns,           \* host names
  DialHosts,     \* values of --dial
  Ladder,        \* BULK_LADDER_SEC
  Tag, Message,  \* "echo:" and the message, in pieces
  LF

VARIABLES
  phase,     \* where main() is
  dialHost,  \* --dial
  plan,      \* "echo", or the BulkPlan: "fixed" or "escalate"
  picks,     \* the multiaddr to dial of each transport
  todo,      \* the transports not yet reported on; its head is being dialled
  rung,      \* position in the ladder
  at,        \* where the dial of that transport is
  buf,       \* readLine: `buf`
  rest,      \* what the relay has sent and the stream not yet delivered
  result,    \* how the dial ends: "error", "ok", "fail", or a reply
  left,      \* libp2p nodes that no dial will stop any more
  lines,     \* the result lines so far
  file       \* what the run has appended to the results file

vars == <<phase, dialHost, plan, picks, todo, rung, at, buf, rest, result,
          left, lines, file>>
dialVars == <<at, buf, rest, result, left>>
runVars  == <<phase, dialHost, plan, picks, file>>

Order == <<"tcp", "ws", "quic", "webrtc">>
Kinds == ToSet(Order)
Plans == {"echo", "fixed", "escalate"}
NoAddr == [kind |-> "none"]
Answer == Tag \o Message \o <<LF>>
Texts  == {SubSeq(Answer, 1, n) : n \in 0 .. Len(Answer)}
Ended(how) == [how |-> how, text |-> <<>>]
Reply(text) == [how |-> "reply", text |-> text]
Results == {Ended(h) : h \in {"no", "error", "ok", "fail"}} \cup {Reply(t) : t \in Texts}
Loopback == "loopback"
Addrs == [kind : Kinds \cup {"other"},
          family : {"ip4", "ip6", "dns"},
          host : Ip4 \cup Ip6 \cup Dns \cup {Loopback}]

ASSUME MatrixAssumption ==
  /\ Statuses \subseteq Seq(Addrs)
  /\ DialHosts \subseteq Ip4 \cup Ip6 \cup Dns
  /\ Ladder \in Seq(Nat) \ {<<>>}
  /\ Tag \in Seq(ToSet(Tag)) /\ Message \in Seq(ToSet(Message))
  /\ LF \notin ToSet(Tag) \cup ToSet(Message)

Init ==
  /\ phase = "status"
  /\ dialHost \in DialHosts
  /\ plan \in Plans
  /\ picks = [k \in Kinds |-> NoAddr]
  /\ todo = <<>> /\ rung = 1
  /\ at = "idle" /\ buf = <<>> /\ rest = <<>> /\ result = Ended("no")
  /\ left = 0
  /\ lines = <<>>
  /\ file = "unchanged"

----------------------------------------------------------------------------
\* From the status to one multiaddr per transport.

\* rewriteLoopbackToDialHost: the family of the address stays.
RewriteLoopbackToDialHost(addrs) ==
  [i \in DOMAIN addrs |->
     IF addrs[i].host = Loopback THEN [addrs[i] EXCEPT !.host = dialHost]
     ELSE addrs[i]]

\* filterByDialHost: all of them if none is of that host.
FilterByDialHost(addrs) ==
  LET filtered == {i \in DOMAIN addrs :
                     addrs[i].family # "dns" /\ addrs[i].host = dialHost}
  IN IF filtered # {} THEN filtered ELSE DOMAIN addrs

\* The first of the addresses kept that offers the transport.
PickTransport(addrs, kind) ==
  LET hits == {i \in FilterByDialHost(addrs) : addrs[i].kind = kind}
  IN IF hits = {} THEN NoAddr ELSE addrs[Min(hits)]

\* multiaddr() accepts it.
Parses(a) ==
  \/ a.host = Loopback
  \/ a.family = "ip4" /\ a.host \in Ip4
  \/ a.family = "ip6" /\ a.host \in Ip6
  \/ a.family = "dns" /\ a.host \in Dns

StatusLoaded ==
  /\ phase = "status"
  /\ \E multiaddrs \in Statuses \ {<<>>} :
       LET addrs == RewriteLoopbackToDialHost(multiaddrs)
       IN picks' = [k \in Kinds |-> PickTransport(addrs, k)]
  /\ phase' = "run"
  /\ todo' = Order
  /\ UNCHANGED <<dialHost, plan, rung, dialVars, lines, file>>

\* No multiaddrs: a block saying so, and exit(1).
StatusEmpty ==
  /\ phase = "status"
  /\ file' = "failed"
  /\ phase' = "exited"
  /\ UNCHANGED <<dialHost, plan, picks, todo, rung, dialVars, lines>>

----------------------------------------------------------------------------
\* Lines.

Line(kind, outcome) == [kind |-> kind, outcome |-> outcome]

NextTransport(outcome) ==
  /\ lines' = Append(lines, Line(Head(todo), outcome))
  /\ todo' = Tail(todo)
  /\ rung' = 1

Skip ==
  /\ at = "idle" /\ todo # <<>>
  /\ picks[Head(todo)] = NoAddr
  /\ NextTransport("SKIP")
  /\ UNCHANGED <<runVars, dialVars>>

\* `reply === ... || reply.startsWith('echo:')`
EchoOutcome(reply) == IF IsPrefix(Tag, reply) THEN "OK" ELSE "MISMATCH"

Outcome ==
  CASE result.how \in {"error", "fail"} -> "FAIL"
    [] result.how = "ok" -> "OK"
    [] OTHER -> EchoOutcome(result.text)

\* Mutant: the ladder goes on after a failure.
ReportGoesOn ==
  /\ at = "done"
  /\ IF plan = "escalate" /\ rung < Len(Ladder)
       THEN /\ lines' = Append(lines, Line(Head(todo), Outcome))
            /\ rung' = rung + 1
            /\ UNCHANGED todo
       ELSE NextTransport(Outcome)
  /\ at' = "idle" /\ result' = Ended("no") /\ buf' = <<>> /\ rest' = <<>>
  /\ UNCHANGED <<runVars, left>>

\* Mutant: off by one at the end of the ladder.
ReportPastLadder ==
  /\ at = "done"
  /\ IF plan = "escalate" /\ result.how = "ok" /\ rung <= Len(Ladder)
       THEN /\ lines' = Append(lines, Line(Head(todo), Outcome))
            /\ rung' = rung + 1
            /\ UNCHANGED todo
       ELSE NextTransport(Outcome)
  /\ at' = "idle" /\ result' = Ended("no") /\ buf' = <<>> /\ rest' = <<>>
  /\ UNCHANGED <<runVars, left>>

\* A dial is over: its line, then the next rung, or the next transport after
\* the first failure or the last rung.
Report ==
  /\ at = "done"
  /\ IF plan = "escalate" /\ result.how = "ok" /\ rung < Len(Ladder)
       THEN /\ lines' = Append(lines, Line(Head(todo), Outcome))
            /\ rung' = rung + 1
            /\ UNCHANGED todo
       ELSE NextTransport(Outcome)
  /\ at' = "idle" /\ result' = Ended("no") /\ buf' = <<>> /\ rest' = <<>>
  /\ UNCHANGED <<runVars, left>>

----------------------------------------------------------------------------
\* One dial: dialEchoOnce, or dialBulkTransfer.

DialOnly == UNCHANGED <<runVars, todo, rung, lines>>

\* createLibp2p and start(), which may throw.
StartNode ==
  /\ at = "idle" /\ todo # <<>>
  /\ picks[Head(todo)] # NoAddr
  /\ \/ at' = "started" /\ UNCHANGED result
     \/ at' = "done" /\ result' = Ended("error")
  /\ UNCHANGED <<buf, rest, left>>
  /\ DialOnly

\* multiaddr() and assertDialablePeerMultiaddr come after start() and before
\* the try block whose finally stops the node.
ParseAddress ==
  /\ at = "started"
  /\ IF Parses(picks[Head(todo)])
       THEN at' = "dialing" /\ UNCHANGED <<result, left>>
       ELSE at' = "done" /\ result' = Ended("error") /\ left' = left + 1
  /\ UNCHANGED <<buf, rest>>
  /\ DialOnly

\* dial, dialProtocol and writeLine; the relay answers as much as it will.
DialEcho ==
  /\ at = "dialing" /\ plan = "echo"
  /\ \/ at' = "reading" /\ rest' \in Texts /\ UNCHANGED result
     \/ at' = "stopping" /\ result' = Ended("error") /\ UNCHANGED rest
  /\ UNCHANGED <<buf, left>>
  /\ DialOnly

\* dialBulkTransfer catches every error of its transfer.
DialBulk ==
  /\ at = "dialing" /\ plan # "echo"
  /\ at' = "stopping"
  /\ result' \in {Ended("ok"), Ended("fail")}
  /\ UNCHANGED <<buf, rest, left>>
  /\ DialOnly

\* readLine: a chunk; the line is what comes before the first LF.
Chunk ==
  /\ at = "reading"
  /\ \E n \in 1 .. Len(rest) :
       LET text == buf \o SubSeq(rest, 1, n) IN
       /\ buf' = text
       /\ rest' = SubSeq(rest, n + 1, Len(rest))
       /\ IF Contains(text, LF)
            THEN /\ at' = "stopping"
                 /\ result' = Reply(SubSeq(text, 1, SelectInSeq(text, LAMBDA t : t = LF) - 1))
            ELSE UNCHANGED <<at, result>>
  /\ UNCHANGED left
  /\ DialOnly

\* readLine: the stream ends, which returns what has come, or it throws.
StreamEnds ==
  /\ at = "reading"
  /\ at' = "stopping"
  /\ result' \in {Reply(buf), Ended("error")}
  /\ UNCHANGED <<buf, rest, left>>
  /\ DialOnly

\* Mutant: the dial returns without stopping its node.
StopNodeForgotten ==
  /\ at = "stopping"
  /\ at' = "done"
  /\ left' = left + 1
  /\ UNCHANGED <<result, buf, rest>>
  /\ DialOnly

\* The finally blocks: the stream is closed, libp2p.stop() awaited.
StopNode ==
  /\ at = "stopping"
  /\ at' = "done"
  /\ UNCHANGED <<result, buf, rest, left>>
  /\ DialOnly

----------------------------------------------------------------------------
\* The end of the run.

\* appendFile of the whole block, the last thing main() does.
AppendReport ==
  /\ at = "idle" /\ todo = <<>>
  /\ file' = "report"
  /\ phase' = "returned"
  /\ UNCHANGED <<dialHost, plan, picks, todo, rung, dialVars, lines>>

\* main() has returned; a node that still listens keeps the process alive.
Exit ==
  /\ phase = "returned"
  /\ left = 0
  /\ phase' = "exited"
  /\ UNCHANGED <<dialHost, plan, picks, todo, rung, dialVars, lines, file>>

\* main().catch (the status cannot be read, the file not be written), or the
\* user ends a run that is under way.
Aborted ==
  /\ phase \in {"status", "run", "returned"}
  /\ phase' = "exited"
  /\ UNCHANGED <<dialHost, plan, picks, todo, rung, dialVars, lines, file>>

Dial == StartNode \/ ParseAddress \/ DialEcho \/ DialBulk \/ Chunk
          \/ StreamEnds \/ StopNode

Work ==
  \/ phase = "run" /\ (Skip \/ Dial \/ Report \/ AppendReport)
  \/ Exit

Next == StatusLoaded \/ StatusEmpty \/ Work \/ Aborted

Spec == Init /\ [][Next]_vars

\* Promises settle, and streams and connections do not stay silent for ever:
\* the echo dial has no timeout of its own.
FairSpec == Spec /\ WF_vars(Work)
----------------------------------------------------------------------------
\* Properties.

\* Every variable has its type.
TypeOK ==
  /\ phase \in {"status", "run", "returned", "exited"}
  /\ dialHost \in DialHosts
  /\ plan \in Plans
  /\ picks \in [Kinds -> Addrs \cup {NoAddr}]
  /\ todo \in {SubSeq(Order, i, Len(Order)) : i \in 1 .. Len(Order) + 1}
  /\ rung \in 1 .. Len(Ladder)
  /\ at \in {"idle", "started", "dialing", "reading", "stopping", "done"}
  /\ buf \in Texts /\ rest \in Seq(ToSet(Answer)) /\ buf \o rest \in Texts
  /\ result \in Results
  /\ left \in 0 .. Len(Order)
  /\ lines \in Seq([kind : Kinds, outcome : {"OK", "FAIL", "MISMATCH", "SKIP"}])
  /\ file \in {"unchanged", "failed", "report"}

\* The lines of a transport, from first to last, with an OK for all but the last.
Whole(kind) ==
  \E first, last \in DOMAIN lines :
    /\ {i \in DOMAIN lines : lines[i].kind = kind} = first .. last
    /\ first <= last
    /\ \A i \in first .. last - 1 : lines[i].outcome = "OK"
    /\ picks[kind] = NoAddr <=> lines[last].outcome = "SKIP"
    /\ first = last \/ plan = "escalate"
    /\ plan = "escalate" /\ lines[last].outcome = "OK"
         => last - first + 1 = Len(Ladder)

InOrder ==
  \A m, n \in DOMAIN Order : \A i, j \in DOMAIN lines :
    lines[i].kind = Order[m] /\ lines[j].kind = Order[n] /\ m < n => i < j

\* A report in the results file is whole, whenever the run is ended: it covers
\* the four transports in order; one without an address has one SKIP; one that
\* was dialled has one line; and a ladder has an OK for each rung up to the
\* last, or up to the one that failed (main and bulkLinesForTransport).
ReportIsWhole ==
  file = "report" =>
    /\ \A k \in Kinds : Whole(k)
    /\ InOrder

\* The process ends by itself once its dials are over, if every address it
\* picked parses.  One that does not (a --dial name or an IPv6 loopback put
\* where an address of another kind must be) leaves a started node behind,
\* which keeps the process alive after the report (echo-dial.ts:13-16).
RunEnds ==
  (phase = "run" /\ \A k \in Kinds : picks[k] # NoAddr => Parses(picks[k]))
    ~> phase = "exited"
=============================================================================
