---------------------------- MODULE BulkTransfer ----------------------------
(***************************************************************************)
(* A bulk transfer, by dialBulkTransfer of src/transfer-dial.ts or by      *)
(* runBulk of the page's node (apps/pwa/src/lib/browserNode.ts): one       *)
(* connection, random frames sent from the generator that feeds            *)
(* stream.sink, each echo read back through ByteStreamReader, until the    *)
(* duration is over.  Only the first compares the echoes, and only the     *)
(* second can be aborted.                                                  *)
(*                                                                         *)
(* Bytes are digits 0..Base-1 and a frame's length is HeaderBytes of them. *)
(* The relay's bulk handler is external; it echoes each frame, perhaps     *)
(* altered, or ends the stream.  The transport cuts the bytes anywhere.    *)
(***************************************************************************)
EXTENDS Naturals, Sequences

CONSTANTS
  Base,            \* a byte is 0..Base-1
  HeaderBytes,     \* bytes of the length prefix
  Clients,         \* "cli", for dialBulkTransfer, or "page", for runBulk, or both
  Sizes,           \* minChunk and maxChunk as they may be given
  Quota,           \* bytes crypto.getRandomValues gives at once
  MaxPayload,      \* BULK_MAX_CHUNK_BYTES
  MaxRounds        \* bound on the frames sent in the duration

\* Powers of the base.
Power[k \in 0..HeaderBytes] == IF k = 0 THEN 1 ELSE Base * Power[k - 1]

ASSUME SizeAssumption ==
  /\ Base \in Nat \ {0} /\ HeaderBytes \in Nat \ {0} /\ MaxRounds \in Nat
  /\ Clients \subseteq {"cli", "page"}
  /\ Sizes \subseteq [min : Nat, max : Nat]
  /\ MaxPayload \in Nat /\ MaxPayload < Power[HeaderBytes]
  /\ Quota \in 0..MaxPayload

Byte     == 0..(Base - 1)
Least(a, b) == IF a < b THEN a ELSE b

\* encodeU32be, decodeU32be, encodeFrame.
EncodeLength(n) ==
  [i \in 1..HeaderBytes |-> (n \div Power[HeaderBytes - i]) % Base]
DecodeLength(b) ==
  LET value[i \in 0..HeaderBytes] ==
        IF i = 0 THEN 0 ELSE value[i - 1] * Base + b[i]
  IN  value[HeaderBytes]
EncodeFrame(payload) == EncodeLength(Len(payload)) \o payload

VARIABLES
  client,     \* which of the two functions this is
  sizes,      \* the minChunk and maxChunk it was given
  aborted,    \* the page has aborted the signal it gave
  pc,         \* where the function is suspended
  clock,      \* 0 before transferEnd, 1 after it, 2 after hardDeadline
  payload,    \* the payload of this round
  rounds, bytesSent, bytesRecv, result,
  node,       \* whether the libp2p node it dials with runs
  carry,      \* ByteStreamReader.carry
  out,        \* the bytes readExactly has so far
  want,       \* the number of bytes it was asked for
  up, down,   \* bytes in flight to the relay and back
  ended,      \* the relay's half of the stream is over
  altered     \* history: an echo differs from its frame

callVars   == <<client, sizes, aborted>>
countVars  == <<rounds, bytesSent, bytesRecv>>
readerVars == <<carry, out, want>>
wireVars   == <<up, down, ended, altered>>
vars == <<callVars, pc, clock, payload, countVars, result, node, readerVars, wireVars>>

Reading == {"readHeader", "readPayload"}
Steps   == {"new", "dial", "loop", "yielded", "close", "done", "rejected"} \cup Reading

Init ==
  /\ client \in Clients
  /\ sizes \in Sizes
  /\ aborted = FALSE
  /\ pc = "new"
  /\ clock = 0
  /\ payload = <<>>
  /\ rounds = 0 /\ bytesSent = 0 /\ bytesRecv = 0
  /\ result = "none"
  /\ node = IF client = "cli" THEN "stopped" ELSE "started"
  /\ carry = <<>> /\ out = <<>> /\ want = 0
  /\ up = <<>> /\ down = <<>>
  /\ ended = FALSE /\ altered = FALSE

----------------------------------------------------------------------------
\* The connection.

Limit == Least(sizes.max, MaxPayload)

\* The lengths of randomPayload; its bounds the wrong way round give those
\* above the upper one.
Lengths == IF sizes.min <= Limit THEN sizes.min..Limit ELSE (Limit + 1)..sizes.min

\* dialBulkTransfer refuses bad sizes.  Then libp2p.start(), and multiaddr()
\* and assertDialablePeerMultiaddr(), which throw out of the function past the
\* finally that would stop the node.  The page has a node and tests no sizes.
Start ==
  /\ pc = "new"
  /\ IF client = "cli" /\ (sizes.min < 1 \/ Limit < sizes.min)
       THEN result' = "error" /\ pc' = "done" /\ UNCHANGED node
       ELSE node' = "started" /\ pc' \in {"dial", "rejected"} /\ UNCHANGED result
  /\ UNCHANGED <<callVars, clock, payload, countVars, readerVars, wireVars>>

Throw ==
  /\ result' = "error"
  /\ pc' = "close"

\* libp2p.dial and dialProtocol.
Dial ==
  /\ pc = "dial"
  /\ \/ pc' = "loop" /\ UNCHANGED result
     \/ Throw
  /\ UNCHANGED <<callVars, clock, payload, countVars, node, readerVars, wireVars>>

\* The finally blocks: stream.close(), and libp2p.stop() of a node of its own.
Close ==
  /\ pc = "close"
  /\ pc' = "done"
  /\ node' = IF client = "cli" THEN "stopped" ELSE node
  /\ UNCHANGED <<callVars, clock, payload, countVars, result, readerVars, wireVars>>

----------------------------------------------------------------------------
\* The generator.

\* while (Date.now() < transferEnd): the deadline test inside cannot be true.
LoopEnds ==
  /\ pc = "loop"
  /\ clock > 0
  /\ result' = "ok"
  /\ pc' = "close"
  /\ UNCHANGED <<callVars, clock, payload, countVars, node, readerVars, wireVars>>

Quotas == IF client = "page" THEN Quota ELSE MaxPayload

\* The page's signal.throwIfAborted(), and its getRandomValues() for a payload
\* that is too long.
SendThrows ==
  /\ pc = "loop"
  /\ clock = 0
  /\ aborted \/ \E n \in Lengths : n > Quotas
  /\ Throw
  /\ UNCHANGED <<callVars, clock, payload, countVars, node, readerVars, wireVars>>

Send ==
  /\ pc = "loop"
  /\ clock = 0
  /\ ~aborted
  /\ rounds < MaxRounds
  /\ \E n \in Lengths : \E p \in [1..n -> Byte] :
       /\ n <= Quotas
       /\ payload' = p
       /\ up' = up \o EncodeFrame(p)
  /\ pc' = "yielded"
  /\ UNCHANGED <<callVars, clock, countVars, result, node,
                readerVars, down, ended, altered>>

\* Resumed after the yield: count, then readFramedChunk asks for the header.
\* The sink may fail instead, which ends the generator at its yield.
Resume ==
  /\ pc = "yielded"
  /\ \/ /\ bytesSent' = bytesSent + HeaderBytes + Len(payload)
        /\ want' = HeaderBytes
        /\ out' = <<>>
        /\ pc' = "readHeader"
        /\ UNCHANGED result
     \/ /\ Throw
        /\ UNCHANGED <<bytesSent, want, out>>
  /\ UNCHANGED <<callVars, clock, payload, rounds, bytesRecv, node, carry, wireVars>>

\* Mutant: the echo is counted without being compared.
EchoedUnchecked(echo) ==
  /\ bytesRecv' = bytesRecv + HeaderBytes + Len(echo)
  /\ rounds' = rounds + 1
  /\ pc' = "loop"
  /\ UNCHANGED result

\* The echo is complete: count it and, except on the page, compare it.
Echoed(echo) ==
  /\ bytesRecv' = bytesRecv + HeaderBytes + Len(echo)
  /\ IF client = "page" \/ payload = echo
       THEN rounds' = rounds + 1 /\ pc' = "loop" /\ UNCHANGED result
       ELSE Throw /\ UNCHANGED rounds

----------------------------------------------------------------------------
\* ByteStreamReader.readExactly and readFramedChunk.

Pending == pc \in Reading /\ Len(out) < want

\* Mutant: the end of the stream is taken for an empty chunk.
NextChunkEndless ==
  /\ Pending /\ carry = <<>>
  /\ down # <<>>
  /\ \E k \in 1..Len(down) :
       /\ carry' = SubSeq(down, 1, k)
       /\ down' = SubSeq(down, k + 1, Len(down))
  /\ UNCHANGED <<callVars, pc, clock, payload, countVars, result, node, out, want, up,
                 ended, altered>>

\* await this.iter.next(): some bytes have arrived, or the stream is over.
NextChunk ==
  /\ Pending /\ carry = <<>>
  /\ \/ /\ down # <<>>
        /\ \E k \in 1..Len(down) :
             /\ carry' = SubSeq(down, 1, k)
             /\ down' = SubSeq(down, k + 1, Len(down))
        /\ UNCHANGED <<pc, result>>
     \/ /\ down = <<>> /\ ended
        /\ Throw
        /\ UNCHANGED <<carry, down>>
  /\ UNCHANGED <<callVars, clock, payload, countVars, node,
                out, want, up, ended, altered>>

Take ==
  /\ Pending /\ carry # <<>>
  /\ LET use == Least(want - Len(out), Len(carry)) IN
       /\ out' = out \o SubSeq(carry, 1, use)
       /\ carry' = SubSeq(carry, use + 1, Len(carry))
  /\ UNCHANGED <<callVars, pc, clock, payload, countVars, result, node, want, wireVars>>

\* Mutant: the length is not compared with maxPayload.
HeaderReadUnlimited ==
  /\ pc = "readHeader" /\ Len(out) = want
  /\ want' = DecodeLength(out)
  /\ out' = <<>>
  /\ pc' = "readPayload"
  /\ UNCHANGED <<callVars, clock, payload, countVars, result, node, carry, wireVars>>

HeaderRead ==
  /\ pc = "readHeader" /\ Len(out) = want
  /\ LET len == DecodeLength(out) IN
       \/ /\ len > MaxPayload
          /\ Throw
          /\ UNCHANGED <<countVars, out, want>>
       \/ /\ len = 0
          /\ Echoed(<<>>)
          /\ UNCHANGED <<bytesSent, out, want>>
       \/ /\ len \in 1..MaxPayload
          /\ want' = len
          /\ out' = <<>>
          /\ pc' = "readPayload"
          /\ UNCHANGED <<countVars, result>>
  /\ UNCHANGED <<callVars, clock, payload, node, carry, wireVars>>

PayloadRead ==
  /\ pc = "readPayload" /\ Len(out) = want
  /\ Echoed(out)
  /\ UNCHANGED <<callVars, clock, payload, bytesSent, node, readerVars, wireVars>>

ClientStep ==
  Start \/ Dial \/ Close \/ LoopEnds \/ SendThrows \/ Send \/ Resume
    \/ NextChunk \/ Take \/ HeaderRead \/ PayloadRead

----------------------------------------------------------------------------
\* The relay's bulk handler, the transport, the clock and the page.

\* bulkAbort.abort(), by the page's button or its next transfer.
Abort ==
  /\ client = "page"
  /\ pc \notin {"done", "rejected"}
  /\ ~aborted
  /\ aborted' = TRUE
  /\ UNCHANGED <<client, sizes, pc, clock, payload, countVars, result, node,
                readerVars, wireVars>>

\* One frame is complete and echoed, or echoed with one byte changed.
Echo ==
  /\ up # <<>> /\ ~ended
  /\ up' = <<>>
  /\ \/ down' = down \o up /\ UNCHANGED altered
     \/ /\ \E i \in 1..Len(up) : \E b \in Byte \ {up[i]} :
             down' = down \o [up EXCEPT ![i] = b]
        /\ altered' = TRUE
  /\ UNCHANGED <<callVars, pc, clock, payload, countVars, result,
                node, readerVars, ended>>

\* A timeout of the handler or a reset; bytes in flight may be lost.
StreamEnds ==
  /\ pc \in {"loop", "yielded"} \cup Reading
  /\ ~ended
  /\ ended' = TRUE
  /\ \E k \in 0..Len(down) : down' = SubSeq(down, 1, k)
  /\ UNCHANGED <<callVars, pc, clock, payload, countVars, result,
                node, readerVars, up, altered>>

Tick ==
  /\ clock < 2 /\ pc \notin {"new", "done", "rejected"}
  /\ clock' = clock + 1
  /\ UNCHANGED <<callVars, pc, payload, countVars, result, node, readerVars, wireVars>>

Next == ClientStep \/ Abort \/ Echo \/ StreamEnds \/ Tick

Spec == Init /\ [][Next]_vars

\* The client runs and time passes; the relay owes nothing.
ClientFairness == WF_vars(ClientStep) /\ WF_vars(Tick)

\* The relay's handler ends a stream on which nothing moves
\* (relay-runtime.ts: readTimeoutMs 10_000, idleTimeoutMs 30_000).
RelayFairness ==
  WF_vars(Pending /\ carry = <<>> /\ down = <<>> /\ StreamEnds)

Spec_AnyRelay  == Spec /\ ClientFairness
Spec_LiveRelay == Spec /\ ClientFairness /\ RelayFairness

----------------------------------------------------------------------------
\* Properties.

\* Every variable has its type.
TypeOK ==
  /\ pc \in Steps
  /\ clock \in 0..2
  /\ client \in Clients /\ sizes \in Sizes
  /\ aborted \in BOOLEAN /\ (aborted => client = "page")
  /\ payload \in Seq(Byte) /\ Len(payload) <= MaxPayload
  /\ rounds \in 0..MaxRounds /\ bytesSent \in Nat /\ bytesRecv \in Nat
  /\ result \in {"none", "ok", "error"}
  /\ node \in {"stopped", "started"}
  /\ carry \in Seq(Byte) /\ out \in Seq(Byte)
  /\ want \in {0, HeaderBytes} \cup 1..MaxPayload
  /\ up \in Seq(Byte) /\ down \in Seq(Byte)
  /\ ended \in BOOLEAN /\ altered \in BOOLEAN

\* However the transport cuts the echo, between rounds the reader stands at a
\* frame boundary with nothing left over, and each byte sent has come back.
\* dialBulkTransfer goes on to a next round only then; the page does not look,
\* and loses the boundary with the first echo of another length.
RoundsEndAtFrames ==
  pc = "loop" /\ (client = "page" => ~altered)
    => carry = <<>> /\ down = <<>> /\ up = <<>> /\ bytesSent = bytesRecv

\* A transfer is only reported ok if it went on for its whole duration, by
\* dialBulkTransfer only if no echo was altered, whichever byte of length or
\* payload it was (README.md:269), and for sizes that make sense.
OkMeansIntact ==
  result = "ok" =>
    /\ clock > 0
    /\ client = "cli" => ~altered /\ sizes.min \in 1..sizes.max

\* With a relay that ends idle streams, every transfer ends.
TransferEnds == <>(pc \in {"done", "rejected"})

----------------------------------------------------------------------------
\* What a comment says and the code does not do.

\* transfer-dial.ts:28: graceMs is the extra time allowed for reads in flight
\* after durationMs, so a transfer past the hard deadline ends.
HardDeadlineEnds == clock = 2 ~> pc \in {"done", "rejected"}
=============================================================================
