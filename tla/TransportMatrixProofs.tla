------------------------ MODULE TransportMatrixProofs ------------------------
(***************************************************************************)
(* Proofs about TransportMatrix, for every list of addresses, every        *)
(* ladder and every answer of the relay: no list of lines in the results   *)
(* file is anything but a whole report.                                    *)
(***************************************************************************)
EXTENDS TransportMatrix, Integers, SequenceTheorems, WellFoundedInduction, TLAPS

----------------------------------------------------------------------------
\* The inductive invariant.

\* The number of transports that are reported on or under way.
Position == Len(Order) + 1 - Len(todo)

\* Before the run there is nothing; during a dial its transport has an address.
PhaseInv ==
  /\ phase = "status" =>
       /\ todo = <<>> /\ lines = <<>> /\ at = "idle" /\ rung = 1 /\ left = 0
       /\ buf = <<>> /\ rest = <<>>
  /\ at # "idle" => todo # <<>> /\ picks[Head(todo)] # NoAddr
  /\ file = "report" => phase \in {"returned", "exited"}
  /\ at \in {"idle", "started", "dialing"} => buf = <<>> /\ rest = <<>>

\* What a dial may end with.
ResultInv ==
  /\ at = "reading" => plan = "echo"
  /\ at \in {"stopping", "done"} =>
       result.how \in IF plan = "echo" THEN {"error", "reply"} ELSE {"error", "ok", "fail"}

\* A node is left behind at most once for each transport.
LeftInv ==
  left + Len(todo) <= Len(Order) + (IF at = "done" /\ result.how = "error" THEN 1 ELSE 0)

\* The lines below cut are of the transports reported on; those above it are
\* the rungs of the ladder that the transport under way has climbed.
Cut == Len(lines) - (rung - 1)

LinesInv == phase = "run" =>
  /\ Cut \in 0 .. Len(lines)
  /\ rung > 1 => plan = "escalate" /\ todo # <<>> /\ picks[Head(todo)] # NoAddr
  /\ \A m \in 1 .. Position - 1 : Whole(Order[m])
  /\ \A i \in 1 .. Cut : \E m \in 1 .. Position - 1 : lines[i].kind = Order[m]
  /\ \A i \in Cut + 1 .. Len(lines) : lines[i] = Line(Head(todo), "OK")
  /\ InOrder

IInv == TypeOK /\ PhaseInv /\ ResultInv /\ LeftInv /\ LinesInv /\ ReportIsWhole

----------------------------------------------------------------------------
\* Addresses.

LEMMA LeastElement ==
  ASSUME NEW T, T \subseteq Nat, T # {}
  PROVE  Min(T) \in T
  <1> DEFINE R == OpToRel(<, Nat)
  <1>1. \A x, y \in Nat : x < y => <<x, y>> \in R
    BY DEF OpToRel
  <1>2. IsWellFoundedOn(R, Nat)
    BY NatLessThanWellFounded
  <1> HIDE DEF R
  <1>3. PICK x \in T : \A y \in T : ~ (<<y, x>> \in R)
    BY <1>2, WFMin
  <1>4. \A y \in T : ~ (y < x)
    BY <1>1, <1>3
  <1>5. \A y \in T : x <= y
    BY <1>4
  <1> QED
    BY <1>5 DEF Min

LEMMA OrderFacts ==
  /\ Order \in Seq(Kinds) /\ Len(Order) = 4
  /\ \A m, n \in 1 .. 4 : Order[m] = Order[n] => m = n
  /\ \A k \in Kinds : \E m \in 1 .. 4 : Order[m] = k
  BY DEF Order, Kinds, ToSet

\* Each pick is one of the rewritten addresses, or none.
LEMMA PicksAreAddresses ==
  ASSUME NEW multiaddrs \in Statuses, dialHost \in DialHosts, NEW kind
  PROVE  PickTransport(RewriteLoopbackToDialHost(multiaddrs), kind)
           \in Addrs \cup {NoAddr}
  <1> DEFINE addrs == RewriteLoopbackToDialHost(multiaddrs)
             hits == {i \in FilterByDialHost(addrs) : addrs[i].kind = kind}
  <1>1. multiaddrs \in Seq(Addrs)
    BY MatrixAssumption
  <1>2. DOMAIN multiaddrs = 1 .. Len(multiaddrs) /\ Len(multiaddrs) \in Nat
    BY <1>1, LenProperties
  <1>3. ASSUME NEW i \in DOMAIN multiaddrs PROVE addrs[i] \in Addrs
    <2>1. multiaddrs[i] \in Addrs
      BY <1>1, <1>2, ElementOfSeq
    <2>2. dialHost \in Ip4 \cup Ip6 \cup Dns \cup {Loopback}
      BY MatrixAssumption
    <2>3. [multiaddrs[i] EXCEPT !.host = dialHost] \in Addrs
      BY <2>1, <2>2 DEF Addrs
    <2> QED
      BY <2>1, <2>3 DEF RewriteLoopbackToDialHost
  <1>4. DOMAIN addrs = DOMAIN multiaddrs
    BY DEF RewriteLoopbackToDialHost
  <1>5. hits \subseteq DOMAIN multiaddrs
    BY <1>4 DEF FilterByDialHost
  <1>6. PickTransport(addrs, kind) = IF hits = {} THEN NoAddr ELSE addrs[Min(hits)]
    BY DEF PickTransport
  <1> HIDE DEF addrs, hits
  <1>7. hits # {} => Min(hits) \in DOMAIN multiaddrs
    BY <1>2, <1>5, LeastElement
  <1> QED
    BY <1>3, <1>6, <1>7 DEF addrs

----------------------------------------------------------------------------
\* Texts.

Pieces == ToSet(Answer)

LEMMA AnswerType ==
  Answer \in Seq(Pieces)
  <1> DEFINE S == ToSet(Tag) \cup ToSet(Message) \cup {LF}
  <1>1. Tag \in Seq(S) /\ Message \in Seq(S) /\ <<LF>> \in Seq(S)
    <2>1. ToSet(Tag) \subseteq S /\ ToSet(Message) \subseteq S /\ LF \in S
      OBVIOUS
    <2> HIDE DEF S
    <2> QED
      BY <2>1, MatrixAssumption, SeqMonotonic
  <1> HIDE DEF S
  <1>2. Tag \o Message \in Seq(S)
    BY <1>1, ConcatProperties
  <1>3. Answer \in Seq(S)
    BY <1>1, <1>2, ConcatProperties DEF Answer
  <1> DEFINE a == Answer
  <1>4. a \in Seq(S)
    BY <1>3
  <1> HIDE DEF a
  <1>5. a \in Seq(ToSet(a))
    BY <1>4 DEF ToSet
  <1> QED
    BY <1>5 DEF a, Pieces

LEMMA TextFacts ==
  ASSUME NEW t \in Texts
  PROVE  /\ t \in Seq(Pieces) /\ Len(t) \in 0 .. Len(Answer)
         /\ \A i \in 1 .. Len(t) : t[i] = Answer[i]
  <1>1. Answer \in Seq(Pieces) /\ Len(Answer) \in Nat
        /\ \A i \in 1 .. Len(Answer) : Answer[i] \in Pieces
    BY AnswerType, LenProperties, ElementOfSeq
  <1>2. PICK n \in 0 .. Len(Answer) : t = SubSeq(Answer, 1, n)
    BY DEF Texts
  <1>3. /\ SubSeq(Answer, 1, n) \in Seq(Pieces)
        /\ Len(SubSeq(Answer, 1, n)) = IF 1 <= n THEN n - 1 + 1 ELSE 0
        /\ \A i \in 1 .. n - 1 + 1 : SubSeq(Answer, 1, n)[i] = Answer[1 + i - 1]
    <2>1. \A i \in 1 .. n : Answer[i] \in Pieces
      BY <1>1
    <2>2. 1 \in Int /\ n \in Int
      BY <1>1
    <2> QED
      BY <2>1, <2>2, SubSeqProperties
  <1>4. Len(t) = n
    BY <1>1, <1>2, <1>3
  <1>5. ASSUME NEW i \in 1 .. Len(t) PROVE t[i] = Answer[i]
    <2>1. i \in 1 .. n - 1 + 1 /\ 1 + i - 1 = i
      BY <1>1, <1>4
    <2> QED
      BY <1>2, <1>3, <2>1
  <1> QED
    BY <1>1, <1>2, <1>3, <1>4, <1>5

\* What agrees with the answer is one of the texts.
LEMMA IsText ==
  ASSUME NEW s \in Seq(Pieces), Len(s) <= Len(Answer),
         \A i \in 1 .. Len(s) : s[i] = Answer[i]
  PROVE  s \in Texts
  <1>1. Len(s) \in 0 .. Len(Answer) /\ Answer \in Seq(Pieces)
    BY AnswerType, LenProperties
  <1> DEFINE t == SubSeq(Answer, 1, Len(s))
  <1>2. t \in Texts
    BY <1>1 DEF Texts
  <1>3. /\ t \in Seq(Pieces)
        /\ Len(t) = Len(s)
        /\ \A i \in 1 .. Len(t) : t[i] = Answer[i]
    <2>1. t \in Seq(Pieces) /\ \A i \in 1 .. Len(t) : t[i] = Answer[i]
      <3> HIDE DEF t
      <3> QED
        BY <1>2, TextFacts
    <2>2. \A i \in 1 .. Len(s) : Answer[i] \in Pieces
      BY <1>1, ElementOfSeq
    <2>3. 1 \in Int /\ Len(s) \in Int
      BY <1>1
    <2>4. Len(t) = IF 1 <= Len(s) THEN Len(s) - 1 + 1 ELSE 0
      BY <2>2, <2>3, SubSeqProperties
    <2>5. Len(t) = Len(s)
      <3> HIDE DEF t
      <3> QED
        BY <1>1, <2>4
    <2> QED
      BY <2>1, <2>5
  <1> HIDE DEF t
  <1>4. s = t
    BY <1>3, SeqEqual
  <1> QED
    BY <1>2, <1>4

LEMMA PrefixIsText ==
  ASSUME NEW a \in Seq(Pieces), NEW b \in Seq(Pieces), a \o b \in Texts
  PROVE  a \in Texts
  <1>1. /\ Len(a \o b) = Len(a) + Len(b) /\ Len(a) \in Nat /\ Len(b) \in Nat
        /\ \A i \in 1 .. Len(a) + Len(b) :
             (a \o b)[i] = IF i <= Len(a) THEN a[i] ELSE b[i - Len(a)]
    BY ConcatProperties, LenProperties
  <1>2. /\ Len(a \o b) \in 0 .. Len(Answer)
        /\ \A i \in 1 .. Len(a \o b) : (a \o b)[i] = Answer[i]
        /\ Len(Answer) \in Nat
    BY TextFacts, AnswerType, LenProperties
  <1>3. Len(a) <= Len(Answer)
    BY <1>1, <1>2
  <1>4. ASSUME NEW i \in 1 .. Len(a) PROVE a[i] = Answer[i]
    <2>1. i \in 1 .. Len(a) + Len(b) /\ i <= Len(a)
      BY <1>1
    <2> QED
      BY <1>1, <1>2, <2>1
  <1> QED
    BY <1>3, <1>4, IsText

LEMMA SplitAt ==
  ASSUME NEW s \in Seq(Pieces), NEW k \in 0 .. Len(s)
  PROVE  /\ SubSeq(s, 1, k) \in Seq(Pieces) /\ SubSeq(s, k + 1, Len(s)) \in Seq(Pieces)
         /\ s = SubSeq(s, 1, k) \o SubSeq(s, k + 1, Len(s))
  <1>1. Len(s) \in Nat /\ \A i \in 1 .. Len(s) : s[i] \in Pieces
    BY LenProperties, ElementOfSeq
  <1>2. SubSeq(s, 1, k) \in Seq(Pieces)
    <2>1. \A i \in 1 .. k : s[i] \in Pieces
      BY <1>1
    <2>2. 1 \in Int /\ k \in Int
      BY <1>1
    <2> QED
      BY <2>1, <2>2, SubSeqProperties
  <1>3. SubSeq(s, k + 1, Len(s)) \in Seq(Pieces)
    <2>1. \A i \in (k + 1) .. Len(s) : s[i] \in Pieces
      BY <1>1
    <2>2. k + 1 \in Int /\ Len(s) \in Int
      BY <1>1
    <2> QED
      BY <2>1, <2>2, SubSeqProperties
  <1>4. SubSeq(s, 1, k) \o SubSeq(s, k + 1, Len(s)) = SubSeq(s, 1, Len(s))
    <2>1. 1 \in 1 .. Len(s) + 1 /\ k \in (1 - 1) .. Len(s) /\ Len(s) \in k .. Len(s)
      BY <1>1
    <2> QED
      BY <2>1, ConcatAdjacentSubSeq
  <1>5. SubSeq(s, 1, Len(s)) = s
    BY SubSeqFull
  <1> QED
    BY <1>2, <1>3, <1>4, <1>5

----------------------------------------------------------------------------
\* What is left to do.

LEMMA TodoFacts ==
  ASSUME TypeOK
  PROVE  /\ todo \in Seq(Kinds) /\ Len(todo) \in 0 .. 4
         /\ Position \in 1 .. 5 /\ Len(todo) = 5 - Position
         /\ todo = <<>> <=> Position = 5
         /\ todo # <<>> =>
              /\ Position \in 1 .. 4 /\ Head(todo) = Order[Position]
              /\ Head(todo) \in Kinds
              /\ Tail(todo) \in {SubSeq(Order, i, Len(Order)) : i \in 1 .. Len(Order) + 1}
              /\ Len(Tail(todo)) = Len(todo) - 1
  <1>1. Order \in Seq(Kinds) /\ Len(Order) = 4 /\ \A i \in 1 .. 4 : Order[i] \in Kinds
    BY OrderFacts, ElementOfSeq
  <1>2. PICK d \in 1 .. 5 : todo = SubSeq(Order, d, 4)
    BY <1>1 DEF TypeOK
  <1>3. /\ todo \in Seq(Kinds)
        /\ Len(todo) = IF d <= 4 THEN 4 - d + 1 ELSE 0
    <2>1. \A i \in d .. 4 : Order[i] \in Kinds
      BY <1>1
    <2>2. d \in Int /\ 4 \in Int
      OBVIOUS
    <2> QED
      BY <1>2, <2>1, <2>2, SubSeqProperties
  <1>4. Position = d /\ Len(todo) = 5 - d
    BY <1>1, <1>3 DEF Position
  <1>5. todo = <<>> <=> d = 5
    BY <1>3, <1>4, EmptySeq
  <1>6. ASSUME todo # <<>>
        PROVE  /\ d \in 1 .. 4 /\ Head(todo) = Order[d] /\ Head(todo) \in Kinds
               /\ Tail(todo) = SubSeq(Order, d + 1, 4)
    <2>1. d \in 1 .. Len(Order) /\ 4 \in d .. Len(Order)
      BY <1>1, <1>5, <1>6
    <2> QED
      BY <1>1, <1>2, <2>1, HeadTailOfSubSeq
  <1>7. todo # <<>> =>
          /\ Tail(todo) \in {SubSeq(Order, i, Len(Order)) : i \in 1 .. Len(Order) + 1}
          /\ Len(Tail(todo)) = Len(todo) - 1
    <2>1. ASSUME todo # <<>> PROVE Len(Tail(todo)) = Len(todo) - 1
      BY <1>3, <2>1, HeadTailProperties
    <2>2. d \in 1 .. 4 => d + 1 \in 1 .. Len(Order) + 1
      BY <1>1
    <2> QED
      BY <1>1, <1>6, <2>1, <2>2
  <1>8. Len(todo) \in 0 .. 4 /\ Len(todo) = 5 - Position /\ Position \in 1 .. 5
    BY <1>4
  <1>9. todo = <<>> <=> Position = 5
    BY <1>4, <1>5
  <1>10. todo # <<>> => Position \in 1 .. 4 /\ Head(todo) = Order[Position]
                        /\ Head(todo) \in Kinds
    BY <1>4, <1>6
  <1> HIDE DEF Position
  <1> QED
    BY <1>3, <1>7, <1>8, <1>9, <1>10

LEMMA OrderIsATodo ==
  /\ Order \in {SubSeq(Order, i, Len(Order)) : i \in 1 .. Len(Order) + 1}
  /\ <<>> \in {SubSeq(Order, i, Len(Order)) : i \in 1 .. Len(Order) + 1}
  <1>1. Order \in Seq(Kinds) /\ Len(Order) = 4
    BY OrderFacts
  <1>2. SubSeq(Order, 1, 4) = Order /\ SubSeq(Order, 5, 4) = <<>>
    BY <1>1, SubSeqFull, SubSeqEmpty
  <1> QED
    BY <1>1, <1>2

----------------------------------------------------------------------------
\* Types.

LEMMA NoText ==
  /\ <<>> \in Texts /\ <<>> \in Seq(Pieces) /\ <<>> \o <<>> = <<>>
  /\ \A t \in Texts : <<>> \o t = t
  <1>1. <<>> \in Seq(Pieces) /\ Len(<<>>) = 0 /\ Len(Answer) \in Nat
    BY EmptySeq, AnswerType, LenProperties
  <1>2. <<>> \in Texts
    <2>1. Len(<<>>) <= Len(Answer) /\ 1 .. Len(<<>>) = {}
      BY <1>1
    <2> QED
      BY <1>1, <2>1, IsText
  <1>3. \A t \in Texts : <<>> \o t = t
    BY TextFacts, ConcatEmptySeq
  <1> QED
    BY <1>1, <1>2, <1>3

LEMMA ChunkSteps ==
  ASSUME TypeOK, Chunk
  PROVE  /\ buf' \in Texts /\ rest' \in Seq(Pieces) /\ buf' \o rest' \in Texts
         /\ \/ UNCHANGED <<at, result>>
            \/ at' = "stopping" /\ \E t \in Texts : result' = Reply(t)
  <1>1. /\ buf \in Seq(Pieces) /\ rest \in Seq(Pieces) /\ buf \o rest \in Texts
        /\ Len(rest) \in Nat
    BY TextFacts, LenProperties DEF TypeOK, Pieces
  <1>2. PICK n \in 1 .. Len(rest) :
          /\ buf' = buf \o SubSeq(rest, 1, n)
          /\ rest' = SubSeq(rest, n + 1, Len(rest))
          /\ IF Contains(buf', LF)
               THEN /\ at' = "stopping"
                    /\ result' = Reply(SubSeq(buf', 1,
                                   SelectInSeq(buf', LAMBDA t : t = LF) - 1))
               ELSE UNCHANGED <<at, result>>
    BY DEF Chunk
  <1>3. n \in 0 .. Len(rest)
    BY <1>1
  <1> DEFINE c == SubSeq(rest, 1, n)
  <1>4. c \in Seq(Pieces) /\ rest' \in Seq(Pieces) /\ rest = c \o rest' /\ buf' = buf \o c
    BY <1>1, <1>2, <1>3, SplitAt
  <1> HIDE DEF c
  <1>5. buf \o c \in Seq(Pieces) /\ (buf \o c) \o rest' = buf \o (c \o rest')
    <2>1. buf \o c \in Seq(Pieces)
      BY <1>1, <1>4, ConcatProperties
    <2>2. (buf \o c) \o rest' = buf \o (c \o rest')
      BY <1>1, <1>4, ConcatAssociative, SMTT(40)
    <2> QED
      BY <2>1, <2>2, Zenon
  <1>6. buf' \o rest' \in Texts /\ buf' \in Seq(Pieces)
    BY <1>1, <1>4, <1>5
  <1>7. buf' \in Texts
    BY <1>4, <1>6, PrefixIsText
  <1>8. ASSUME Contains(buf', LF)
        PROVE  \E t \in Texts : result' = Reply(t)
    <2> DEFINE I == {i \in 1 .. Len(buf') : buf'[i] = LF}
               k == Min(I)
    <2>1. Len(buf') \in Nat
      BY <1>6, LenProperties
    <2>2. I # {} /\ I \subseteq Nat
      BY <1>8, <2>1 DEF Contains
    <2>3. SelectInSeq(buf', LAMBDA t : t = LF) = k
      BY <2>2 DEF SelectInSeq
    <2>4. k \in I
      <3> HIDE DEF I
      <3> QED
        BY <2>2, LeastElement
    <2>5. k - 1 \in 0 .. Len(buf')
      <3>1. k \in 1 .. Len(buf')
        BY <2>4
      <3> HIDE DEF k
      <3> QED
        BY <2>1, <3>1
    <2> HIDE DEF k
    <2> DEFINE a == SubSeq(buf', 1, k - 1)
               b == SubSeq(buf', k - 1 + 1, Len(buf'))
    <2>6. a \in Seq(Pieces) /\ b \in Seq(Pieces) /\ buf' = a \o b
      BY <1>6, <2>5, SplitAt
    <2>7. a \in Texts
      <3> HIDE DEF a, b
      <3> QED
        BY <1>7, <2>6, PrefixIsText
    <2> QED
      BY <1>2, <1>8, <2>3, <2>7
  <1> QED
    BY <1>2, <1>4, <1>6, <1>7, <1>8

LEMMA OutcomeType ==
  Outcome \in {"OK", "FAIL", "MISMATCH"}
  BY DEF Outcome, EchoOutcome

\* What a line adds.
LEMMA AppendFacts ==
  ASSUME TypeOK, NEW l \in [kind : Kinds, outcome : {"OK", "FAIL", "MISMATCH", "SKIP"}]
  PROVE  /\ Append(lines, l) \in Seq([kind : Kinds, outcome : {"OK", "FAIL", "MISMATCH", "SKIP"}])
         /\ Len(Append(lines, l)) = Len(lines) + 1 /\ Len(lines) \in Nat
         /\ DOMAIN lines = 1 .. Len(lines)
         /\ DOMAIN Append(lines, l) = 1 .. Len(lines) + 1
         /\ \A i \in 1 .. Len(lines) : Append(lines, l)[i] = lines[i]
         /\ Append(lines, l)[Len(lines) + 1] = l
  <1> DEFINE L == [kind : Kinds, outcome : {"OK", "FAIL", "MISMATCH", "SKIP"}]
  <1>1. lines \in Seq(L) /\ l \in L
    BY DEF TypeOK
  <1> HIDE DEF L
  <1>2. /\ Append(lines, l) \in Seq(L)
        /\ Len(Append(lines, l)) = Len(lines) + 1 /\ Len(lines) \in Nat
        /\ \A i \in 1 .. Len(lines) : Append(lines, l)[i] = lines[i]
        /\ Append(lines, l)[Len(lines) + 1] = l
        /\ DOMAIN lines = 1 .. Len(lines)
    BY <1>1, AppendProperties, LenProperties
  <1>3. DOMAIN Append(lines, l) = 1 .. Len(lines) + 1
    BY <1>2, LenProperties
  <1> QED
    BY <1>2, <1>3 DEF L

LEMMA InitHolds ==
  ASSUME Init
  PROVE  IInv
  <1>1. TypeOK
    <2>1. /\ NoAddr \in Addrs \cup {NoAddr} /\ Ended("no") \in Results
          /\ 1 \in 1 .. Len(Ladder) /\ 0 \in 0 .. Len(Order)
      BY MatrixAssumption, EmptySeq, OrderFacts DEF Results
    <2>2. <<>> \in Seq([kind : Kinds, outcome : {"OK", "FAIL", "MISMATCH", "SKIP"}])
      BY EmptySeq
    <2>3. picks \in [Kinds -> Addrs \cup {NoAddr}]
      BY <2>1 DEF Init
    <2> QED
      BY <2>1, <2>2, <2>3, NoText, OrderIsATodo DEF Init, TypeOK, Pieces
  <1>2. PhaseInv /\ ResultInv /\ LinesInv /\ ReportIsWhole
    BY DEF Init, PhaseInv, ResultInv, LinesInv, ReportIsWhole
  <1>3. LeftInv
    <2>1. Len(todo) = 0 /\ left = 0 /\ at # "done"
      BY EmptySeq DEF Init
    <2> QED
      BY <2>1, OrderFacts DEF LeftInv
  <1> QED
    BY <1>1, <1>2, <1>3 DEF IInv

LEMMA TypeStep ==
  ASSUME IInv, [Next]_vars
  PROVE  TypeOK'
  <1>0. TypeOK /\ PhaseInv /\ LeftInv
    BY DEF IInv
  <1>1. /\ Len(Order) = 4 /\ Len(Ladder) \in Nat \ {0}
        /\ \A h \in {"no", "error", "ok", "fail"} : Ended(h) \in Results
        /\ \A t \in Texts : Reply(t) \in Results
    BY OrderFacts, MatrixAssumption, EmptySeq DEF Results
  <1> USE DEF TypeOK
  <1>2. CASE StatusLoaded
    <2>1. picks' \in [Kinds -> Addrs \cup {NoAddr}]
      <3>1. PICK multiaddrs \in Statuses :
              picks' = [k \in Kinds |->
                          PickTransport(RewriteLoopbackToDialHost(multiaddrs), k)]
        BY <1>2 DEF StatusLoaded
      <3>2. \A k \in Kinds : PickTransport(RewriteLoopbackToDialHost(multiaddrs), k)
                               \in Addrs \cup {NoAddr}
        BY <1>0, PicksAreAddresses
      <3> QED
        BY <3>1, <3>2
    <2> QED
      BY <1>0, <1>2, <2>1, OrderIsATodo DEF StatusLoaded, dialVars
  <1>3. CASE StatusEmpty \/ Exit \/ Aborted \/ AppendReport
    BY <1>0, <1>3 DEF StatusEmpty, Exit, Aborted, AppendReport, dialVars
  <1>4. ASSUME at = "idle" \/ at = "done", todo # <<>>,
               NEW o \in {"OK", "FAIL", "MISMATCH", "SKIP"}, NextTransport(o)
        PROVE  /\ lines' \in Seq([kind : Kinds,
                                  outcome : {"OK", "FAIL", "MISMATCH", "SKIP"}])
               /\ todo' \in {SubSeq(Order, i, Len(Order)) : i \in 1 .. Len(Order) + 1}
               /\ rung' \in 1 .. Len(Ladder)
    <2>1. Line(Head(todo), o) \in [kind : Kinds, outcome : {"OK", "FAIL", "MISMATCH", "SKIP"}]
      BY <1>0, <1>4, TodoFacts DEF Line
    <2>2. lines' \in Seq([kind : Kinds, outcome : {"OK", "FAIL", "MISMATCH", "SKIP"}])
      BY <1>0, <1>4, <2>1, AppendFacts DEF NextTransport
    <2>3. todo' \in {SubSeq(Order, i, Len(Order)) : i \in 1 .. Len(Order) + 1}
      BY <1>0, <1>4, TodoFacts DEF NextTransport
    <2>4. 1 \in 1 .. Len(Ladder)
      BY <1>1
    <2> QED
      BY <1>4, <2>2, <2>3, <2>4 DEF NextTransport
  <1>5. CASE Skip
    BY <1>0, <1>4, <1>5 DEF Skip, runVars, dialVars
  <1>6. CASE Report
    <2>1. todo # <<>> /\ at = "done"
      BY <1>0, <1>6 DEF Report, PhaseInv
    <2>2. /\ lines' \in Seq([kind : Kinds, outcome : {"OK", "FAIL", "MISMATCH", "SKIP"}])
          /\ todo' \in {SubSeq(Order, i, Len(Order)) : i \in 1 .. Len(Order) + 1}
          /\ rung' \in 1 .. Len(Ladder)
      <3>1. CASE NextTransport(Outcome)
        BY <1>4, <2>1, <3>1, OutcomeType
      <3>2. CASE /\ lines' = Append(lines, Line(Head(todo), Outcome))
                 /\ rung < Len(Ladder) /\ rung' = rung + 1 /\ UNCHANGED todo
        <4>1. Line(Head(todo), Outcome) \in [kind : Kinds, outcome : {"OK", "FAIL", "MISMATCH", "SKIP"}]
          BY <1>0, <2>1, TodoFacts, OutcomeType DEF Line
        <4>2. lines' \in Seq([kind : Kinds, outcome : {"OK", "FAIL", "MISMATCH", "SKIP"}])
          BY <1>0, <3>2, <4>1, AppendFacts
        <4>3. rung' \in 1 .. Len(Ladder)
          BY <1>0, <1>1, <3>2
        <4> QED
          BY <1>0, <3>2, <4>2, <4>3
      <3> QED
        BY <1>6, <3>1, <3>2 DEF Report
    <2> QED
      BY <1>0, <1>1, <1>6, <2>2, NoText DEF Report, runVars, Pieces
  <1>7. CASE StartNode
    BY <1>0, <1>1, <1>7 DEF StartNode, DialOnly, runVars
  <1>8. CASE ParseAddress
    <2>1. Len(todo) \in 0 .. 4 /\ todo # <<>> /\ Len(todo) # 0
      BY <1>0, <1>8, TodoFacts DEF ParseAddress, PhaseInv
    <2>2. left + Len(todo) <= 4
      BY <1>0, <1>1, <1>8 DEF ParseAddress, LeftInv
    <2>3. left' \in 0 .. Len(Order)
      BY <1>0, <1>1, <1>8, <2>1, <2>2 DEF ParseAddress
    <2> QED
      BY <1>0, <1>1, <1>8, <2>3 DEF ParseAddress, DialOnly, runVars
  <1>9. CASE DialEcho
    <2>1. buf = <<>> /\ rest = <<>>
      BY <1>0, <1>9 DEF DialEcho, PhaseInv
    <2>2. rest' \in Seq(ToSet(Answer)) /\ buf' \o rest' \in Texts
      BY <1>0, <1>9, <2>1, NoText, TextFacts DEF DialEcho, Pieces
    <2> QED
      BY <1>0, <1>1, <1>9, <2>2 DEF DialEcho, DialOnly, runVars
  <1>10. CASE DialBulk
    BY <1>0, <1>1, <1>10 DEF DialBulk, DialOnly, runVars
  <1>11. CASE Chunk
    <2>1. /\ buf' \in Texts /\ rest' \in Seq(ToSet(Answer)) /\ buf' \o rest' \in Texts
          /\ at' \in {at, "stopping"} /\ result' \in Results
      BY <1>0, <1>1, <1>11, ChunkSteps DEF Pieces
    <2> QED
      BY <1>0, <1>11, <2>1 DEF Chunk, DialOnly, runVars
  <1>12. CASE StreamEnds
    BY <1>0, <1>1, <1>12 DEF StreamEnds, DialOnly, runVars
  <1>13. CASE StopNode
    BY <1>0, <1>13 DEF StopNode, DialOnly, runVars
  <1>14. CASE UNCHANGED vars
    BY <1>0, <1>14 DEF vars
  <1> QED
    BY <1>2, <1>3, <1>5, <1>6, <1>7, <1>8, <1>9, <1>10, <1>11, <1>12, <1>13, <1>14
       DEF Next, Work, Dial

LEMMA PhaseStep ==
  ASSUME IInv, [Next]_vars
  PROVE  PhaseInv'
  <1>0. TypeOK /\ PhaseInv
    BY DEF IInv
  <1> USE DEF PhaseInv
  <1>1. CASE StatusLoaded \/ StatusEmpty
    BY <1>0, <1>1 DEF StatusLoaded, StatusEmpty, dialVars
  <1>2. CASE Exit \/ Aborted
    BY <1>0, <1>2 DEF Exit, Aborted, dialVars
  <1>3. CASE phase = "run" /\ (Skip \/ Report \/ AppendReport)
    BY <1>0, <1>3 DEF Skip, Report, AppendReport, runVars, dialVars
  <1>4. CASE phase = "run" /\ (StartNode \/ ParseAddress)
    BY <1>0, <1>4 DEF StartNode, ParseAddress, DialOnly, runVars
  <1>5. CASE phase = "run" /\ (DialEcho \/ DialBulk)
    BY <1>0, <1>5 DEF DialEcho, DialBulk, DialOnly, runVars
  <1>6. CASE phase = "run" /\ Chunk
    <2>1. at' \in {at, "stopping"}
      BY <1>0, <1>6, ChunkSteps
    <2> QED
      BY <1>0, <1>6, <2>1 DEF Chunk, DialOnly, runVars
  <1>7. CASE phase = "run" /\ (StreamEnds \/ StopNode)
    BY <1>0, <1>7 DEF StreamEnds, StopNode, DialOnly, runVars
  <1>8. CASE UNCHANGED vars
    BY <1>0, <1>8 DEF vars
  <1> QED
    BY <1>1, <1>2, <1>3, <1>4, <1>5, <1>6, <1>7, <1>8 DEF Next, Work, Dial

LEMMA ResultStep ==
  ASSUME IInv, [Next]_vars
  PROVE  ResultInv'
  <1>0. TypeOK /\ PhaseInv /\ ResultInv
    BY DEF IInv
  <1> USE DEF ResultInv, Ended, Reply
  <1>1. CASE StatusLoaded \/ StatusEmpty \/ Exit \/ Aborted
    BY <1>0, <1>1 DEF StatusLoaded, StatusEmpty, Exit, Aborted, dialVars
  <1>2. CASE Skip \/ Report \/ AppendReport
    BY <1>0, <1>2 DEF Skip, Report, AppendReport, runVars, dialVars
  <1>3. CASE StartNode \/ ParseAddress
    BY <1>0, <1>3 DEF StartNode, ParseAddress, DialOnly, runVars
  <1>4. CASE DialEcho \/ DialBulk
    BY <1>0, <1>4 DEF DialEcho, DialBulk, DialOnly, runVars
  <1>5. CASE Chunk
    <2>1. \/ UNCHANGED <<at, result>>
          \/ at' = "stopping" /\ result'.how = "reply"
      BY <1>0, <1>5, ChunkSteps
    <2> QED
      BY <1>0, <1>5, <2>1 DEF Chunk, DialOnly, runVars
  <1>6. CASE StreamEnds \/ StopNode
    BY <1>0, <1>6 DEF StreamEnds, StopNode, DialOnly, runVars
  <1>7. CASE UNCHANGED vars
    BY <1>0, <1>7 DEF vars
  <1> QED
    BY <1>1, <1>2, <1>3, <1>4, <1>5, <1>6, <1>7 DEF Next, Work, Dial

LEMMA LeftStep ==
  ASSUME IInv, [Next]_vars
  PROVE  LeftInv'
  <1>0. TypeOK /\ PhaseInv /\ LeftInv
    BY DEF IInv
  <1>1. Len(Order) = 4 /\ left \in 0 .. 4 /\ Len(todo) \in 0 .. 4
    BY <1>0, OrderFacts, TodoFacts DEF TypeOK
  <1>2. todo # <<>> => Len(Tail(todo)) = Len(todo) - 1 /\ Len(todo) # 0
    BY <1>0, TodoFacts
  <1> USE DEF LeftInv, Ended, Reply
  <1>3. CASE StatusLoaded
    <2>1. left' = 0 /\ todo' = Order
      BY <1>0, <1>3 DEF StatusLoaded, PhaseInv, dialVars
    <2>2. left' + Len(todo') = 4
      BY <1>1, <2>1
    <2> HIDE DEF Ended, Reply
    <2> QED
      BY <1>1, <2>2
  <1>4. CASE StatusEmpty \/ Exit \/ Aborted \/ AppendReport
    BY <1>0, <1>4 DEF StatusEmpty, Exit, Aborted, AppendReport, dialVars
  <1>5. CASE Skip
    BY <1>0, <1>1, <1>2, <1>5 DEF Skip, NextTransport, runVars, dialVars
  <1>6. CASE Report
    <2>1. todo # <<>>
      BY <1>0, <1>6 DEF Report, PhaseInv
    <2> QED
      BY <1>0, <1>1, <1>2, <1>6, <2>1 DEF Report, NextTransport
  <1>7. CASE StartNode
    BY <1>0, <1>1, <1>7 DEF StartNode, DialOnly
  <1>8. CASE ParseAddress
    BY <1>0, <1>1, <1>8 DEF ParseAddress, DialOnly
  <1>9. CASE DialEcho \/ DialBulk
    BY <1>0, <1>1, <1>9 DEF DialEcho, DialBulk, DialOnly
  <1>10. CASE Chunk
    <2>1. at # "done" /\ at' # "done"
      BY <1>0, <1>10, ChunkSteps DEF Chunk
    <2> QED
      BY <1>0, <1>1, <1>10, <2>1 DEF Chunk, DialOnly
  <1>11. CASE StreamEnds \/ StopNode
    BY <1>0, <1>1, <1>11 DEF StreamEnds, StopNode, DialOnly
  <1>12. CASE UNCHANGED vars
    BY <1>0, <1>12 DEF vars
  <1> QED
    BY <1>3, <1>4, <1>5, <1>6, <1>7, <1>8, <1>9, <1>10, <1>11, <1>12 DEF Next, Work, Dial

----------------------------------------------------------------------------
\* Lines.

LineSet == [kind : Kinds, outcome : {"OK", "FAIL", "MISMATCH", "SKIP"}]

\* Whole and InOrder, of any list of lines.
WholeIn(ls, ps, pl, kind) ==
  \E first, last \in DOMAIN ls :
    /\ {i \in DOMAIN ls : ls[i].kind = kind} = first .. last
    /\ first <= last
    /\ \A i \in first .. last - 1 : ls[i].outcome = "OK"
    /\ ps[kind] = NoAddr <=> ls[last].outcome = "SKIP"
    /\ first = last \/ pl = "escalate"
    /\ pl = "escalate" /\ ls[last].outcome = "OK"
         => last - first + 1 = Len(Ladder)

OrderedIn(ls) ==
  \A m, n \in DOMAIN Order : \A i, j \in DOMAIN ls :
    ls[i].kind = Order[m] /\ ls[j].kind = Order[n] /\ m < n => i < j

LEMMA InTheState ==
  /\ \A k : Whole(k) <=> WholeIn(lines, picks, plan, k)
  /\ InOrder <=> OrderedIn(lines)
  BY DEF Whole, InOrder, WholeIn, OrderedIn

LEMMA InTheNextState ==
  /\ \A m : Whole(Order[m])' <=> WholeIn(lines', picks', plan', Order[m])
  /\ \A k : Whole(k)' <=> WholeIn(lines', picks', plan', k)
  /\ InOrder' <=> OrderedIn(lines')
  BY DEF Whole, InOrder, WholeIn, OrderedIn

\* more is ls, of n lines, and one line.
OneMore(n, ls, more) ==
  /\ n \in Nat /\ DOMAIN ls = 1 .. n /\ DOMAIN more = 1 .. n + 1
  /\ \A i \in 1 .. n : more[i] = ls[i]

\* The lines of ls above cut are all those of a transport, its last excepted.
Rungs(ls, n, cut, kind) ==
  /\ cut \in 0 .. n
  /\ \A i \in 1 .. cut : ls[i].kind # kind
  /\ \A i \in cut + 1 .. n : ls[i].kind = kind /\ ls[i].outcome = "OK"

\* The lines of ls are of the first p transports.
UpTo(ls, n, p) ==
  /\ p \in 1 .. 4
  /\ \A i \in 1 .. n : \E q \in 1 .. p : ls[i].kind = Order[q]

\* A line of another transport leaves the block of a transport whole.
LEMMA WholeKept ==
  ASSUME NEW n, NEW ls, NEW more, NEW ps, NEW pl, NEW kind,
         OneMore(n, ls, more), more[n + 1].kind # kind,
         WholeIn(ls, ps, pl, kind)
  PROVE  WholeIn(more, ps, pl, kind)
  <1> USE DEF OneMore
  <1>1. PICK first \in 1 .. n : \E last \in 1 .. n :
          /\ {i \in 1 .. n : ls[i].kind = kind} = first .. last
          /\ first <= last
          /\ \A i \in first .. last - 1 : ls[i].outcome = "OK"
          /\ ps[kind] = NoAddr <=> ls[last].outcome = "SKIP"
          /\ first = last \/ pl = "escalate"
          /\ pl = "escalate" /\ ls[last].outcome = "OK"
               => last - first + 1 = Len(Ladder)
    BY DEF WholeIn
  <1>2. PICK last \in 1 .. n :
          /\ {i \in 1 .. n : ls[i].kind = kind} = first .. last
          /\ first <= last
          /\ \A i \in first .. last - 1 : ls[i].outcome = "OK"
          /\ ps[kind] = NoAddr <=> ls[last].outcome = "SKIP"
          /\ first = last \/ pl = "escalate"
          /\ pl = "escalate" /\ ls[last].outcome = "OK"
               => last - first + 1 = Len(Ladder)
    BY <1>1
  <1>3. {i \in 1 .. n + 1 : more[i].kind = kind} = {i \in 1 .. n : ls[i].kind = kind}
    <2>1. \A i \in 1 .. n + 1 : i \in 1 .. n \/ i = n + 1
      OBVIOUS
    <2>2. \A i \in 1 .. n : i \in 1 .. n + 1
      OBVIOUS
    <2> QED
      BY <2>1, <2>2
  <1>4. \A i \in first .. last - 1 : i \in 1 .. n /\ more[i].outcome = "OK"
    BY <1>2
  <1>5. more[last] = ls[last] /\ first \in DOMAIN more /\ last \in DOMAIN more
    BY <1>1, <1>2
  <1>6. {i \in DOMAIN more : more[i].kind = kind} = first .. last
    BY <1>2, <1>3
  <1> QED
    BY <1>2, <1>4, <1>5, <1>6 DEF WholeIn

\* The last line of a transport makes its block whole.
LEMMA BlockIsWhole ==
  ASSUME NEW n, NEW ls, NEW more, NEW ps, NEW pl, NEW kind, NEW cut,
         OneMore(n, ls, more), Rungs(ls, n, cut, kind),
         more[n + 1].kind = kind,
         ps[kind] = NoAddr <=> more[n + 1].outcome = "SKIP",
         cut = n \/ pl = "escalate",
         pl = "escalate" /\ more[n + 1].outcome = "OK" => n + 1 - cut = Len(Ladder)
  PROVE  WholeIn(more, ps, pl, kind)
  <1> USE DEF OneMore, Rungs
  <1>1. cut + 1 \in 1 .. n + 1 /\ n + 1 \in 1 .. n + 1 /\ cut + 1 <= n + 1
    OBVIOUS
  <1>2. \A i \in 1 .. n + 1 : more[i].kind = kind <=> i \in cut + 1 .. n + 1
    <2>1. \A i \in 1 .. n + 1 : i \in 1 .. cut \/ i \in cut + 1 .. n \/ i = n + 1
      OBVIOUS
    <2>2. \A i \in 1 .. cut : i \in 1 .. n /\ ~ (i \in cut + 1 .. n + 1)
      OBVIOUS
    <2>3. \A i \in cut + 1 .. n : i \in 1 .. n /\ i \in cut + 1 .. n + 1
      OBVIOUS
    <2>4. ASSUME NEW i \in 1 .. n + 1
          PROVE  more[i].kind = kind <=> i \in cut + 1 .. n + 1
      BY <1>1, <2>1, <2>2, <2>3
    <2> QED
      BY <2>4
  <1>3. {i \in DOMAIN more : more[i].kind = kind} = cut + 1 .. n + 1
    <2>1. \A i \in cut + 1 .. n + 1 : i \in 1 .. n + 1
      OBVIOUS
    <2> QED
      BY <1>2, <2>1
  <1>4. \A i \in cut + 1 .. n + 1 - 1 : more[i].outcome = "OK"
    <2>1. \A i \in cut + 1 .. n + 1 - 1 : i \in cut + 1 .. n /\ i \in 1 .. n
      OBVIOUS
    <2> QED
      BY <2>1
  <1>5. /\ cut + 1 = n + 1 \/ pl = "escalate"
        /\ pl = "escalate" /\ more[n + 1].outcome = "OK"
             => n + 1 - (cut + 1) + 1 = Len(Ladder)
    <2>1. n + 1 - (cut + 1) + 1 = n + 1 - cut
      OBVIOUS
    <2> QED
      BY <2>1
  <1> QED
    <2> DEFINE first == cut + 1
               last == n + 1
    <2>1. /\ first \in DOMAIN more /\ last \in DOMAIN more
          /\ {i \in DOMAIN more : more[i].kind = kind} = first .. last
          /\ first <= last
          /\ \A i \in first .. last - 1 : more[i].outcome = "OK"
          /\ ps[kind] = NoAddr <=> more[last].outcome = "SKIP"
          /\ first = last \/ pl = "escalate"
          /\ pl = "escalate" /\ more[last].outcome = "OK"
               => last - first + 1 = Len(Ladder)
      BY <1>1, <1>3, <1>4, <1>5
    <2> HIDE DEF first, last
    <2> QED
      BY <2>1 DEF WholeIn

\* A line of the transport under way keeps the order.
LEMMA OrderKept ==
  ASSUME NEW n, NEW ls, NEW more, NEW p,
         OneMore(n, ls, more), UpTo(ls, n, p),
         more[n + 1].kind = Order[p],
         OrderedIn(ls)
  PROVE  OrderedIn(more)
  <1> USE DEF OneMore, UpTo
  <1>1. DOMAIN Order = 1 .. 4
    BY OrderFacts, LenProperties
  <1>2. SUFFICES ASSUME NEW a \in 1 .. 4, NEW b \in 1 .. 4,
                        NEW i \in 1 .. n + 1, NEW j \in 1 .. n + 1,
                        more[i].kind = Order[a], more[j].kind = Order[b], a < b
                 PROVE  i < j
    BY <1>1 DEF OrderedIn
  <1>3. CASE i \in 1 .. n /\ j \in 1 .. n
    BY <1>1, <1>2, <1>3 DEF OrderedIn
  <1>4. CASE i \in 1 .. n /\ j = n + 1
    BY <1>4
  <1>5. CASE i = n + 1
    <2>1. a = p
      BY <1>2, <1>5, OrderFacts
    <2>2. j # n + 1
      BY <1>2, <1>5, OrderFacts
    <2>3. j \in 1 .. n
      BY <2>2
    <2>4. PICK q \in 1 .. p : ls[j].kind = Order[q]
      BY <2>3
    <2>5. q \in 1 .. 4
      BY <2>4
    <2>6. b = q
      BY <1>2, <2>3, <2>4, <2>5, OrderFacts
    <2> QED
      BY <1>2, <2>1, <2>4, <2>6
  <1>6. i \in 1 .. n \/ i = n + 1
    OBVIOUS
  <1>7. j \in 1 .. n \/ j = n + 1
    OBVIOUS
  <1> QED
    BY <1>3, <1>4, <1>5, <1>6, <1>7

\* A further line of the transport under way.
LEMMA LineAppended ==
  ASSUME IInv, phase = "run", todo # <<>>,
         NEW o \in {"OK", "FAIL", "MISMATCH", "SKIP"},
         lines' = Append(lines, Line(Head(todo), o)),
         UNCHANGED <<picks, plan>>
  PROVE  /\ Len(lines) \in Nat /\ Len(lines') = Len(lines) + 1
         /\ DOMAIN lines = 1 .. Len(lines) /\ DOMAIN lines' = 1 .. Len(lines) + 1
         /\ \A i \in 1 .. Len(lines) : lines'[i] = lines[i]
         /\ lines'[Len(lines) + 1] = Line(Head(todo), o)
         /\ Position \in 1 .. 4 /\ Head(todo) = Order[Position]
         /\ Cut \in 0 .. Len(lines)
         /\ \A m \in 1 .. Position - 1 : WholeIn(lines', picks', plan', Order[m])
         /\ \A i \in 1 .. Cut : \E m \in 1 .. Position - 1 : lines[i].kind = Order[m]
         /\ \A i \in Cut + 1 .. Len(lines) : lines[i] = Line(Head(todo), "OK")
         /\ \A i \in 1 .. Len(lines) : \E m \in 1 .. Position : lines[i].kind = Order[m]
         /\ OrderedIn(lines')
  <1>1. TypeOK /\ LinesInv
    BY DEF IInv
  <1>2. Position \in 1 .. 4 /\ Head(todo) = Order[Position] /\ Head(todo) \in Kinds
    BY <1>1, TodoFacts
  <1>3. Line(Head(todo), o) \in [kind : Kinds, outcome : {"OK", "FAIL", "MISMATCH", "SKIP"}]
    BY <1>2 DEF Line
  <1>4. /\ Len(lines) \in Nat /\ Len(lines') = Len(lines) + 1
        /\ DOMAIN lines = 1 .. Len(lines) /\ DOMAIN lines' = 1 .. Len(lines) + 1
        /\ \A i \in 1 .. Len(lines) : lines'[i] = lines[i]
        /\ lines'[Len(lines) + 1] = Line(Head(todo), o)
    BY <1>1, <1>3, AppendFacts
  <1>5. /\ Cut \in 0 .. Len(lines)
        /\ \A m \in 1 .. Position - 1 : Whole(Order[m])
        /\ \A i \in 1 .. Cut : \E m \in 1 .. Position - 1 : lines[i].kind = Order[m]
        /\ \A i \in Cut + 1 .. Len(lines) : lines[i] = Line(Head(todo), "OK")
        /\ OrderedIn(lines)
    BY <1>1, InTheState DEF LinesInv
  <1> HIDE DEF Cut, Position
  <1>6. ASSUME NEW i \in 1 .. Len(lines)
        PROVE  \E m \in 1 .. Position : lines[i].kind = Order[m]
    <2>1. CASE i \in 1 .. Cut
      <3>1. PICK m \in 1 .. Position - 1 : lines[i].kind = Order[m]
        BY <1>5, <2>1
      <3>2. m \in 1 .. Position
        BY <1>2
      <3> QED
        BY <3>1, <3>2
    <2>2. CASE i \in Cut + 1 .. Len(lines)
      <3>1. lines[i].kind = Order[Position] /\ Position \in 1 .. Position
        BY <1>2, <1>5, <2>2 DEF Line
      <3> QED
        BY <3>1
    <2>3. i \in 1 .. Cut \/ i \in Cut + 1 .. Len(lines)
      BY <1>4, <1>5
    <2> QED
      BY <2>1, <2>2, <2>3
  <1>7. ASSUME NEW m \in 1 .. Position - 1
        PROVE  WholeIn(lines', picks', plan', Order[m])
    <2>1. WholeIn(lines, picks, plan, Order[m])
      BY <1>5, InTheState
    <2>2. m \in 1 .. 4 /\ m # Position
      BY <1>2
    <2>3. lines'[Len(lines) + 1].kind # Order[m]
      BY <1>2, <1>4, <2>2, OrderFacts DEF Line
    <2>4. OneMore(Len(lines), lines, lines')
      BY <1>4 DEF OneMore
    <2>5. WholeIn(lines', picks, plan, Order[m])
      BY <2>1, <2>3, <2>4, WholeKept
    <2> QED
      BY <2>5
  <1>8. OrderedIn(lines')
    <2>1. lines'[Len(lines) + 1].kind = Order[Position]
      BY <1>2, <1>4 DEF Line
    <2>2. OneMore(Len(lines), lines, lines') /\ UpTo(lines, Len(lines), Position)
      BY <1>2, <1>4, <1>6 DEF OneMore, UpTo
    <2> QED
      BY <1>5, <2>1, <2>2, OrderKept
  <1> QED
    BY <1>2, <1>4, <1>5, <1>6, <1>7, <1>8

\* The run goes on to the next transport.
LEMMA LinesNext ==
  ASSUME IInv, phase = "run", todo # <<>>,
         NEW o \in {"OK", "FAIL", "MISMATCH", "SKIP"}, NextTransport(o),
         UNCHANGED <<picks, plan>>,
         picks[Head(todo)] = NoAddr <=> o = "SKIP",
         plan = "escalate" /\ o = "OK" => rung = Len(Ladder)
  PROVE  LinesInv'
  <1>1. TypeOK /\ LinesInv
    BY DEF IInv
  <1>2. lines' = Append(lines, Line(Head(todo), o)) /\ todo' = Tail(todo) /\ rung' = 1
    BY DEF NextTransport
  <1> DEFINE n == Len(lines)
  <1>3. /\ n \in Nat /\ Len(lines') = n + 1
        /\ DOMAIN lines = 1 .. n /\ DOMAIN lines' = 1 .. n + 1
        /\ \A i \in 1 .. n : lines'[i] = lines[i]
        /\ lines'[n + 1] = Line(Head(todo), o)
        /\ Position \in 1 .. 4 /\ Head(todo) = Order[Position]
        /\ Cut \in 0 .. n
        /\ \A m \in 1 .. Position - 1 : WholeIn(lines', picks', plan', Order[m])
        /\ \A i \in 1 .. Cut : \E m \in 1 .. Position - 1 : lines[i].kind = Order[m]
        /\ \A i \in Cut + 1 .. n : lines[i] = Line(Head(todo), "OK")
        /\ \A i \in 1 .. n : \E m \in 1 .. Position : lines[i].kind = Order[m]
        /\ OrderedIn(lines')
    BY <1>2, LineAppended
  <1>4. rung \in Nat /\ Cut = n - (rung - 1) /\ (rung > 1 => plan = "escalate")
    <2>1. rung \in Nat
      BY <1>1, MatrixAssumption DEF TypeOK
    <2> QED
      BY <1>1, <2>1 DEF Cut, LinesInv
  <1>5. Position' = Position + 1
    <2>1. Len(Tail(todo)) = Len(todo) - 1 /\ Len(todo) \in 0 .. 4 /\ Len(Order) = 4
      BY <1>1, TodoFacts, OrderFacts
    <2> QED
      BY <1>2, <2>1 DEF Position
  <1>6. Cut' = n + 1
    BY <1>2, <1>3 DEF Cut
  <1> HIDE DEF n
  <1>7. WholeIn(lines', picks', plan', Order[Position])
    <2>1. ASSUME NEW i \in 1 .. Cut PROVE lines[i].kind # Order[Position]
      <3>1. PICK m \in 1 .. Position - 1 : lines[i].kind = Order[m]
        BY <1>3
      <3>2. m \in 1 .. 4 /\ m # Position
        BY <1>3
      <3> QED
        BY <1>3, <3>1, <3>2, OrderFacts
    <2>2. \A i \in Cut + 1 .. n : lines[i].kind = Order[Position] /\ lines[i].outcome = "OK"
      BY <1>3 DEF Line
    <2>3. lines'[n + 1].kind = Order[Position] /\ lines'[n + 1].outcome = o
      BY <1>3 DEF Line
    <2>4. Cut = n \/ plan = "escalate"
      BY <1>3, <1>4
    <2>5. plan = "escalate" /\ o = "OK" => n + 1 - Cut = Len(Ladder)
      BY <1>3, <1>4
    <2>6. picks[Order[Position]] = NoAddr <=> o = "SKIP"
      BY <1>3
    <2>7. WholeIn(lines', picks, plan, Order[Position])
      <3>1. OneMore(n, lines, lines') /\ Rungs(lines, n, Cut, Order[Position])
        BY <1>3, <2>1, <2>2 DEF OneMore, Rungs
      <3> QED
        BY <2>3, <2>4, <2>5, <2>6, <3>1, BlockIsWhole
    <2> QED
      BY <2>7
  <1>8. \A m \in 1 .. Position' - 1 : Whole(Order[m])'
    <2>1. \A m \in 1 .. Position' - 1 : m \in 1 .. Position - 1 \/ m = Position
      BY <1>3, <1>5
    <2> QED
      BY <1>3, <1>7, <2>1, InTheNextState
  <1>9. \A i \in 1 .. Cut' : \E m \in 1 .. Position' - 1 : lines'[i].kind = Order[m]
    <2>1. ASSUME NEW i \in 1 .. n + 1
          PROVE  \E m \in 1 .. Position : lines'[i].kind = Order[m]
      <3>1. CASE i \in 1 .. n
        BY <1>3, <3>1
      <3>2. CASE i = n + 1
        <4>1. Position \in 1 .. Position /\ lines'[i].kind = Order[Position]
          BY <1>3, <3>2 DEF Line
        <4> QED
          BY <4>1
      <3>3. i \in 1 .. n \/ i = n + 1
        BY <1>3
      <3> QED
        BY <3>1, <3>2, <3>3
    <2>2. Position' - 1 = Position
      BY <1>3, <1>5
    <2> QED
      BY <1>6, <2>1, <2>2
  <1>10. Cut' \in 0 .. Len(lines') /\ Cut' + 1 .. Len(lines') = {} /\ ~ (rung' > 1)
    BY <1>2, <1>3, <1>6
  <1>11. InOrder'
    BY <1>3, InTheNextState
  <1> QED
    BY <1>8, <1>9, <1>10, <1>11 DEF LinesInv

\* The transport under way climbs the ladder.
LEMMA LinesClimb ==
  ASSUME IInv, phase = "run", todo # <<>>, plan = "escalate",
         picks[Head(todo)] # NoAddr,
         lines' = Append(lines, Line(Head(todo), "OK")),
         rung' = rung + 1, UNCHANGED <<todo, picks, plan>>
  PROVE  LinesInv'
  <1>1. TypeOK /\ LinesInv
    BY DEF IInv
  <1> DEFINE n == Len(lines)
  <1>2. /\ n \in Nat /\ Len(lines') = n + 1
        /\ DOMAIN lines = 1 .. n /\ DOMAIN lines' = 1 .. n + 1
        /\ \A i \in 1 .. n : lines'[i] = lines[i]
        /\ lines'[n + 1] = Line(Head(todo), "OK")
        /\ Cut \in 0 .. n
        /\ \A m \in 1 .. Position - 1 : WholeIn(lines', picks', plan', Order[m])
        /\ \A i \in 1 .. Cut : \E m \in 1 .. Position - 1 : lines[i].kind = Order[m]
        /\ \A i \in Cut + 1 .. n : lines[i] = Line(Head(todo), "OK")
        /\ OrderedIn(lines')
    BY LineAppended
  <1>3. Position' = Position
    BY DEF Position
  <1>4. Cut' = Cut
    <2>1. rung \in Nat
      BY <1>1, MatrixAssumption DEF TypeOK
    <2> QED
      BY <1>2, <2>1 DEF Cut
  <1> HIDE DEF n
  <1>5. \A m \in 1 .. Position' - 1 : Whole(Order[m])'
    BY <1>2, <1>3, InTheNextState
  <1>6. \A i \in 1 .. Cut' : \E m \in 1 .. Position' - 1 : lines'[i].kind = Order[m]
    <2>1. \A i \in 1 .. Cut : lines'[i] = lines[i]
      BY <1>2
    <2> QED
      BY <1>2, <1>3, <1>4, <2>1
  <1>7. \A i \in Cut' + 1 .. Len(lines') : lines'[i] = Line(Head(todo'), "OK")
    <2>1. \A i \in Cut + 1 .. n + 1 : i \in Cut + 1 .. n \/ i = n + 1
      BY <1>2
    <2>2. \A i \in Cut + 1 .. n : i \in 1 .. n
      BY <1>2
    <2> QED
      BY <1>2, <1>4, <2>1, <2>2
  <1>8. Cut' \in 0 .. Len(lines')
    BY <1>2, <1>4
  <1>9. InOrder'
    BY <1>2, InTheNextState
  <1> QED
    BY <1>5, <1>6, <1>7, <1>8, <1>9 DEF LinesInv

\* The state of a run that writes no line.
LEMMA LinesUnchanged ==
  ASSUME LinesInv, UNCHANGED <<phase, lines, rung, todo, picks, plan>>
  PROVE  LinesInv'
  <1>1. Position' = Position /\ Cut' = Cut
    BY DEF Position, Cut
  <1>2. \A k : Whole(k)' <=> Whole(k)
    BY InTheState, InTheNextState
  <1>3. \A m \in 1 .. Position - 1 : Whole(Order[m])' <=> Whole(Order[m])
    BY InTheState, InTheNextState
  <1>4. InOrder' <=> InOrder
    BY InTheState, InTheNextState
  <1> QED
    BY <1>1, <1>2, <1>3, <1>4 DEF LinesInv

LEMMA LinesStep ==
  ASSUME IInv, [Next]_vars
  PROVE  LinesInv'
  <1>0. TypeOK /\ PhaseInv /\ ResultInv /\ LinesInv
    BY DEF IInv
  <1>1. CASE StatusLoaded
    <2>1. phase = "status"
      BY <1>1 DEF StatusLoaded
    <2>2. lines' = <<>> /\ rung' = 1 /\ todo' = Order
      BY <1>0, <1>1, <2>1 DEF StatusLoaded, PhaseInv
    <2>3. Len(lines') = 0 /\ Len(todo') = 4 /\ Len(Order) = 4
      BY <2>2, EmptySeq, OrderFacts
    <2>4. Position' = 1
      BY <2>3 DEF Position
    <2>5. Cut' = 0
      BY <2>2, <2>3 DEF Cut
    <2>6. InOrder'
      BY <2>2 DEF InOrder
    <2>7. 1 .. Position' - 1 = {} /\ 1 .. Cut' = {} /\ Cut' + 1 .. Len(lines') = {}
          /\ Cut' \in 0 .. Len(lines') /\ ~ (rung' > 1)
      BY <2>2, <2>3, <2>4, <2>5
    <2> QED
      BY <2>6, <2>7 DEF LinesInv
  <1>2. CASE StatusEmpty \/ Exit \/ Aborted \/ AppendReport
    <2>1. phase' # "run"
      BY <1>2 DEF StatusEmpty, Exit, Aborted, AppendReport
    <2> QED
      BY <2>1 DEF LinesInv
  <1>3. CASE phase = "run" /\ Skip
    <2>1. /\ todo # <<>> /\ picks[Head(todo)] = NoAddr /\ NextTransport("SKIP")
          /\ UNCHANGED <<picks, plan>>
      BY <1>3 DEF Skip, runVars
    <2> QED
      BY <1>3, <2>1, LinesNext
  <1>4. CASE phase = "run" /\ Report
    <2>1. /\ todo # <<>> /\ picks[Head(todo)] # NoAddr /\ at = "done"
          /\ UNCHANGED <<picks, plan>>
      BY <1>0, <1>4 DEF Report, PhaseInv, runVars
    <2>2. rung \in 1 .. Len(Ladder) /\ Len(Ladder) \in Nat
      BY <1>0, MatrixAssumption DEF TypeOK
    <2>3. plan = "escalate" => result.how \in {"error", "ok", "fail"}
      BY <1>0, <2>1 DEF ResultInv
    <2>4. plan = "escalate" => (Outcome = "OK" <=> result.how = "ok")
      BY <2>3 DEF Outcome
    <2>5. CASE plan = "escalate" /\ result.how = "ok" /\ rung < Len(Ladder)
      <3>1. /\ lines' = Append(lines, Line(Head(todo), "OK"))
            /\ rung' = rung + 1 /\ UNCHANGED todo
        BY <1>4, <2>4, <2>5 DEF Report
      <3> QED
        BY <1>4, <2>1, <2>5, <3>1, LinesClimb
    <2>6. CASE ~ (plan = "escalate" /\ result.how = "ok" /\ rung < Len(Ladder))
      <3>1. NextTransport(Outcome)
        BY <1>4, <2>6 DEF Report
      <3>2. Outcome \in {"OK", "FAIL", "MISMATCH", "SKIP"} /\ Outcome # "SKIP"
        BY OutcomeType
      <3>3. plan = "escalate" /\ Outcome = "OK" => rung = Len(Ladder)
        BY <2>2, <2>4, <2>6
      <3> QED
        BY <1>4, <2>1, <3>1, <3>2, <3>3, LinesNext
    <2> QED
      BY <2>5, <2>6
  <1>5. CASE phase = "run" /\ Dial
    <2>1. UNCHANGED <<phase, lines, rung, todo, picks, plan>>
      BY <1>5 DEF Dial, StartNode, ParseAddress, DialEcho, DialBulk, Chunk,
                  StreamEnds, StopNode, DialOnly, runVars
    <2> QED
      BY <1>0, <2>1, LinesUnchanged
  <1>6. CASE UNCHANGED vars
    <2>1. UNCHANGED <<phase, lines, rung, todo, picks, plan>>
      BY <1>6 DEF vars
    <2> QED
      BY <1>0, <2>1, LinesUnchanged
  <1> QED
    BY <1>1, <1>2, <1>3, <1>4, <1>5, <1>6 DEF Next, Work

----------------------------------------------------------------------------
\* The report.

LEMMA ReportStep ==
  ASSUME IInv, [Next]_vars
  PROVE  ReportIsWhole'
  <1>0. TypeOK /\ PhaseInv /\ LinesInv /\ ReportIsWhole
    BY DEF IInv
  <1>1. SUFFICES ASSUME file' = "report"
                 PROVE  /\ \A k \in Kinds : Whole(k)'
                        /\ InOrder'
    BY DEF ReportIsWhole
  <1>2. CASE phase = "run" /\ AppendReport
    <2>1. todo = <<>> /\ UNCHANGED <<lines, picks, plan>>
      BY <1>2 DEF AppendReport
    <2>2. Position = 5
      BY <1>0, <2>1, TodoFacts
    <2>3. \A m \in 1 .. 4 : Whole(Order[m])
      <3>1. \A m \in 1 .. 4 : m \in 1 .. Position - 1
        BY <2>2
      <3> QED
        BY <1>0, <1>2, <3>1 DEF LinesInv
    <2>4. InOrder
      BY <1>0, <1>2 DEF LinesInv
    <2>5. ASSUME NEW k \in Kinds PROVE Whole(k)'
      <3>1. PICK m \in 1 .. 4 : Order[m] = k
        BY OrderFacts
      <3>2. Whole(k)
        BY <2>3, <3>1
      <3> QED
        BY <2>1, <3>2, InTheState, InTheNextState
    <2> QED
      BY <2>1, <2>4, <2>5, InTheState, InTheNextState
  <1>3. CASE ~ (phase = "run" /\ AppendReport)
    <2>1. file = "report" /\ UNCHANGED <<lines, picks, plan>>
      <3>1. file = "report"
        BY <1>1, <1>3 DEF Next, Work, Dial, StatusLoaded, StatusEmpty, Skip, Report,
           StartNode, ParseAddress, DialEcho, DialBulk, Chunk, StreamEnds, StopNode,
           Exit, Aborted, DialOnly, runVars, vars
      <3>2. phase \in {"returned", "exited"}
        BY <1>0, <3>1 DEF PhaseInv
      <3> QED
        BY <3>1, <3>2 DEF Next, Work, StatusLoaded, StatusEmpty, Exit, Aborted, vars
    <2> QED
      BY <1>0, <2>1, InTheState, InTheNextState DEF ReportIsWhole
  <1> QED
    BY <1>2, <1>3

LEMMA Inductive ==
  IInv /\ [Next]_vars => IInv'
  BY TypeStep, PhaseStep, ResultStep, LeftStep, LinesStep, ReportStep DEF IInv

----------------------------------------------------------------------------
\* The theorems.

\* Every variable of a run keeps its type, and so does what a dial has read:
\* always a beginning of the relay's answer, however it was cut into chunks
\* (readLine, stream-line.ts); no more nodes are left behind than there are
\* transports, and the ladder is never left.
THEOREM TypeCorrect ==
  Spec => []TypeOK
  <1>1. IInv => TypeOK
    BY DEF IInv
  <1> QED
    BY <1>1, InitHolds, Inductive, PTL DEF Spec

\* Whatever the status lists, the relay answers and the dials end with, and
\* whenever the run is ended: a report in the results file is whole
\* (main and bulkLinesForTransport, transport-matrix.ts).
THEOREM ReportWhole ==
  Spec => []ReportIsWhole
  <1>1. IInv => ReportIsWhole
    BY DEF IInv
  <1> QED
    BY <1>1, InitHolds, Inductive, PTL DEF Spec
=============================================================================
