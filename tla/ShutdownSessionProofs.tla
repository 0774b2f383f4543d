----------------------- MODULE ShutdownSessionProofs -----------------------
(***************************************************************************)
(* The session of the select client, for every input and every way to type *)
(* and to end it, and any sizes of the buffers in which a line fits: what  *)
(* is printed is what was typed, and the half-close loses nothing.         *)
(*                                                                         *)
(* The argument: the select server's own invariant holds in the session,   *)
(* since the client takes no step that the server could not expect.  So    *)
(* what is echoed is what was typed, and a connection that was closed has  *)
(* been read to its end.  The client's side is shut only when all of the   *)
(* input has been sent, and what the client prints is what was echoed.     *)
(***************************************************************************)
EXTENDS ShutdownSession, SelectServerProofs

\* How far the input has got: typed, read by stdio, returned by fgets, sent.
ClientTypeOK ==
    /\ cpc \in {"connect", "select", "readline", "fgets", "writen", "ended"}
    /\ typed \in Nat /\ typed <= Len(Stream[me])
    /\ stdio \in Nat /\ stdio <= typed
    /\ fetched \in Nat /\ fetched <= stdio
    /\ eof \in BOOLEAN
    /\ inbuf \in Seq(Nat) /\ printed \in Seq(Nat)

\* All that fgets returned is sent, but for the line that writen is at.
LinesSent == /\ sent[me] <= fetched
             /\ cpc # "writen" => sent[me] = fetched

\* The client's side is shut when everything has been sent; the server closes
\* only then.
ShutWhenSent ==
    /\ away[me] \in {"up", "fin"}
    /\ away[me] = "fin" => eof /\ fetched = typed /\ sent[me] = typed
    /\ link[me] = "closed" => away[me] = "fin"

\* What was received is printed, but for the start of a line.
LinesShown ==
    /\ got[me] <= Len(echoed[me])
    /\ got[me] = Len(printed) + Len(inbuf)
    /\ \A k \in 1 .. Len(printed) : printed[k] = Stream[me][k]
    /\ \A k \in 1 .. Len(inbuf) : /\ inbuf[k] = Stream[me][Len(printed) + k]
                                  /\ inbuf[k] # NL

EndsComplete == cpc = "ended" => EveryLinePrinted /\ eof

SessionInv == /\ Inv /\ EchoInv
              /\ ClientTypeOK /\ LinesSent /\ ShutWhenSent
              /\ LinesShown /\ EndsComplete

----------------------------------------------------------------------------
\* The bounds of the input.
LEMMA InputFacts ==
    ASSUME KernelInv, ClientTypeOK, LinesSent
    PROVE  /\ me \in Clients /\ \A c \in Clients : c = me
           /\ Stream[me] \in Seq(Nat) /\ Len(Stream[me]) \in Nat
           /\ taken[me] \in Nat /\ sent[me] \in Nat /\ taken[me] <= sent[me]
           /\ sent[me] <= fetched /\ sent[me] <= Len(Stream[me])
           /\ got[me] \in Nat /\ echoed[me] \in Seq(Nat) /\ Len(echoed[me]) \in Nat
<1>1. me \in Clients /\ \A c \in Clients : c = me
  BY SessionAssumption
<1> QED
  BY <1>1, StreamFacts DEF KernelInv, KernelTypeOK, LinesSent

\* No line fills the buffers: each part of that size has a '\n'.
LEMMA LinesAreShort ==
    ASSUME NEW n \in Nat, n + MAXLINE <= Len(Stream[me]) + 1
    PROVE  \E j \in n + 1 .. (n + MAXLINE) - 1 : Stream[me][j] = NL
<1>1. Len(Stream[me]) \in Nat /\ MAXLINE \in Nat
  BY KernelAssumption, SessionAssumption, MaxlineAssumption
<1>2. PICK k \in Nat : k = n + 1
  OBVIOUS
<1>3. k \in 1 .. (Len(Stream[me]) - MAXLINE) + 2
  BY <1>1, <1>2
<1>4. PICK j \in k .. k + (MAXLINE - 2) : Stream[me][j] = NL
  BY <1>3, SessionAssumption
<1>5. j \in n + 1 .. (n + MAXLINE) - 1
  BY <1>1, <1>2
<1> QED
  BY <1>4, <1>5

LEMMA NeverFilled ==
    ASSUME KernelInv, ClientTypeOK, LinesSent
    PROVE  ~ FilledBuffer(me)
<1> SUFFICES ASSUME NEW k \in 0 .. taken[me] - MAXLINE,
                    \A j \in k + 1 .. (k + MAXLINE) - 1 : Stream[me][j] # NL
             PROVE  FALSE
  <2>1. MAXLINE \in Nat /\ taken[me] \in Nat
    BY InputFacts, MaxlineAssumption
  <2>2. \A k \in 0 .. taken[me] - MAXLINE :
            k + (MAXLINE - 1) = (k + MAXLINE) - 1
    BY <2>1
  <2> QED
    BY <2>2 DEF FilledBuffer
<1>1. MAXLINE \in Nat /\ k \in Nat /\ k + MAXLINE <= Len(Stream[me]) + 1
  BY InputFacts, MaxlineAssumption
<1> QED
  BY <1>1, LinesAreShort

\* What is echoed is what was typed, and after the close no line is missing.
LEMMA EchoedIsTyped ==
    ASSUME SessionInv
    PROVE  /\ Len(echoed[me]) <= taken[me]
           /\ \A k \in 1 .. Len(echoed[me]) : echoed[me][k] = Stream[me][k]
<1>1. Owed(me, InHand(me)) /\ ~ FilledBuffer(me)
  BY InputFacts, NeverFilled DEF SessionInv, Inv, EchoInv
<1>2. PICK k \in 0 .. taken[me] : EchoedUpTo(me, k)
  BY <1>1 DEF Owed
<1> QED
  BY <1>2, InputFacts DEF EchoedUpTo, SessionInv, Inv

LEMMA ClosedIsEchoed ==
    ASSUME SessionInv, link[me] = "closed"
    PROVE  eof /\ \A j \in Len(echoed[me]) + 1 .. typed : Stream[me][j] # NL
<1>1. away[me] = "fin" /\ eof /\ sent[me] = typed
  BY DEF SessionInv, ShutWhenSent
<1>2. Owed(me, InHand(me)) /\ ~ FilledBuffer(me)
  BY InputFacts, NeverFilled DEF SessionInv, Inv, EchoInv
<1>3. LinesEchoed(me)
  BY <1>1, <1>2 DEF Owed
<1>4. PICK k \in 0 .. taken[me] :
         /\ EchoedUpTo(me, k)
         /\ \A j \in k + 1 .. taken[me] : Stream[me][j] # NL
         /\ taken[me] - k = MAXLINE \/ taken[me] = sent[me]
  BY <1>3 DEF LinesEchoed
<1>5. /\ taken[me] \in Nat /\ taken[me] <= Len(Stream[me]) /\ Len(Stream[me]) \in Nat
      /\ MAXLINE \in Nat
  BY InputFacts, MaxlineAssumption DEF SessionInv, Inv
<1>6. taken[me] - k # MAXLINE
  <2> SUFFICES ASSUME taken[me] - k = MAXLINE PROVE FALSE
    OBVIOUS
  <2>1. k \in Nat /\ k + MAXLINE = taken[me] /\ k + MAXLINE <= Len(Stream[me]) + 1
    BY <1>5
  <2>2. PICK j \in k + 1 .. (k + MAXLINE) - 1 : Stream[me][j] = NL
    BY <2>1, LinesAreShort
  <2>3. j \in k + 1 .. taken[me]
    BY <1>5, <2>1
  <2> QED
    BY <1>4, <2>2, <2>3
<1>7. k = Len(echoed[me])
  BY <1>4 DEF EchoedUpTo
<1> QED
  BY <1>1, <1>4, <1>6, <1>7

\* The client has printed its part of that.
LEMMA PrintedIsTyped == SessionInv => AllPrinted
<1> SUFFICES ASSUME SessionInv PROVE AllPrinted
  OBVIOUS
<1>1. /\ Len(printed) \in Nat /\ Len(inbuf) \in Nat /\ Len(printed) <= Len(Stream[me])
      /\ Len(Stream[me]) \in Nat /\ Stream[me] \in Seq(Nat) /\ printed \in Seq(Nat)
  <2>1. Len(echoed[me]) <= taken[me]
    BY EchoedIsTyped
  <2>2. Len(printed) \in Nat /\ Len(inbuf) \in Nat /\ printed \in Seq(Nat)
    BY DEF SessionInv, ClientTypeOK
  <2>3. got[me] <= Len(echoed[me]) /\ got[me] = Len(printed) + Len(inbuf)
    BY DEF SessionInv, LinesShown
  <2>4. /\ taken[me] \in Nat /\ taken[me] <= Len(Stream[me]) /\ Len(Stream[me]) \in Nat
        /\ Stream[me] \in Seq(Nat) /\ got[me] \in Nat /\ Len(echoed[me]) \in Nat
    BY InputFacts DEF SessionInv, Inv
  <2>5. Len(printed) <= Len(Stream[me])
    BY <2>1, <2>2, <2>3, <2>4
  <2> QED
    BY <2>2, <2>4, <2>5
<1>2. PICK n \in Nat : n = Len(printed)
  BY <1>1
<1>3. /\ SubSeq(Stream[me], 1, n) \in Seq(Nat) /\ Len(SubSeq(Stream[me], 1, n)) = n
      /\ \A j \in 1 .. n : SubSeq(Stream[me], 1, n)[j] = Stream[me][j]
  <2>1. 0 <= n /\ n <= Len(Stream[me]) /\ 0 \in Nat
    BY <1>1, <1>2
  <2>2. /\ SubSeq(Stream[me], 0 + 1, n) \in Seq(Nat) /\ Len(SubSeq(Stream[me], 0 + 1, n)) = n - 0
        /\ \A j \in 1 .. n - 0 : SubSeq(Stream[me], 0 + 1, n)[j] = Stream[me][0 + j]
    BY <1>1, <2>1, Piece
  <2> QED
    BY <2>2
<1>4. \A j \in 1 .. n : printed[j] = SubSeq(Stream[me], 1, n)[j]
  BY <1>2, <1>3 DEF SessionInv, LinesShown
<1>5. printed = SubSeq(Stream[me], 1, n)
  BY <1>1, <1>2, <1>3, <1>4, SeqEqual
<1> QED
  BY <1>2, <1>5 DEF AllPrinted, SessionInv, EndsComplete

----------------------------------------------------------------------------
(* The server's steps                                                      *)

LEMMA ServesKeeps == SessionInv /\ Serves => SessionInv'
<1> SUFFICES ASSUME SessionInv, Serves PROVE SessionInv'
  OBVIOUS
<1>1. Server /\ UNCHANGED <<cpc, typed, eof, stdio, fetched, input, inbuf, printed, shuts>>
  BY DEF Serves, user, loop
<1>2. Inv' /\ EchoInv'
  BY <1>1, InvStep, EchoStep DEF SessionInv, Next
<1>3. ClientTypeOK'
  BY <1>1 DEF SessionInv, ClientTypeOK
<1>4. /\ me \in Clients /\ \A c \in Clients : c = me
      /\ ~ WriteFails(me) /\ ~ ReadFails(me)
  BY InputFacts DEF SessionInv, Inv, ShutWhenSent, WriteFails, ReadFails
<1>5. InSession => Served = me
  BY <1>4, SessionFacts DEF SessionInv
<1>6. /\ UNCHANGED <<sent, away, got>>
      /\ link'[me] = "closed" => link[me] = "closed" \/ Close
      /\ Len(echoed[me]) <= Len(echoed'[me])
  <2>1. CASE Select \/ AcceptFails \/ Scan \/ ReadError
    BY <1>4, <2>1, InputFacts
       DEF Select, AcceptFails, Scan, ReadError, lineio, kernel, SessionInv, Inv
  <2>2. CASE Accept
    <3>1. PICK conn \in ConnFds : AcceptAs(conn)
      BY <2>2 DEF Accept
    <3>2. link'[me] = "open" \/ link'[me] = link[me]
      BY <1>4, <3>1 DEF AcceptAs, SessionInv, Inv, KernelInv, KernelTypeOK
    <3> QED
      BY <3>1, <3>2, InputFacts DEF AcceptAs, SessionInv, Inv
  <2>3. CASE ReadMore
    BY <2>3, InputFacts DEF ReadMore, ReadLinePart, Consume, SessionInv, Inv
  <2>4. CASE ReadDone
    BY <2>4, InputFacts DEF ReadDone, ReadLineEnd, Consume, SessionInv, Inv
  <2>5. CASE Close
    BY <2>5, InputFacts DEF Close, CloseFd, SessionInv, Inv
  <2>6. CASE Echo
    <3>1. WritePart(me)
      BY <1>5, <2>6 DEF Echo, InSession
    <3>2. PICK k : /\ k = Writable(me, line) /\ k > 0
                   /\ echoed' = [echoed EXCEPT ![me] = @ \o SubSeq(line, 1, k)]
                   /\ UNCHANGED <<link, sent, away, got>>
      BY <3>1 DEF WritePart, Write
    <3>3. /\ line \in Seq(Nat) /\ Len(line) \in Nat /\ SOCKBUF \in Nat
          /\ echoed \in [Clients -> Seq(Nat)] /\ got[me] \in Nat /\ Len(echoed[me]) \in Nat
      BY <1>4, KernelAssumption DEF SessionInv, Inv, KernelInv, KernelTypeOK, LineTypeOK
    <3>4. k \in Int /\ k <= Len(line)
      BY <3>2, <3>3 DEF Writable, Lesser
    <3>5. PICK s \in Seq(Nat) : s = SubSeq(line, 1, k)
      <4>1. 1 \in Int /\ 1 >= 1
        OBVIOUS
      <4>2. SubSeq(line, 1, k) \in Seq(Nat)
        BY <3>3, <3>4, <4>1, PartType
      <4> QED
        BY <4>2
    <3>6. echoed'[me] = echoed[me] \o s
      BY <1>4, <3>2, <3>3, <3>5
    <3>7. Len(echoed'[me]) = Len(echoed[me]) + Len(s) /\ Len(s) \in Nat
      BY <1>4, <3>3, <3>6, ConcatProperties
    <3>8. Len(echoed[me]) <= Len(echoed'[me])
      <4>1. PICK a \in Nat, b \in Nat : a = Len(echoed[me]) /\ b = Len(s)
        BY <3>3, <3>7
      <4>2. Len(echoed'[me]) = a + b
        BY <3>7, <4>1
      <4>3. a <= a + b
        OBVIOUS
      <4> QED
        BY <4>1, <4>2, <4>3
    <3> QED
      BY <3>2, <3>8
  <2>7. CASE EchoFails
    BY <1>4, <1>5, <2>7 DEF EchoFails, WriteGivesUp, FailWrite, InSession
  <2> QED
    BY <1>1, <2>1, <2>2, <2>3, <2>4, <2>5, <2>6, <2>7 DEF Server
<1>7. ASSUME Close PROVE away[me] = "fin"
  <2>1. pc = "read" /\ InLine(me) /\ ReadLineNothing(me)
    BY <1>5, <1>7 DEF Close, InSession, SessionInv, EchoInv
  <2>2. /\ taken[me] \in Nat /\ sent[me] \in Nat /\ taken[me] <= sent[me]
        /\ sent[me] <= Len(Stream[me]) /\ Len(Stream[me]) \in Nat
        /\ MAXLINE \in Nat /\ Len(line) \in Nat
    BY InputFacts, MaxlineAssumption DEF SessionInv, Inv, LineTypeOK
  <2>3. Len(line) < MAXLINE
    <3> SUFFICES ASSUME Len(line) >= MAXLINE PROVE FALSE
      BY <2>2
    <3>1. PICK n \in Nat : n = taken[me] - Len(line) /\ n + MAXLINE = taken[me]
      BY <2>1, <2>2 DEF InLine
    <3>2. Len(line) = MAXLINE
      BY <2>1, <2>2 DEF InLine
    <3>3. n + MAXLINE <= Len(Stream[me]) + 1
      <4>1. taken[me] <= Len(Stream[me])
        BY <2>2
      <4>2. n + MAXLINE <= Len(Stream[me])
        BY <3>1, <4>1
      <4> QED
        BY <2>2, <4>2
    <3>4. PICK j \in n + 1 .. (n + MAXLINE) - 1 : Stream[me][j] = NL
      BY <3>3, LinesAreShort
    <3>5. PICK k \in 1 .. Len(line) : n + k = j
      <4>1. MAXLINE \in Nat
        BY <2>2
      <4>2. j - n \in 1 .. MAXLINE /\ n + (j - n) = j
        BY <4>1
      <4> QED
        BY <3>2, <4>2
    <3> QED
      BY <2>1, <3>1, <3>4, <3>5 DEF InLine
  <2>4. Peeked(me) = << >> /\ Readable(me)
    BY <2>1 DEF ReadLineNothing
  <2>5. Len(Peeked(me)) = Lesser(MAXLINE - Len(line), sent[me] - taken[me])
    BY <1>4, <2>2, <2>3, PeekedBytes DEF SessionInv, Inv
  <2>6. taken[me] = sent[me]
    BY <2>2, <2>3, <2>4, <2>5 DEF Lesser
  <2> QED
    BY <2>2, <2>4, <2>6 DEF Readable, SessionInv, ShutWhenSent
<1>8. LinesSent' /\ ShutWhenSent'
  BY <1>1, <1>6, <1>7 DEF SessionInv, LinesSent, ShutWhenSent
<1>9. LinesShown'
  <2>1. Len(echoed[me]) \in Nat /\ got[me] \in Nat /\ Len(echoed'[me]) \in Nat
    BY <1>2, <1>4, InputFacts DEF SessionInv, Inv, KernelInv, KernelTypeOK
  <2>2. got'[me] <= Len(echoed'[me])
    BY <1>6, <2>1 DEF SessionInv, LinesShown
  <2> QED
    BY <1>1, <1>6, <2>2 DEF SessionInv, LinesShown
<1>10. EndsComplete'
  BY <1>1 DEF SessionInv, EndsComplete, EveryLinePrinted
<1> QED
  BY <1>2, <1>3, <1>8, <1>9, <1>10 DEF SessionInv

----------------------------------------------------------------------------
(* The client's steps                                                      *)

\* The client's steps are none that the server could not expect.
LEMMA ClientMoves ==
    ASSUME Inv, EchoInv, KernelInv', me \in Clients, \A c \in Clients : c = me,
           UNCHANGED <<line, pc, client, maxi, maxfd, allset, rset, nready, i>>,
           UNCHANGED <<fds, taken, echoed>>,
           backlog # << >> => backlog' # << >>,
           link'[me] = link[me] \/ (link[me] = "none" /\ link'[me] = "queued"),
           away[me] = "gone" => away'[me] = "gone",
           link[me] = "closed" => sent'[me] = sent[me],
           Readable(me) => Readable(me)'
    PROVE  Inv' /\ EchoInv'
<1>1. OpenFds' = OpenFds /\ Pending' = Pending /\ Served' = Served
  BY DEF OpenFds, Pending, Served
<1>2. TableAgrees' /\ ServerTypeOK' /\ LineTypeOK'
  BY <1>1 DEF Inv, TableAgrees, ServerTypeOK, LineTypeOK
<1>3. NreadyExact' /\ SessionHits' /\ LineInSession'
  BY <1>1 DEF Inv, NreadyExact, SessionHits, LineInSession, InRound, InSession
<1>4. StillReady'
  <2>1. pc = "accept" => /\ LISTENFD \in rset'
                         /\ rset' \subseteq {LISTENFD} \cup OpenFds'
                         /\ backlog' # << >>
    BY <1>1 DEF Inv, StillReady
  <2>2. ASSUME InRound, NEW f \in Pending \ {LISTENFD}
        PROVE  Readable(fds[f])' \/ (InSession /\ f = client[i] /\ line # << >>)
    <3>1. f \in OpenFds
      BY <2>2, PendingFacts DEF Inv
    <3>2. fds[f] = me
      BY <3>1 DEF OpenFds, Inv, KernelInv, KernelTypeOK
    <3>3. Readable(fds[f]) => Readable(fds[f])'
      BY <3>2 DEF Readable
    <3> QED
      BY <2>2, <3>3 DEF Inv, StillReady
  <2>3. InRound' = InRound /\ InSession' = InSession
    BY DEF InRound, InSession
  <2>4. InRound => \A f \in Pending \ {LISTENFD} :
            Readable(fds[f])' \/ (InSession /\ f = client[i] /\ line # << >>)
    BY <2>2
  <2> QED
    BY <1>1, <2>1, <2>3, <2>4 DEF StillReady
<1>5. InHand(me)' = InHand(me)
  BY <1>1 DEF InHand
<1>6. Owed(me, InHand(me))'
  <2>1. PICK h : h = InHand(me)
    OBVIOUS
  <2>2. Owed(me, h)
    BY <2>1 DEF EchoInv
  <2>3. FilledBuffer(me)' <=> FilledBuffer(me)
    BY DEF FilledBuffer
  <2>4. /\ Flowing(me, h) => Flowing(me, h)'
        /\ link[me] = "closed" /\ LinesEchoed(me) => LinesEchoed(me)'
        /\ \A k : EchoedUpTo(me, k) => EchoedUpTo(me, k)'
    BY DEF Flowing, LinesEchoed, EchoedUpTo
  <2>5. /\ link'[me] = "open" => link[me] = "open"
        /\ link'[me] = "closed" => link[me] = "closed"
        /\ away'[me] # "gone" => away[me] # "gone"
    OBVIOUS
  <2>6. Owed(me, h)'
    BY <2>2, <2>3, <2>4, <2>5 DEF Owed
  <2> QED
    BY <1>5, <2>1, <2>6
<1>7. Settled(me) => Settled(me)'
  BY DEF Settled, AtLineStart
<1>8. InLine(me) => InLine(me)'
  BY DEF InLine, AtLineStart
<1>9. EchoInv'
  <2>1. pc' # "dead" => (pc' = "read" /\ Served' = me) \/ Settled(me)'
    BY <1>1, <1>7 DEF EchoInv
  <2>2. pc' = "read" => Served' = me /\ InLine(me)'
    <3> SUFFICES ASSUME pc = "read" PROVE Served = me /\ InLine(me)'
      BY <1>1
    <3>1. Served = me
      BY SessionFacts DEF InSession
    <3> QED
      BY <1>8, <3>1 DEF EchoInv
  <2> QED
    BY <1>6, <2>1, <2>2 DEF EchoInv
<1> QED
  BY <1>2, <1>3, <1>4, <1>9 DEF Inv

\* Steps that send, shut or receive leave the connection where it is.
LEMMA KernelMoves ==
    ASSUME KernelInv, me \in Clients, \A c \in Clients : c = me,
           UNCHANGED <<link, backlog, fds, taken, echoed>>,
           sent' \in [Clients -> Nat], got' \in [Clients -> Nat],
           away' \in [Clients -> {"up", "fin", "reset", "gone"}],
           sent'[me] >= sent[me], sent'[me] <= Len(Stream[me])
    PROVE  KernelInv'
<1>1. KernelTypeOK'
  BY DEF KernelInv, KernelTypeOK
<1>2. StreamsInBounds'
  <2>1. taken[me] \in Nat /\ sent[me] \in Nat /\ sent'[me] \in Nat /\ taken[me] <= sent[me]
    BY DEF KernelInv, KernelTypeOK, StreamsInBounds
  <2>2. taken'[me] <= sent'[me] /\ sent'[me] <= Len(Stream[me])
    BY <2>1
  <2> QED
    BY <2>2 DEF StreamsInBounds
<1>3. QueueAgrees' /\ FdsAgree'
  BY DEF KernelInv, QueueAgrees, FdsAgree
<1> QED
  BY <1>1, <1>2, <1>3 DEF KernelInv

\* What the loop leaves alone in all its steps.
Aside == UNCHANGED <<line, pc, client, maxi, maxfd, allset, rset, nready, i, typed, eof, shuts>>

\* The steps between the input, stdio's buffer and fgets: the connection is
\* left alone, and nothing is printed.
LEMMA InputStep ==
    ASSUME SessionInv, Aside, UNCHANGED <<kernel, inbuf, printed>>,
           \/ SelectBoth \/ EchoEnd \/ FgetsLine \/ FgetsReads \/ FgetsRest
           \/ cpc = "fgets" /\ cpc' = "select" /\ UNCHANGED loop
    PROVE  SessionInv'
<1>1. UNCHANGED <<link, backlog, fds, sent, away, taken, echoed, got>>
  BY DEF kernel
<1>2. Inv' /\ EchoInv'
  <2>1. UNCHANGED vars
    BY <1>1 DEF Aside, vars, lineio, kernel, table, round
  <2> QED
    BY <2>1, InvStep, EchoStep DEF SessionInv
<1>3. /\ typed \in Nat /\ stdio \in Nat /\ fetched \in Nat /\ sent[me] \in Nat
      /\ fetched <= stdio /\ stdio <= typed /\ sent[me] <= fetched
  BY InputFacts DEF SessionInv, Inv, ClientTypeOK
<1>4. ASSUME NEW k \in LineEnd(Buffered)
      PROVE  k \in Nat /\ k > 0 /\ fetched + k <= stdio
  <2>1. Len(Buffered) = stdio - fetched
    <3>1. Stream[me] \in Seq(Nat) /\ stdio <= Len(Stream[me])
      BY <1>3, InputFacts DEF SessionInv, Inv, ClientTypeOK
    <3> QED
      BY <1>3, <3>1, Piece DEF Buffered
  <2>2. k \in 1 .. Len(Buffered)
    BY <1>4 DEF LineEnd
  <2> QED
    BY <1>3, <2>1, <2>2
<1>5. /\ stdio' \in Nat /\ stdio' <= typed
      /\ fetched' \in Nat /\ fetched' <= stdio'
      /\ fetched <= fetched'
      /\ fetched' # fetched => cpc' = "writen" /\ fetched < typed
      /\ cpc' # "writen" => cpc # "writen"
      /\ cpc' \in {"connect", "select", "readline", "fgets", "writen", "ended"}
      /\ cpc' = "ended" => EchoEnd
  <2>1. CASE SelectBoth
    BY <1>3, <2>1 DEF SelectBoth
  <2>2. CASE EchoEnd
    BY <1>3, <2>2 DEF EchoEnd, loop
  <2>3. CASE FgetsLine
    <3>1. PICK k \in LineEnd(Buffered) : fetched' = fetched + k
      BY <2>3 DEF FgetsLine
    <3>2. k \in Nat /\ k > 0 /\ fetched + k <= stdio
      BY <1>4
    <3> QED
      BY <1>3, <2>3, <3>1, <3>2 DEF FgetsLine
  <2>4. CASE FgetsReads
    BY <1>3, <2>4 DEF FgetsReads
  <2>5. CASE FgetsRest
    BY <1>3, <2>5 DEF FgetsRest
  <2>6. CASE cpc = "fgets" /\ cpc' = "select" /\ UNCHANGED loop
    BY <1>3, <2>6 DEF loop
  <2> QED
    BY <2>1, <2>2, <2>3, <2>4, <2>5, <2>6
<1>6. ClientTypeOK'
  BY <1>5 DEF SessionInv, ClientTypeOK, Aside
<1>7. LinesSent'
  <2>1. sent[me] <= fetched'
    BY <1>3, <1>5
  <2> QED
    BY <1>1, <1>5, <2>1 DEF SessionInv, LinesSent
<1>8. ShutWhenSent'
  BY <1>1, <1>3, <1>5 DEF SessionInv, ShutWhenSent, Aside
<1>9. LinesShown'
  BY <1>1 DEF SessionInv, LinesShown
<1>10. EndsComplete'
  <2> SUFFICES ASSUME cpc' = "ended" PROVE EveryLinePrinted' /\ eof'
    BY DEF EndsComplete
  <2>1. Echoes = << >> /\ link[me] = "closed"
    BY <1>5 DEF EchoEnd
  <2>2. eof /\ \A j \in Len(echoed[me]) + 1 .. typed : Stream[me][j] # NL
    BY <2>1, ClosedIsEchoed
  <2>3. got[me] = Len(echoed[me])
    <3>1. /\ echoed[me] \in Seq(Nat) /\ got[me] \in Nat /\ Len(echoed[me]) \in Nat
          /\ got[me] <= Len(echoed[me])
      BY InputFacts DEF SessionInv, Inv, LinesShown
    <3>2. Len(Echoes) = Len(echoed[me]) - got[me]
      BY <3>1, Piece DEF Echoes
    <3> QED
      BY <2>1, <3>1, <3>2
  <2>4. ASSUME NEW j \in Len(printed) + 1 .. typed PROVE Stream[me][j] # NL
    <3>1. /\ Len(printed) \in Nat /\ Len(inbuf) \in Nat /\ typed \in Nat
          /\ Len(echoed[me]) = Len(printed) + Len(inbuf)
      BY <2>3 DEF SessionInv, ClientTypeOK, LinesShown
    <3>2. CASE j <= Len(printed) + Len(inbuf)
      <4>1. PICK k \in 1 .. Len(inbuf) : j = Len(printed) + k
        <5>1. j - Len(printed) \in 1 .. Len(inbuf) /\ j = Len(printed) + (j - Len(printed))
          BY <3>1, <3>2
        <5> QED
          BY <5>1
      <4> QED
        BY <4>1 DEF SessionInv, LinesShown
    <3>3. CASE ~ (j <= Len(printed) + Len(inbuf))
      BY <2>2, <3>1, <3>3
    <3> QED
      BY <3>2, <3>3
  <2> QED
    BY <2>2, <2>4 DEF EveryLinePrinted, Aside
<1> QED
  BY <1>2, <1>6, <1>7, <1>8, <1>9, <1>10 DEF SessionInv

\* The steps that change the connection, as the server sees them.
LEMMA ConnectionStep ==
    ASSUME SessionInv, Aside, UNCHANGED <<fds, taken, echoed, fetched, stdio>>,
           KernelInv', backlog # << >> => backlog' # << >>,
           link'[me] = link[me] \/ (link[me] = "none" /\ link'[me] = "queued"),
           away'[me] = away[me] \/ (away[me] = "up" /\ away'[me] = "fin" /\ cpc = "fgets"
                                    /\ fetched = typed /\ eof),
           sent'[me] \in sent[me] .. fetched,
           link[me] = "closed" => sent'[me] = sent[me],
           cpc' \in {"select", "readline", "fgets", "writen"},
           cpc' # "writen" => sent'[me] = fetched,
           LinesShown', inbuf' \in Seq(Nat), printed' \in Seq(Nat)
    PROVE  SessionInv'
<1>1. /\ me \in Clients /\ \A c \in Clients : c = me
      /\ taken[me] \in Nat /\ sent[me] \in Nat /\ taken[me] <= sent[me] /\ sent[me] <= fetched
      /\ fetched \in Nat /\ away[me] \in {"up", "fin"}
  BY InputFacts DEF SessionInv, Inv, ClientTypeOK, ShutWhenSent
<1>2. Inv' /\ EchoInv'
  <2>1. Readable(me) => Readable(me)'
    <3>1. taken[me] < sent[me] => taken'[me] < sent'[me]
      BY <1>1
    <3> QED
      BY <1>1, <3>1 DEF Readable
  <2>2. away[me] # "gone"
    BY <1>1
  <2> QED
    BY <1>1, <2>1, <2>2, ClientMoves DEF Aside, SessionInv
<1>3. ClientTypeOK'
  BY DEF SessionInv, ClientTypeOK, Aside
<1>4. LinesSent'
  BY <1>1 DEF LinesSent
<1>5. ShutWhenSent'
  <2>1. away'[me] \in {"up", "fin"}
    BY <1>1
  <2>2. away'[me] = "fin" => eof /\ fetched = typed /\ sent'[me] = typed
    <3>1. CASE away[me] = "fin"
      <4>1. eof /\ fetched = typed /\ sent[me] = typed
        BY <3>1 DEF SessionInv, ShutWhenSent
      <4> QED
        BY <1>1, <4>1
    <3>2. CASE away[me] = "up" /\ cpc = "fgets" /\ fetched = typed /\ eof
      <4>1. sent[me] = fetched
        BY <3>2 DEF SessionInv, LinesSent
      <4> QED
        BY <1>1, <3>2, <4>1
    <3> QED
      BY <1>1, <3>1, <3>2
  <2>3. link'[me] = "closed" => away'[me] = "fin"
    BY DEF SessionInv, ShutWhenSent
  <2> QED
    BY <2>1, <2>2, <2>3 DEF ShutWhenSent, Aside
<1>6. EndsComplete'
  BY DEF EndsComplete
<1> QED
  BY <1>2, <1>3, <1>4, <1>5, <1>6 DEF SessionInv

\* connect, shutdown and a round of writen.
LEMMA ConnectsKeeps == SessionInv /\ Aside /\ Connects => SessionInv'
<1> SUFFICES ASSUME SessionInv, Aside, Connects PROVE SessionInv'
  OBVIOUS
<1>1. /\ Connect(me) /\ cpc = "connect" /\ cpc' = "select"
      /\ UNCHANGED <<stdio, fetched, input, inbuf, printed>>
  BY DEF Connects, loop
<1>2. me \in Clients /\ KernelInv /\ ClientStep(me)
  BY <1>1, InputFacts DEF SessionInv, Inv, ClientStep
<1>3. KernelInv' /\ (backlog # << >> => backlog' # << >>)
  BY <1>2, ClientKeeps
<1>4. /\ UNCHANGED <<fds, sent, away, taken, echoed, got>>
      /\ link[me] = "none" /\ link'[me] = "queued"
  BY <1>1, <1>2 DEF Connect, KernelInv, KernelTypeOK
<1>5. sent[me] = fetched /\ sent[me] \in Nat
  BY <1>1, <1>2, InputFacts DEF SessionInv, LinesSent
<1>6. LinesShown' /\ inbuf' \in Seq(Nat) /\ printed' \in Seq(Nat)
  BY <1>1, <1>4 DEF SessionInv, LinesShown, ClientTypeOK
<1> QED
  BY <1>1, <1>3, <1>4, <1>5, <1>6, ConnectionStep

LEMMA ShutDownKeeps ==
    ASSUME SessionInv, Aside, cpc = "fgets", fetched = typed, eof, ShutDown, UNCHANGED loop
    PROVE  SessionInv'
<1>1. /\ me \in Clients /\ \A c \in Clients : c = me
      /\ sent[me] \in Nat /\ sent[me] = fetched /\ sent[me] <= Len(Stream[me])
      /\ KernelInv /\ Len(Stream[me]) \in Nat
  BY InputFacts DEF SessionInv, Inv, LinesSent
<1>2. /\ UNCHANGED <<link, backlog, fds, sent, taken, echoed, got>> /\ cpc' = "select"
      /\ UNCHANGED <<stdio, fetched, input, inbuf, printed>>
  BY DEF ShutDown, loop
<1>3. /\ away' = [away EXCEPT ![me] = IF @ = "up" THEN "fin" ELSE @]
      /\ away \in [Clients -> {"up", "fin", "reset", "gone"}]
      /\ sent \in [Clients -> Nat] /\ got \in [Clients -> Nat]
  BY <1>1 DEF ShutDown, KernelInv, KernelTypeOK
<1>4. away' \in [Clients -> {"up", "fin", "reset", "gone"}]
  BY <1>3
<1>5. away'[me] = IF away[me] = "up" THEN "fin" ELSE away[me]
  BY <1>1, <1>3
<1>6. KernelInv'
  BY <1>1, <1>2, <1>3, <1>4, KernelMoves
<1>7. LinesShown' /\ inbuf' \in Seq(Nat) /\ printed' \in Seq(Nat)
  BY <1>2 DEF SessionInv, LinesShown, ClientTypeOK
<1> QED
  BY <1>1, <1>2, <1>5, <1>6, <1>7, ConnectionStep

LEMMA WriteKeeps == SessionInv /\ Aside /\ WritePiece => SessionInv'
<1> SUFFICES ASSUME SessionInv, Aside, WritePiece PROVE SessionInv'
  OBVIOUS
<1>1. /\ me \in Clients /\ \A c \in Clients : c = me
      /\ sent[me] \in Nat /\ taken[me] \in Nat /\ sent[me] <= fetched
      /\ KernelInv /\ Len(Stream[me]) \in Nat /\ SOCKBUF \in Nat
      /\ fetched \in Nat /\ fetched <= Len(Stream[me])
  BY InputFacts, KernelAssumption DEF SessionInv, Inv, ClientTypeOK
<1>2. /\ UNCHANGED <<link, backlog, fds, away, taken, echoed, got>>
      /\ UNCHANGED <<stdio, fetched, input, inbuf, printed>>
      /\ cpc' = IF sent'[me] = fetched THEN "select" ELSE "writen"
      /\ link[me] # "closed"
  BY DEF WritePiece, loop
<1>3. PICK k \in Nat : k = Lesser(fetched - sent[me], Room) /\ sent[me] + k <= fetched
  <2>1. Room \in Int /\ Room > 0
    BY <1>1 DEF WritePiece, Room
  <2>2. fetched - sent[me] \in Nat
    BY <1>1
  <2>3. Lesser(fetched - sent[me], Room) \in Nat
    BY <2>1, <2>2 DEF Lesser
  <2>4. Lesser(fetched - sent[me], Room) <= fetched - sent[me]
    BY <2>1, <2>2 DEF Lesser
  <2> QED
    BY <1>1, <2>3, <2>4
<1>4. sent' = [sent EXCEPT ![me] = @ + k] /\ sent \in [Clients -> Nat] /\ got \in [Clients -> Nat]
  BY <1>1, <1>3 DEF WritePiece, KernelInv, KernelTypeOK
<1>5. sent' \in [Clients -> Nat] /\ sent'[me] = sent[me] + k
  BY <1>1, <1>4
<1>6. sent'[me] \in sent[me] .. fetched /\ sent'[me] >= sent[me] /\ sent'[me] <= Len(Stream[me])
  BY <1>1, <1>3, <1>5
<1>7. away' \in [Clients -> {"up", "fin", "reset", "gone"}]
  BY <1>1, <1>2 DEF KernelInv, KernelTypeOK
<1>8. KernelInv'
  BY <1>1, <1>2, <1>4, <1>5, <1>6, <1>7, KernelMoves
<1>9. LinesShown' /\ inbuf' \in Seq(Nat) /\ printed' \in Seq(Nat)
  BY <1>2 DEF SessionInv, LinesShown, ClientTypeOK
<1> QED
  BY <1>1, <1>2, <1>6, <1>8, <1>9, ConnectionStep

\* What readline sees of the echoes is the part of the input behind what was
\* received.
LEMMA PeekedAreTyped ==
    ASSUME SessionInv
    PROVE  /\ PeekedEchoes \in Seq(Nat) /\ Len(PeekedEchoes) \in Nat
           /\ got[me] + Len(PeekedEchoes) <= Len(echoed[me])
           /\ \A k \in 1 .. Len(PeekedEchoes) : PeekedEchoes[k] = Stream[me][got[me] + k]
<1>1. /\ echoed[me] \in Seq(Nat) /\ got[me] \in Nat /\ Len(echoed[me]) \in Nat
      /\ got[me] <= Len(echoed[me]) /\ MAXLINE \in Nat /\ Len(inbuf) \in Nat
  BY InputFacts, MaxlineAssumption DEF SessionInv, Inv, LinesShown, ClientTypeOK
<1>2. /\ Echoes \in Seq(Nat) /\ Len(Echoes) = Len(echoed[me]) - got[me]
      /\ \A k \in 1 .. Len(echoed[me]) - got[me] : Echoes[k] = echoed[me][got[me] + k]
  <2>1. PICK g \in Nat, n \in Nat : g = got[me] /\ n = Len(echoed[me]) /\ g <= n
    BY <1>1
  <2>2. n <= Len(echoed[me])
    BY <2>1
  <2>3. /\ SubSeq(echoed[me], g + 1, n) \in Seq(Nat)
        /\ Len(SubSeq(echoed[me], g + 1, n)) = n - g
        /\ \A j \in 1 .. n - g : SubSeq(echoed[me], g + 1, n)[j] = echoed[me][g + j]
    <3>1. PICK s \in Seq(Nat) : s = echoed[me]
      BY <1>1
    <3>2. n <= Len(s)
      BY <2>2, <3>1
    <3>3. /\ SubSeq(s, g + 1, n) \in Seq(Nat) /\ Len(SubSeq(s, g + 1, n)) = n - g
          /\ \A j \in 1 .. n - g : SubSeq(s, g + 1, n)[j] = s[g + j]
      <4>1. g <= n
        BY <2>1
      <4> QED
        BY <3>2, <4>1, Piece
    <3> QED
      BY <3>1, <3>3
  <2> QED
    BY <2>1, <2>3 DEF Echoes
<1>3. PICK e \in Nat : e = Len(Echoes) /\ got[me] + e = Len(echoed[me])
  BY <1>1, <1>2
<1>4. PICK n \in Int : n = Lesser(Len(Echoes), MAXLINE - Len(inbuf)) /\ n <= e
  BY <1>1, <1>3 DEF Lesser
<1>5. CASE n < 1
  <2>1. PeekedEchoes = << >>
    BY <1>4, <1>5, SubSeqEmpty DEF PeekedEchoes
  <2> QED
    BY <1>1, <2>1
<1>6. CASE n >= 1
  <2>1. /\ SubSeq(Echoes, 0 + 1, n) \in Seq(Nat)
        /\ Len(SubSeq(Echoes, 0 + 1, n)) = n - 0
        /\ \A j \in 1 .. n - 0 : SubSeq(Echoes, 0 + 1, n)[j] = Echoes[0 + j]
    <3>1. 0 \in Nat /\ n \in Nat /\ 0 <= n /\ n <= Len(Echoes)
      BY <1>3, <1>4, <1>6
    <3> QED
      BY <1>2, <3>1, Piece
  <2>2. /\ PeekedEchoes \in Seq(Nat) /\ Len(PeekedEchoes) = n
        /\ \A j \in 1 .. n : PeekedEchoes[j] = Echoes[j]
    BY <1>4, <2>1 DEF PeekedEchoes
  <2>3. got[me] + n <= Len(echoed[me])
    BY <1>1, <1>3, <1>4
  <2>4. ASSUME NEW k \in 1 .. n PROVE PeekedEchoes[k] = Stream[me][got[me] + k]
    <3>1. Echoes[k] = echoed[me][got[me] + k]
      <4>1. k \in 1 .. e
        BY <1>3, <1>4
      <4>2. Len(echoed[me]) - got[me] = e
        BY <1>2, <1>3
      <4> QED
        BY <1>2, <4>1, <4>2
    <3>2. got[me] + k \in 1 .. Len(echoed[me])
      <4>1. PICK g \in Nat, h \in Nat : g = got[me] /\ h = Len(echoed[me])
        BY <1>1
      <4>2. g + n <= h
        BY <2>3, <4>1
      <4>3. g + k \in 1 .. h
        BY <4>2
      <4> QED
        BY <4>1, <4>3
    <3> QED
      BY <2>2, <3>1, <3>2, EchoedIsTyped
  <2> QED
    BY <1>6, <2>2, <2>3, <2>4
<1> QED
  BY <1>5, <1>6

\* Two sequences in a row.
LEMMA Joined ==
    ASSUME NEW a \in Seq(Nat), NEW b \in Seq(Nat)
    PROVE  \E c \in Seq(Nat) :
              /\ c = a \o b /\ Len(c) = Len(a) + Len(b)
              /\ \A j \in 1 .. Len(c) : c[j] = IF j <= Len(a) THEN a[j] ELSE b[j - Len(a)]
<1>1. /\ a \o b \in Seq(Nat) /\ Len(a \o b) = Len(a) + Len(b)
      /\ \A j \in 1 .. Len(a) + Len(b) :
            (a \o b)[j] = IF j <= Len(a) THEN a[j] ELSE b[j - Len(a)]
  BY ConcatProperties
<1> QED
  BY <1>1

\* Rounds of readline: the echo goes on, or is printed up to its '\n'.
LEMMA TakesSome ==
    ASSUME SessionInv, Aside, NEW k \in Nat, k <= Len(PeekedEchoes), TakeEchoes(k),
           cpc = "readline", cpc' \in {"select", "readline", "fgets"},
           UNCHANGED <<fetched, stdio>>,
           NEW p \in Seq(Nat), NEW b \in Seq(Nat), printed' = p, inbuf' = b,
           Len(p) + Len(b) = (Len(printed) + Len(inbuf)) + k,
           \A j \in 1 .. Len(p) : p[j] = Stream[me][j],
           \A j \in 1 .. Len(b) : b[j] = Stream[me][Len(p) + j] /\ b[j] # NL
    PROVE  SessionInv'
<1>1. /\ me \in Clients /\ \A c \in Clients : c = me
      /\ sent[me] \in Nat /\ sent[me] <= Len(Stream[me]) /\ sent[me] = fetched
      /\ KernelInv /\ got[me] \in Nat /\ Len(echoed[me]) \in Nat /\ Len(Stream[me]) \in Nat
  BY InputFacts DEF SessionInv, Inv, LinesSent
<1>2. UNCHANGED <<link, backlog, fds, sent, away, taken, echoed>>
  BY DEF TakeEchoes
<1>3. /\ got \in [Clients -> Nat] /\ sent \in [Clients -> Nat]
      /\ away \in [Clients -> {"up", "fin", "reset", "gone"}]
      /\ got' = [got EXCEPT ![me] = @ + k]
  BY <1>1 DEF TakeEchoes, KernelInv, KernelTypeOK
<1>4. got' \in [Clients -> Nat] /\ got'[me] = got[me] + k
  BY <1>1, <1>3
<1>5. KernelInv'
  BY <1>1, <1>2, <1>3, <1>4, KernelMoves
<1>6. LinesShown'
  <2>1. got[me] + Len(PeekedEchoes) <= Len(echoed[me]) /\ Len(PeekedEchoes) \in Nat
    BY PeekedAreTyped
  <2>2. got'[me] <= Len(echoed'[me])
    <3>1. PICK x \in Nat : x = Len(PeekedEchoes)
      BY <2>1
    <3>2. got[me] + x <= Len(echoed[me]) /\ k <= x
      BY <2>1, <3>1
    <3>3. got[me] + k <= Len(echoed[me])
      <4>1. PICK g \in Nat, h \in Nat : g = got[me] /\ h = Len(echoed[me])
        BY <1>1
      <4>2. g + x <= h /\ k <= x
        BY <3>2, <4>1
      <4>3. g + k <= h
        BY <4>2
      <4> QED
        BY <4>1, <4>3
    <3> QED
      BY <1>2, <1>4, <3>3
  <2>3. got'[me] = Len(p) + Len(b)
    BY <1>4 DEF SessionInv, LinesShown
  <2> QED
    BY <2>2, <2>3 DEF LinesShown
<1> QED
  BY <1>1, <1>2, <1>5, <1>6, ConnectionStep

LEMMA EchoPartKeeps == SessionInv /\ Aside /\ EchoPart => SessionInv'
<1> SUFFICES ASSUME SessionInv, Aside, EchoPart PROVE SessionInv'
  OBVIOUS
<1>1. PICK k \in Nat : k = Len(PeekedEchoes)
  BY PeekedAreTyped
<1>2. PICK p \in Seq(Nat) : p = printed
  BY DEF SessionInv, ClientTypeOK
<1>3. PICK a \in Seq(Nat), e \in Seq(Nat) : a = inbuf /\ e = PeekedEchoes
  BY PeekedAreTyped DEF SessionInv, ClientTypeOK
<1>4. /\ TakeEchoes(k) /\ inbuf' = a \o e /\ printed' = p
      /\ LineEnd(e) = {} /\ cpc = "readline" /\ cpc' = "readline"
      /\ UNCHANGED <<fetched, stdio>>
  BY <1>1, <1>2, <1>3 DEF EchoPart
<1>5. PICK b \in Seq(Nat) : /\ b = a \o e /\ Len(b) = Len(a) + k
                            /\ \A j \in 1 .. Len(b) :
                                  b[j] = IF j <= Len(a) THEN a[j] ELSE e[j - Len(a)]
  <2>1. PICK b \in Seq(Nat) : /\ b = a \o e /\ Len(b) = Len(a) + Len(e)
                              /\ \A j \in 1 .. Len(b) :
                                    b[j] = IF j <= Len(a) THEN a[j] ELSE e[j - Len(a)]
    BY Joined
  <2>2. Len(e) = k
    BY <1>1, <1>3
  <2> QED
    BY <2>1, <2>2
<1>6. \A j \in 1 .. Len(p) : p[j] = Stream[me][j]
  BY <1>2 DEF SessionInv, LinesShown
<1>7. ASSUME NEW j \in 1 .. Len(b) PROVE b[j] = Stream[me][Len(p) + j] /\ b[j] # NL
  <2>1. CASE j <= Len(a)
    <3>1. j \in 1 .. Len(a)
      BY <2>1
    <3> QED
      BY <1>2, <1>3, <1>5, <2>1, <3>1 DEF SessionInv, LinesShown
  <2>2. CASE j > Len(a)
    <3>1. PICK l \in 1 .. Len(e) : j = Len(a) + l
      <4>1. j - Len(a) \in 1 .. Len(e) /\ j = Len(a) + (j - Len(a))
        BY <1>1, <1>3, <1>5, <2>2
      <4> QED
        BY <4>1
    <3>2. b[j] = e[l]
      BY <1>5, <2>2, <3>1
    <3>3. e[l] # NL
      BY <1>4, SearchFindsAny
    <3>4. e[l] = Stream[me][got[me] + l]
      BY <1>3, PeekedAreTyped
    <3>5. got[me] = Len(p) + Len(a)
      BY <1>2, <1>3 DEF SessionInv, LinesShown
    <3>6. got[me] + l = Len(p) + j
      BY <3>1, <3>5
    <3> QED
      BY <3>2, <3>3, <3>4, <3>6
  <2> QED
    BY <2>1, <2>2
<1>8. Len(p) + Len(b) = (Len(printed) + Len(inbuf)) + k
  <2>1. Len(p) \in Nat /\ Len(a) \in Nat /\ Len(p) = Len(printed) /\ Len(a) = Len(inbuf)
    BY <1>2, <1>3
  <2> QED
    BY <1>5, <2>1
<1>9. k <= Len(PeekedEchoes)
  BY <1>1
<1>10. inbuf' = b
  BY <1>4, <1>5
<1> QED
  BY <1>4, <1>6, <1>7, <1>8, <1>9, <1>10, TakesSome

LEMMA EchoLineKeeps == SessionInv /\ Aside /\ EchoLine => SessionInv'
<1> SUFFICES ASSUME SessionInv, Aside, EchoLine PROVE SessionInv'
  OBVIOUS
<1>1. PICK k \in LineEnd(PeekedEchoes) :
         /\ printed' = printed \o inbuf \o SubSeq(PeekedEchoes, 1, k)
         /\ TakeEchoes(k)
  BY DEF EchoLine
<1>2. PICK e \in Seq(Nat) : e = PeekedEchoes
  BY PeekedAreTyped
<1>3. k \in Nat /\ k <= Len(e) /\ k >= 1
  BY <1>1, <1>2 DEF LineEnd
<1>4. PICK a \in Seq(Nat), d \in Seq(Nat) : a = inbuf /\ d = printed
  BY DEF SessionInv, ClientTypeOK
<1>5. PICK c \in Seq(Nat) : /\ c = SubSeq(e, 1, k) /\ Len(c) = k
                            /\ \A j \in 1 .. k : c[j] = e[j]
  <2>1. /\ SubSeq(e, 0 + 1, k) \in Seq(Nat) /\ Len(SubSeq(e, 0 + 1, k)) = k - 0
        /\ \A j \in 1 .. k - 0 : SubSeq(e, 0 + 1, k)[j] = e[0 + j]
    BY <1>3, Piece
  <2>2. k - 0 = k /\ 0 + 1 = 1 /\ \A j \in 1 .. k : 0 + j = j
    BY <1>3
  <2>3. /\ SubSeq(e, 1, k) \in Seq(Nat) /\ Len(SubSeq(e, 1, k)) = k
        /\ \A j \in 1 .. k : SubSeq(e, 1, k)[j] = e[j]
    BY <2>1, <2>2
  <2> QED
    BY <2>3
<1>6. PICK p \in Seq(Nat) : /\ p = (d \o a) \o c
                            /\ Len(p) = (Len(d) + Len(a)) + k
                            /\ \A j \in 1 .. Len(p) :
                                  p[j] = IF j <= Len(d) THEN d[j]
                                         ELSE IF j <= Len(d) + Len(a) THEN a[j - Len(d)]
                                         ELSE c[j - (Len(d) + Len(a))]
  <2>1. PICK s \in Seq(Nat) : /\ s = d \o a /\ Len(s) = Len(d) + Len(a)
                              /\ \A j \in 1 .. Len(s) :
                                    s[j] = IF j <= Len(d) THEN d[j] ELSE a[j - Len(d)]
    BY Joined
  <2>2. PICK p \in Seq(Nat) : /\ p = s \o c /\ Len(p) = Len(s) + Len(c)
                              /\ \A j \in 1 .. Len(p) :
                                    p[j] = IF j <= Len(s) THEN s[j] ELSE c[j - Len(s)]
    BY Joined
  <2>3. ASSUME NEW j \in 1 .. Len(p)
        PROVE  p[j] = IF j <= Len(d) THEN d[j]
                      ELSE IF j <= Len(d) + Len(a) THEN a[j - Len(d)]
                      ELSE c[j - (Len(d) + Len(a))]
    <3>1. Len(d) \in Nat /\ Len(a) \in Nat
      OBVIOUS
    <3>2. CASE j <= Len(s)
      <4>1. j \in 1 .. Len(s) /\ p[j] = s[j]
        BY <2>2, <3>2
      <4> QED
        BY <2>1, <3>1, <3>2, <4>1
    <3>3. CASE ~ (j <= Len(s))
      BY <2>1, <2>2, <3>1, <3>3
    <3> QED
      BY <3>2, <3>3
  <2>4. p = (d \o a) \o c /\ Len(p) = (Len(d) + Len(a)) + k
    BY <1>5, <2>1, <2>2
  <2> QED
    BY <2>3, <2>4
<1>7. printed' = p
  BY <1>1, <1>2, <1>4, <1>5, <1>6
<1>8. /\ got[me] = Len(d) + Len(a) /\ Len(d) \in Nat /\ Len(a) \in Nat
      /\ \A j \in 1 .. Len(d) : d[j] = Stream[me][j]
      /\ \A j \in 1 .. Len(a) : a[j] = Stream[me][Len(d) + j]
  BY <1>4 DEF SessionInv, LinesShown
<1>9. ASSUME NEW j \in 1 .. Len(p) PROVE p[j] = Stream[me][j]
  <2>1. CASE j <= Len(d)
    BY <1>6, <1>8, <2>1
  <2>2. CASE j > Len(d) /\ j <= Len(d) + Len(a)
    <3>1. PICK l \in 1 .. Len(a) : j = Len(d) + l /\ l = j - Len(d)
      <4>1. j - Len(d) \in 1 .. Len(a) /\ j = Len(d) + (j - Len(d))
        BY <1>8, <2>2
      <4> QED
        BY <4>1
    <3>2. p[j] = a[l]
      BY <1>6, <1>8, <2>2, <3>1
    <3> QED
      BY <1>8, <3>1, <3>2
  <2>3. CASE j > Len(d) + Len(a)
    <3>1. PICK l \in 1 .. k : j = got[me] + l /\ l = j - (Len(d) + Len(a))
      <4>1. /\ j - (Len(d) + Len(a)) \in 1 .. k
            /\ j = (Len(d) + Len(a)) + (j - (Len(d) + Len(a)))
        BY <1>3, <1>6, <1>8, <2>3
      <4> QED
        BY <1>8, <4>1
    <3>2. p[j] = c[l]
      BY <1>6, <1>8, <2>3, <3>1
    <3>3. c[l] = e[l] /\ l \in 1 .. Len(e)
      BY <1>3, <1>5
    <3>4. e[l] = Stream[me][got[me] + l]
      BY <1>2, <3>3, PeekedAreTyped
    <3> QED
      BY <3>1, <3>2, <3>3, <3>4
  <2> QED
    BY <1>8, <2>1, <2>2, <2>3
<1>10. PICK b \in Seq(Nat) : b = << >> /\ Len(b) = 0
  <2>1. << >> \in Seq(Nat) /\ Len(<< >>) = 0
    OBVIOUS
  <2> QED
    BY <2>1
<1>11. /\ inbuf' = b /\ cpc = "readline" /\ cpc' \in {"select", "readline", "fgets"}
       /\ UNCHANGED <<fetched, stdio>>
  BY <1>10 DEF EchoLine
<1>12. Len(p) + Len(b) = (Len(printed) + Len(inbuf)) + k
  BY <1>3, <1>4, <1>6, <1>8, <1>10
<1>13. k <= Len(PeekedEchoes)
  BY <1>2, <1>3
<1>14. \A j \in 1 .. Len(b) : b[j] = Stream[me][Len(p) + j] /\ b[j] # NL
  BY <1>10
<1> QED
  BY <1>1, <1>3, <1>7, <1>9, <1>11, <1>12, <1>13, <1>14, TakesSome

----------------------------------------------------------------------------
(* The session                                                             *)

LEMMA ClientKeepsSession == SessionInv /\ Client => SessionInv'
<1> SUFFICES ASSUME SessionInv, Client PROVE SessionInv'
  OBVIOUS
<1>1. ClientLoop /\ Aside
  BY DEF Client, Aside, server, table, round, user
<1>2. CASE SelectBoth \/ EchoEnd \/ FgetsLine \/ FgetsReads \/ FgetsRest
  <2>1. UNCHANGED <<kernel, inbuf, printed>>
    BY <1>2 DEF SelectBoth, EchoEnd, FgetsLine, FgetsReads, FgetsRest, loop
  <2> QED
    BY <1>1, <1>2, <2>1, InputStep
<1>3. CASE FgetsNull
  <2>1. CASE ShutDown
    BY <1>1, <1>3, <2>1, ShutDownKeeps DEF FgetsNull
  <2>2. CASE GoOn
    <3>1. /\ cpc = "fgets" /\ cpc' = "select" /\ UNCHANGED loop
          /\ UNCHANGED <<kernel, inbuf, printed>>
      BY <1>3, <2>2 DEF FgetsNull, GoOn, loop
    <3> QED
      BY <1>1, <3>1, InputStep
  <2> QED
    BY <1>3, <2>1, <2>2 DEF FgetsNull
<1> QED
  BY <1>1, <1>2, <1>3, ConnectsKeeps, EchoPartKeeps, EchoLineKeeps, WriteKeeps
     DEF ClientLoop

\* The user types some more, or ends the input.
LEMMA UserKeeps == SessionInv /\ User => SessionInv'
<1> SUFFICES ASSUME SessionInv, User PROVE SessionInv'
  OBVIOUS
<1>1. /\ ~ eof /\ UNCHANGED <<vars, cpc, stdio, fetched, inbuf, printed>>
      /\ eof' \in BOOLEAN /\ typed' \in typed .. Len(Stream[me])
  <2>1. typed \in typed .. Len(Stream[me])
    BY InputFacts DEF SessionInv, Inv, ClientTypeOK
  <2>2. typed \in Nat /\ Len(Stream[me]) \in Nat /\ eof \in BOOLEAN
    BY InputFacts DEF SessionInv, Inv, ClientTypeOK
  <2>3. typed' \in typed .. Len(Stream[me]) /\ eof' \in BOOLEAN
    <3>1. CASE Types
      BY <2>2, <3>1 DEF Types
    <3>2. CASE Ends
      BY <2>1, <3>2 DEF Ends
    <3> QED
      BY <3>1, <3>2 DEF User
  <2> QED
    BY <2>3 DEF User, loop
<1>2. Inv' /\ EchoInv'
  BY <1>1, InvStep, EchoStep DEF SessionInv
<1>3. UNCHANGED <<link, sent, away, echoed, got>>
  BY <1>1 DEF vars, lineio, kernel
<1>4. ClientTypeOK'
  BY <1>1 DEF SessionInv, ClientTypeOK
<1>5. LinesSent' /\ ShutWhenSent' /\ LinesShown' /\ EndsComplete'
  BY <1>1, <1>3 DEF SessionInv, LinesSent, ShutWhenSent, LinesShown, EndsComplete
<1> QED
  BY <1>2, <1>4, <1>5 DEF SessionInv

LEMMA SessionStarts == SessionInit => SessionInv
<1> SUFFICES ASSUME SessionInit PROVE SessionInv
  OBVIOUS
<1>1. Inv /\ EchoInv
  BY InvInit, EchoInit DEF SessionInit
<1>2. /\ me \in Clients /\ Len(Stream[me]) \in Nat
      /\ sent[me] = 0 /\ away[me] = "up" /\ link[me] = "none" /\ got[me] = 0
      /\ echoed[me] = << >>
  BY SessionAssumption, KernelAssumption DEF SessionInit, Init, KernelInit
<1>3. ClientTypeOK
  <2>1. << >> \in Seq(Nat)
    OBVIOUS
  <2>2. /\ cpc = "connect" /\ typed = 0 /\ stdio = 0 /\ fetched = 0 /\ eof = FALSE
        /\ inbuf = << >> /\ printed = << >>
    BY DEF SessionInit
  <2>3. 0 <= Len(Stream[me]) /\ 0 <= 0 /\ 0 \in Nat
    BY <1>2
  <2>4. typed <= Len(Stream[me]) /\ stdio <= typed /\ fetched <= stdio
    BY <2>2, <2>3
  <2> QED
    BY <2>1, <2>2, <2>3, <2>4 DEF ClientTypeOK
<1>4. LinesSent /\ ShutWhenSent /\ EndsComplete
  BY <1>2 DEF SessionInit, LinesSent, ShutWhenSent, EndsComplete
<1>5. LinesShown
  BY <1>2 DEF SessionInit, LinesShown
<1> QED
  BY <1>1, <1>3, <1>4, <1>5 DEF SessionInv

LEMMA SessionStep == SessionInv /\ [SessionNext]_sessionVars => SessionInv'
<1> SUFFICES ASSUME SessionInv, [SessionNext]_sessionVars PROVE SessionInv'
  OBVIOUS
<1>1. CASE UNCHANGED sessionVars
  <2>1. UNCHANGED <<vars, cpc, typed, eof, stdio, fetched, inbuf, printed>>
    BY <1>1 DEF sessionVars, user, loop
  <2>2. Inv' /\ EchoInv'
    BY <2>1, InvStep, EchoStep DEF SessionInv
  <2>3. UNCHANGED <<link, sent, away, echoed, got>>
    BY <2>1 DEF vars, lineio, kernel
  <2>4. ClientTypeOK' /\ LinesSent' /\ ShutWhenSent'
    BY <2>1, <2>3 DEF SessionInv, ClientTypeOK, LinesSent, ShutWhenSent
  <2>5. LinesShown' /\ EndsComplete'
    BY <2>1, <2>3 DEF SessionInv, LinesShown, EndsComplete, EveryLinePrinted
  <2> QED
    BY <2>2, <2>4, <2>5 DEF SessionInv
<1> QED
  BY <1>1, ClientKeepsSession, ServesKeeps, UserKeeps DEF SessionNext

\* However the input is typed and ended, and wherever lines are cut: what the
\* client prints is what was typed, in order, and 10shutdown's client, which
\* shuts its side down with echoes outstanding, ends only after it has printed
\* every complete line.
THEOREM SessionPrintsAll == SessionSpec => []AllPrinted
<1>1. SessionInit => SessionInv
  BY SessionStarts
<1>2. SessionInv /\ [SessionNext]_sessionVars => SessionInv'
  BY SessionStep
<1>3. SessionInv => AllPrinted
  BY PrintedIsTyped
<1> QED
  BY <1>1, <1>2, <1>3, PTL DEF SessionSpec
=============================================================================
