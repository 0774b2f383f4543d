--------------------------- MODULE LineIOProofs ---------------------------
(***************************************************************************)
(* What every step of Kernel and LineIO keeps, for all clients, streams    *)
(* and sizes, and what readline and writen owe a client: every byte taken  *)
(* is echoed or in hand.  The servers' proofs rest on it.                  *)
(***************************************************************************)
EXTENDS LineIO, SequenceTheorems, FiniteSetTheorems, TLAPS

\* No client has sent more than its stream, nor has more been taken.
StreamsInBounds == \A c \in Clients : /\ taken[c] <= sent[c]
                                      /\ sent[c] <= Len(Stream[c])

\* A connection is in one place: once in the backlog until it is accepted,
\* then behind one descriptor until it is closed.
QueueAgrees == /\ \A k \in 1 .. Len(backlog) : link[backlog[k]] = "queued"
               /\ \A j, k \in 1 .. Len(backlog) : backlog[j] = backlog[k] => j = k
FdsAgree == /\ \A f \in ConnFds : fds[f] # None => link[fds[f]] = "open"
            /\ \A f, g \in ConnFds : fds[f] = fds[g] /\ fds[f] # None => f = g

KernelInv == KernelTypeOK /\ StreamsInBounds /\ QueueAgrees /\ FdsAgree

LineTypeOK == line \in Seq(Nat)

----------------------------------------------------------------------------
\* The kernel starts with no descriptor and no connection.
LEMMA KernelInvInit == KernelInit => KernelInv
BY KernelAssumption
   DEF KernelInit, KernelInv, KernelTypeOK, StreamsInBounds, QueueAgrees, FdsAgree

\* A part of a sequence within its bounds has elements of the same set.
LEMMA PartType ==
    ASSUME NEW S, NEW s \in Seq(S), NEW m \in Int, NEW n \in Int,
           m >= 1, n <= Len(s)
    PROVE  /\ SubSeq(s, m, n) \in Seq(S)
           /\ Len(SubSeq(s, m, n)) = IF m <= n THEN n - m + 1 ELSE 0
<1>1. \A k \in m .. n : s[k] \in S
    OBVIOUS
<1> QED
    BY <1>1, SubSeqProperties

\* Who is in the backlog is a client, and queued.
LEMMA QueuedClients ==
    ASSUME KernelInv, NEW k \in 1 .. Len(backlog)
    PROVE  backlog[k] \in Clients /\ link[backlog[k]] = "queued"
<1>1. backlog \in Seq(Clients)
    BY DEF KernelInv, KernelTypeOK
<1>2. backlog[k] \in Clients
    BY <1>1, ElementOfSeq
<1> QED
    BY <1>2 DEF KernelInv, QueueAgrees

----------------------------------------------------------------------------
(* The clients                                                             *)

\* A client's step leaves the server's descriptors, what the server has read
\* and the head of the queue alone, and makes nothing unreadable.
LEMMA ClientKeeps ==
    ASSUME KernelInv, NEW c \in Clients, ClientStep(c)
    PROVE  /\ KernelInv'
           /\ UNCHANGED <<fds, taken>>
           /\ backlog # << >> => backlog' # << >>
           /\ \A d \in Clients : Readable(d) => Readable(d)'
<1> USE DEF KernelInv
<1>1. CASE Connect(c)
  <2>1. KernelTypeOK' /\ StreamsInBounds'
    BY <1>1 DEF Connect, KernelTypeOK, StreamsInBounds
  <2>2. /\ Len(backlog') = Len(backlog) + 1
        /\ backlog'[Len(backlog) + 1] = c
        /\ \A k \in 1 .. Len(backlog) : backlog'[k] = backlog[k]
    BY <1>1 DEF Connect, KernelTypeOK
  <2>3. \A k \in 1 .. Len(backlog) : backlog[k] # c /\ backlog[k] \in Clients
    <3>1. link[c] = "none"
      BY <1>1 DEF Connect
    <3> QED
      BY <3>1, QueuedClients
  <2>4. QueueAgrees'
    <3>1. \A k \in 1 .. Len(backlog') : k \in 1 .. Len(backlog) \/ k = Len(backlog) + 1
      <4>1. Len(backlog) \in Nat
        BY DEF KernelTypeOK
      <4> QED
        BY <2>2, <4>1
    <3>2. \A d \in Clients : link'[d] = IF d = c THEN "queued" ELSE link[d]
      BY <1>1 DEF Connect, KernelTypeOK
    <3>3. \A k \in 1 .. Len(backlog') : link'[backlog'[k]] = "queued"
      BY <2>2, <2>3, <3>1, <3>2 DEF QueueAgrees
    <3>4. \A j, k \in 1 .. Len(backlog') : backlog'[j] = backlog'[k] => j = k
      BY <2>2, <2>3, <3>1 DEF QueueAgrees
    <3> QED
      BY <3>3, <3>4 DEF QueueAgrees
  <2>5. FdsAgree'
    BY <1>1 DEF Connect, FdsAgree, KernelTypeOK
  <2> QED
    BY <1>1, <2>1, <2>2, <2>4, <2>5 DEF Connect, Readable
<1>2. CASE Send(c)
  <2>1. Len(Stream[c]) \in Nat
    BY KernelAssumption
  <2>2. KernelTypeOK'
    <3>1. sent[c] + 1 \in Nat /\ sent \in [Clients -> Nat]
      BY DEF KernelTypeOK
    <3>2. sent' \in [Clients -> Nat]
      BY <1>2, <3>1 DEF Send
    <3> QED
      BY <1>2, <3>2 DEF Send, KernelTypeOK
  <2>3. StreamsInBounds'
    BY <1>2, <2>1 DEF Send, KernelTypeOK, StreamsInBounds
  <2>4. QueueAgrees' /\ FdsAgree'
    BY <1>2 DEF Send, QueueAgrees, FdsAgree
  <2> QED
    BY <1>2, <2>2, <2>3, <2>4 DEF Send, Readable, KernelTypeOK
<1>3. CASE Receive(c)
    BY <1>3 DEF Receive, Readable, KernelTypeOK, StreamsInBounds, QueueAgrees, FdsAgree
<1>4. CASE Finish(c)
    BY <1>4 DEF Finish, Readable, KernelTypeOK, StreamsInBounds, QueueAgrees, FdsAgree
<1>5. CASE Abort(c)
    BY <1>5 DEF Abort, Readable, KernelTypeOK, StreamsInBounds, QueueAgrees, FdsAgree
<1> QED
    BY <1>1, <1>2, <1>3, <1>4, <1>5 DEF ClientStep

----------------------------------------------------------------------------
(* accept and close                                                        *)

\* accept puts a client behind a free descriptor and changes no other.
LEMMA AcceptKeeps ==
    ASSUME KernelInv, NEW f \in ConnFds, AcceptAs(f)
    PROVE  /\ KernelInv'
           /\ fds[f] = None
           /\ fds'[f] \in Clients
           /\ \A g \in ConnFds \ {f} : fds'[g] = fds[g]
           /\ UNCHANGED <<sent, away, taken>>
<1> USE DEF KernelInv
<1>1. backlog \in Seq(Clients) /\ backlog # << >>
    BY DEF AcceptAs, KernelTypeOK
<1>2. /\ Head(backlog) \in Clients
      /\ Head(backlog) = backlog[1]
      /\ link[Head(backlog)] = "queued"
    BY <1>1, HeadTailProperties DEF QueueAgrees
<1>3. /\ backlog' \in Seq(Clients)
      /\ Len(backlog') = Len(backlog) - 1
      /\ \A k \in 1 .. Len(backlog') : backlog'[k] = backlog[k + 1]
    BY <1>1, HeadTailProperties DEF AcceptAs
<1>4. /\ fds[f] = None
      /\ fds' = [fds EXCEPT ![f] = Head(backlog)]
      /\ link' = [link EXCEPT ![Head(backlog)] = "open"]
      /\ UNCHANGED <<sent, away, taken, echoed, got>>
    BY DEF AcceptAs, FreeFds
<1>5. KernelTypeOK' /\ StreamsInBounds'
    BY <1>2, <1>3, <1>4 DEF KernelTypeOK, StreamsInBounds
<1>6. QueueAgrees'
  <2>1. \A k \in 1 .. Len(backlog') :
            backlog'[k] # Head(backlog) /\ backlog'[k] \in Clients
    BY <1>1, <1>2, <1>3 DEF QueueAgrees
  <2>2. \A d \in Clients : d # Head(backlog) => link'[d] = link[d]
    BY <1>4 DEF KernelTypeOK
  <2>3. \A k \in 1 .. Len(backlog') : k + 1 \in 1 .. Len(backlog)
    BY <1>1, <1>3
  <2>4. \A k \in 1 .. Len(backlog') : link'[backlog'[k]] = "queued"
    BY <1>3, <2>1, <2>2, <2>3 DEF QueueAgrees
  <2>5. ASSUME NEW j \in 1 .. Len(backlog'), NEW k \in 1 .. Len(backlog'),
               backlog'[j] = backlog'[k]
        PROVE  j = k
    <3>1. backlog[j + 1] = backlog[k + 1]
      BY <1>3, <2>5
    <3>2. j + 1 = k + 1
      BY <2>3, <3>1 DEF QueueAgrees
    <3> QED
      BY <3>2
  <2> QED
    BY <2>4, <2>5 DEF QueueAgrees
<1>7. FdsAgree'
  <2>1. \A g \in ConnFds : fds[g] # Head(backlog)
    BY <1>2, KernelAssumption DEF FdsAgree, KernelTypeOK
  <2> QED
    BY <1>2, <1>4, <2>1 DEF FdsAgree, KernelTypeOK
<1>8. /\ fds'[f] = Head(backlog)
      /\ \A g \in ConnFds \ {f} : fds'[g] = fds[g]
    BY <1>4 DEF KernelTypeOK
<1> QED
    BY <1>2, <1>4, <1>5, <1>6, <1>7, <1>8

\* close frees one descriptor.
LEMMA CloseKeeps ==
    ASSUME KernelInv, NEW f \in ConnFds, fds[f] # None, CloseFd(f)
    PROVE  /\ KernelInv'
           /\ fds'[f] = None
           /\ \A g \in ConnFds \ {f} : fds'[g] = fds[g]
           /\ UNCHANGED <<backlog, sent, away, taken>>
<1> USE DEF KernelInv
<1>1. fds[f] \in Clients
    BY DEF KernelTypeOK
<1>2. KernelTypeOK' /\ StreamsInBounds'
    BY <1>1 DEF CloseFd, KernelTypeOK, StreamsInBounds
<1>3. QueueAgrees'
  <2>1. \A k \in 1 .. Len(backlog) : backlog[k] \in Clients /\ backlog[k] # fds[f]
    <3>1. link[fds[f]] = "open"
      BY DEF FdsAgree
    <3> QED
      BY <3>1, QueuedClients
  <2>2. \A d \in Clients : d # fds[f] => link'[d] = link[d]
    BY <1>1 DEF CloseFd, KernelTypeOK
  <2> QED
    BY <2>1, <2>2 DEF CloseFd, QueueAgrees
<1>4. FdsAgree'
    BY <1>1 DEF CloseFd, KernelTypeOK, FdsAgree
<1> QED
    BY <1>2, <1>3, <1>4 DEF CloseFd, KernelTypeOK

----------------------------------------------------------------------------
(* readline and writen                                                     *)

\* What is peeked is a piece of the stream, no longer than what is there.
LEMMA PeekedType ==
    ASSUME KernelInv, LineTypeOK, NEW c \in Clients
    PROVE  /\ Peeked(c) \in Seq(Nat)
           /\ Len(Peeked(c)) <= sent[c] - taken[c]
           /\ Len(Peeked(c)) <= MAXLINE - Len(line) \/ Peeked(c) = << >>
<1> DEFINE room == MAXLINE - Len(line)
           n == Lesser(room, sent[c] - taken[c])
<1>1. /\ Stream[c] \in Seq(Nat)
      /\ taken[c] \in Nat /\ sent[c] \in Nat
      /\ taken[c] <= sent[c] /\ sent[c] <= Len(Stream[c])
    BY KernelAssumption DEF KernelInv, KernelTypeOK, StreamsInBounds
<1>2. room \in Int
    BY MaxlineAssumption DEF LineTypeOK
<1>3. Unread(c) \in Seq(Nat) /\ Len(Unread(c)) = sent[c] - taken[c]
  <2>1. /\ SubSeq(Stream[c], taken[c] + 1, sent[c]) \in Seq(Nat)
        /\ Len(SubSeq(Stream[c], taken[c] + 1, sent[c])) =
              IF taken[c] + 1 <= sent[c] THEN sent[c] - (taken[c] + 1) + 1 ELSE 0
    <3>1. taken[c] + 1 \in Int /\ taken[c] + 1 >= 1 /\ sent[c] \in Int
      BY <1>1
    <3> QED
      BY <1>1, <3>1, PartType
  <2>2. /\ Unread(c) \in Seq(Nat)
        /\ Len(Unread(c)) =
              IF taken[c] + 1 <= sent[c] THEN sent[c] - (taken[c] + 1) + 1 ELSE 0
    BY <2>1 DEF Unread
  <2> QED
    BY <1>1, <2>2
<1>4. n \in Int /\ n <= sent[c] - taken[c] /\ n <= room
    BY <1>1, <1>2 DEF Lesser
<1>5. Peeked(c) = SubSeq(Unread(c), 1, n)
    BY DEF Peeked, Visible
<1> HIDE DEF room, n
<1>6. /\ SubSeq(Unread(c), 1, n) \in Seq(Nat)
      /\ Len(SubSeq(Unread(c), 1, n)) = IF 1 <= n THEN n - 1 + 1 ELSE 0
  <2>1. n <= Len(Unread(c))
    BY <1>1, <1>3, <1>4
  <2> QED
    BY <1>3, <1>4, <2>1, PartType
<1>7. 1 <= n \/ Peeked(c) = << >>
    BY <1>4, <1>5, <1>6
<1>8. Len(Peeked(c)) <= sent[c] - taken[c]
    BY <1>1, <1>4, <1>5, <1>6
<1>9. 1 <= n => Len(Peeked(c)) <= room
    BY <1>2, <1>4, <1>5, <1>6
<1> QED
    BY <1>5, <1>6, <1>7, <1>8, <1>9 DEF room

\* A round of readline takes bytes of one client: only that client's socket
\* can become unreadable by it.
LEMMA ConsumeKeeps ==
    ASSUME KernelInv, NEW c \in Clients, NEW k \in Nat,
           k <= sent[c] - taken[c], Consume(c, k)
    PROVE  /\ KernelInv'
           /\ UNCHANGED <<fds, backlog>>
           /\ \A d \in Clients \ {c} : Readable(d) => Readable(d)'
<1>1. KernelTypeOK' /\ StreamsInBounds'
    BY DEF KernelInv, KernelTypeOK, StreamsInBounds, Consume
<1>2. QueueAgrees' /\ FdsAgree'
    BY DEF KernelInv, QueueAgrees, FdsAgree, Consume
<1> QED
    BY <1>1, <1>2 DEF KernelInv, KernelTypeOK, Consume, Readable

\* readline with a whole line in hand leaves the kernel's invariant and a line.
LEMMA ReadLineEndKeeps ==
    ASSUME KernelInv, LineTypeOK, NEW c \in Clients, ReadLineEnd(c)
    PROVE  /\ KernelInv' /\ LineTypeOK' /\ line' # << >>
           /\ UNCHANGED <<fds, backlog>>
           /\ \A d \in Clients \ {c} : Readable(d) => Readable(d)'
<1>1. PICK k \in LineEnd(Peeked(c)) :
          /\ line' \in AsString(line \o SubSeq(Peeked(c), 1, k))
          /\ Consume(c, k)
    BY DEF ReadLineEnd
<1>2. k \in 1 .. Len(Peeked(c))
    BY <1>1 DEF LineEnd
<1>3. Peeked(c) \in Seq(Nat) /\ Len(Peeked(c)) <= sent[c] - taken[c]
    BY PeekedType
<1>4. KernelInv' /\ UNCHANGED <<fds, backlog>>
      /\ \A d \in Clients \ {c} : Readable(d) => Readable(d)'
  <2>1. sent[c] \in Nat /\ taken[c] \in Nat
    BY DEF KernelInv, KernelTypeOK
  <2> QED
    BY <1>1, <1>2, <1>3, <2>1, ConsumeKeeps
<1>5. /\ SubSeq(Peeked(c), 1, k) \in Seq(Nat)
      /\ Len(SubSeq(Peeked(c), 1, k)) = k
    BY <1>2, <1>3, PartType
<1> DEFINE full == line \o SubSeq(Peeked(c), 1, k)
<1>6. full \in Seq(Nat) /\ Len(full) > 0
    BY <1>2, <1>5 DEF LineTypeOK
<1>7. line' = full \/ line' = Append(full, JUNK)
    BY <1>1 DEF AsString
<1> HIDE DEF full
<1>8. line' \in Seq(Nat) /\ Len(line') > 0
    BY <1>6, <1>7 DEF JUNK
<1> QED
    BY <1>4, <1>8 DEF LineTypeOK

\* readline with part of a line keeps the kernel's invariant.
LEMMA ReadLinePartKeeps ==
    ASSUME KernelInv, LineTypeOK, NEW c \in Clients, ReadLinePart(c)
    PROVE  /\ KernelInv' /\ LineTypeOK' /\ line' # << >>
           /\ UNCHANGED <<fds, backlog>>
           /\ \A d \in Clients \ {c} : Readable(d) => Readable(d)'
<1>1. /\ Peeked(c) # << >>
      /\ line' = line \o Peeked(c)
      /\ Consume(c, Len(Peeked(c)))
    BY DEF ReadLinePart
<1>2. Peeked(c) \in Seq(Nat) /\ Len(Peeked(c)) <= sent[c] - taken[c]
    BY PeekedType
<1>3. line' \in Seq(Nat) /\ Len(line') > 0
    BY <1>1, <1>2 DEF LineTypeOK
<1> QED
    BY <1>1, <1>2, <1>3, ConsumeKeeps DEF LineTypeOK

\* writen changes neither descriptors nor what can be read, except that a
\* failed write leaves the connection in error, which is readable.
LEMMA WritePartKeeps ==
    ASSUME KernelInv, LineTypeOK, NEW c \in Clients, WritePart(c)
    PROVE  /\ KernelInv' /\ LineTypeOK'
           /\ UNCHANGED <<fds, backlog, sent, taken, away>>
<1> DEFINE k == Writable(c, line)
<1>1. /\ echoed[c] \in Seq(Nat) /\ got[c] \in Nat
      /\ SOCKBUF \in Nat /\ line \in Seq(Nat)
    BY KernelAssumption DEF KernelInv, KernelTypeOK, LineTypeOK
<1>2. k \in Int /\ k <= Len(line)
    BY <1>1 DEF Writable, Lesser
<1>3. /\ k > 0
      /\ Write(c, SubSeq(line, 1, k))
      /\ line' = SubSeq(line, k + 1, Len(line))
    BY DEF WritePart
<1> HIDE DEF k
<1>4. SubSeq(line, 1, k) \in Seq(Nat) /\ line' \in Seq(Nat)
    BY <1>1, <1>2, <1>3, PartType
<1>5. echoed' = [echoed EXCEPT ![c] = echoed[c] \o SubSeq(line, 1, k)]
      /\ UNCHANGED <<link, backlog, fds, sent, away, taken, got>>
    BY <1>3 DEF Write
<1>6. echoed[c] \o SubSeq(line, 1, k) \in Seq(Nat)
    BY <1>1, <1>4
<1>7. KernelInv'
    BY <1>5, <1>6 DEF KernelInv, KernelTypeOK, StreamsInBounds, QueueAgrees, FdsAgree
<1> QED
    BY <1>4, <1>5, <1>7 DEF LineTypeOK

\* writen that fails drops the line and keeps the kernel's invariant.
LEMMA WriteGivesUpKeeps ==
    ASSUME KernelInv, LineTypeOK, NEW c \in Clients, WriteGivesUp(c)
    PROVE  /\ KernelInv' /\ LineTypeOK' /\ line' = << >>
           /\ UNCHANGED <<fds, backlog>>
           /\ \A d \in Clients : Readable(d) => Readable(d)'
<1>1. FailWrite(c) /\ line' = << >>
    BY DEF WriteGivesUp
<1>2. KernelInv'
    BY <1>1 DEF FailWrite, KernelInv, KernelTypeOK, StreamsInBounds, QueueAgrees, FdsAgree
<1> QED
    BY <1>1, <1>2 DEF LineTypeOK, FailWrite, Readable, KernelInv, KernelTypeOK

----------------------------------------------------------------------------
(* Echoes                                                                  *)

\* The echo so far is the first k bytes that c sent.
EchoedUpTo(c, k) == /\ Len(echoed[c]) = k
                    /\ \A j \in 1 .. k : echoed[c][j] = Stream[c][j]

\* What was taken from c is what was echoed, and h in hand.
Flowing(c, h) == /\ Len(h) <= taken[c]
                 /\ EchoedUpTo(c, taken[c] - Len(h))
                 /\ \A j \in 1 .. Len(h) : h[j] = Stream[c][taken[c] - Len(h) + j]

\* Between lines: the byte before the next one is a '\n'.
AtLineStart(c, n) == n = 0 \/ Stream[c][n] = NL

\* recvbuf holds the start of a line of c, without its end.
InLine(c) == /\ Len(line) <= taken[c] /\ Len(line) <= MAXLINE
             /\ \A j \in 1 .. Len(line) : /\ line[j] = Stream[c][taken[c] - Len(line) + j]
                                          /\ line[j] # NL
             /\ AtLineStart(c, taken[c] - Len(line))

\* All was echoed but the start of a line, which was too long or never ended.
LinesEchoed(c) == \E k \in 0 .. taken[c] :
    /\ EchoedUpTo(c, k)
    /\ \A j \in k + 1 .. taken[c] : Stream[c][j] # NL
    /\ taken[c] - k = MAXLINE \/ taken[c] = sent[c]

\* What c has got, with h of it in hand, unless a line has filled recvbuf.
Owed(c, h) == ~ FilledBuffer(c) =>
    /\ link[c] = "open" /\ away[c] # "gone" => Flowing(c, h)
    /\ link[c] = "closed" /\ away[c] # "gone" => LinesEchoed(c)
    /\ \E k \in 0 .. taken[c] : EchoedUpTo(c, k)

\* No line of c is half read.
Settled(c) == /\ link[c] \in {"none", "queued"} => taken[c] = 0
              /\ link[c] = "open" => AtLineStart(c, taken[c])

Untouched(c) == UNCHANGED <<link[c], sent[c], away[c], taken[c], echoed[c]>>

\* The bounds of what was taken.
LEMMA StreamFacts ==
    ASSUME KernelInv, NEW c \in Clients
    PROVE  /\ Stream[c] \in Seq(Nat) /\ Len(Stream[c]) \in Nat
           /\ taken[c] \in Nat /\ sent[c] \in Nat
           /\ taken[c] <= sent[c] /\ sent[c] <= Len(Stream[c])
           /\ echoed[c] \in Seq(Nat) /\ Len(echoed[c]) \in Nat
BY KernelAssumption DEF KernelInv, KernelTypeOK, StreamsInBounds

\* Once a line has filled recvbuf it has.
LEMMA FilledStays ==
    ASSUME KernelInv, NEW c \in Clients, taken'[c] \in Int, taken'[c] >= taken[c],
           FilledBuffer(c)
    PROVE  FilledBuffer(c)'
<1>1. taken[c] \in Nat /\ MAXLINE \in Nat
    BY StreamFacts, MaxlineAssumption
<1>2. 0 .. taken[c] - MAXLINE \subseteq 0 .. taken'[c] - MAXLINE
    BY <1>1
<1> QED
    BY <1>2 DEF FilledBuffer

\* A connection that a step does not touch is owed what it was.
LEMMA OwedStays ==
    ASSUME NEW c \in Clients, NEW h, Untouched(c)
    PROVE  /\ Owed(c, h) => Owed(c, h)'
           /\ Settled(c) => Settled(c)'
BY DEF Untouched, Owed, FilledBuffer, Flowing, LinesEchoed, EchoedUpTo, Settled, AtLineStart

\* Nor does a client's step change that.
LEMMA OwedClient ==
    ASSUME KernelInv, NEW d \in Clients, ClientStep(d),
           NEW c \in Clients, NEW h
    PROVE  /\ Owed(c, h) => Owed(c, h)'
           /\ Settled(c) => Settled(c)'
           /\ taken' = taken
           /\ InLine(c) /\ UNCHANGED line => InLine(c)'
<1>1. /\ UNCHANGED <<taken, echoed>>
      /\ link'[c] = link[c] \/ (link[c] = "none" /\ link'[c] = "queued")
      /\ away'[c] # "gone" => away[c] # "gone"
      /\ link[c] = "closed" => sent'[c] = sent[c]
    BY DEF ClientStep, Connect, Send, Receive, Finish, Abort, Alive, KernelInv, KernelTypeOK
<1>2. FilledBuffer(c)' <=> FilledBuffer(c)
    BY <1>1 DEF FilledBuffer
<1>3. Flowing(c, h)' <=> Flowing(c, h)
    BY <1>1 DEF Flowing, EchoedUpTo
<1>4. link[c] = "closed" => (LinesEchoed(c) => LinesEchoed(c)')
    BY <1>1 DEF LinesEchoed, EchoedUpTo
<1>5. (\E k \in 0 .. taken[c] : EchoedUpTo(c, k)) <=> (\E k \in 0 .. taken[c] : EchoedUpTo(c, k))'
    BY <1>1 DEF EchoedUpTo
<1>6. Owed(c, h) => Owed(c, h)'
    BY <1>1, <1>2, <1>3, <1>4, <1>5 DEF Owed
<1>7. Settled(c) => Settled(c)'
    BY <1>1 DEF Settled, AtLineStart
<1>8. InLine(c) /\ UNCHANGED line => InLine(c)'
    BY <1>1 DEF InLine, AtLineStart
<1> QED
    BY <1>1, <1>6, <1>7, <1>8

\* accept: nothing was taken from the connection yet.
LEMMA OwedAccept ==
    ASSUME KernelInv, NEW f \in ConnFds, AcceptAs(f), NEW c \in Clients, Settled(c)
    PROVE  /\ Owed(c, << >>) => Owed(c, << >>)'
           /\ Settled(c)'
<1>1. Head(backlog) \in Clients /\ link[Head(backlog)] = "queued" /\ backlog # << >>
  <2>1. backlog # << >> /\ backlog \in Seq(Clients)
    BY DEF AcceptAs, KernelInv, KernelTypeOK
  <2>2. 1 \in 1 .. Len(backlog) /\ Head(backlog) = backlog[1]
    BY <2>1
  <2> QED
    BY <2>1, <2>2, QueuedClients
<1>2. /\ link' = [link EXCEPT ![Head(backlog)] = "open"]
      /\ fds' = [fds EXCEPT ![f] = Head(backlog)]
      /\ UNCHANGED <<sent, away, taken, echoed>>
    BY DEF AcceptAs
<1>3. \A d \in Clients : link'[d] = IF d = Head(backlog) THEN "open" ELSE link[d]
    BY <1>2 DEF KernelInv, KernelTypeOK
<1>4. CASE c # Head(backlog)
  <2>1. Untouched(c)
    BY <1>2, <1>3, <1>4 DEF Untouched
  <2>2. PICK h : h = << >>
    OBVIOUS
  <2>3. /\ Owed(c, h) => Owed(c, h)'
        /\ Settled(c)'
    BY <2>1, OwedStays
  <2> QED
    BY <2>2, <2>3
<1>5. CASE c = Head(backlog)
  <2>1. taken[c] = 0 /\ link[c] = "queued" /\ link'[c] = "open"
    BY <1>1, <1>3, <1>5 DEF Settled
  <2>2. Settled(c)'
    BY <1>2, <2>1 DEF Settled, AtLineStart
  <2>3. ASSUME Owed(c, << >>), ~ FilledBuffer(c)' PROVE EchoedUpTo(c, 0)
    <3>1. ~ FilledBuffer(c)
      BY <1>2, <2>3 DEF FilledBuffer
    <3>2. PICK k \in 0 .. taken[c] : EchoedUpTo(c, k)
      BY <2>3, <3>1 DEF Owed
    <3>3. k = 0
      BY <2>1, <3>2
    <3> QED
      BY <3>2, <3>3
  <2>4. ASSUME EchoedUpTo(c, 0)
        PROVE  Flowing(c, << >>)' /\ (\E k \in 0 .. taken[c] : EchoedUpTo(c, k))'
    <3>1. EchoedUpTo(c, 0)' /\ taken'[c] = 0
      BY <1>2, <2>1, <2>4 DEF EchoedUpTo
    <3>2. Len(<< >>) = 0
      OBVIOUS
    <3>3. Flowing(c, << >>)'
      BY <3>1, <3>2 DEF Flowing
    <3>4. 0 \in 0 .. taken'[c]
      BY <3>1
    <3> QED
      BY <3>1, <3>3, <3>4
  <2>5. Owed(c, << >>) => Owed(c, << >>)'
    BY <2>1, <2>3, <2>4 DEF Owed
  <2> QED
    BY <2>2, <2>5
<1> QED
    BY <1>4, <1>5

\* A piece of a sequence, byte by byte.
LEMMA Piece ==
    ASSUME NEW s \in Seq(Nat), NEW m \in Nat, NEW n \in Nat, m <= n, n <= Len(s)
    PROVE  /\ SubSeq(s, m + 1, n) \in Seq(Nat)
           /\ Len(SubSeq(s, m + 1, n)) = n - m
           /\ \A j \in 1 .. n - m : SubSeq(s, m + 1, n)[j] = s[m + j]
<1>1. \A j \in m + 1 .. n : s[j] \in Nat
  <2>1. \A j \in m + 1 .. n : j \in 1 .. Len(s)
    OBVIOUS
  <2> QED
    BY <2>1, ElementOfSeq
<1>p. PICK p \in Int : p = m + 1
    OBVIOUS
<1> DEFINE u == SubSeq(s, p, n)
<1>2. /\ u \in Seq(Nat)
      /\ Len(u) = IF p <= n THEN n - p + 1 ELSE 0
      /\ \A j \in 1 .. n - p + 1 : u[j] = s[p + j - 1]
  <2>1. \A j \in p .. n : s[j] \in Nat
    BY <1>1, <1>p
  <2>2. n \in Int
    OBVIOUS
  <2> QED
    BY <2>1, <2>2, SubSeqProperties, SMTT(20)
<1> HIDE DEF u
<1>3. n - p + 1 = n - m /\ (~ p <= n => n - m = 0)
    BY <1>p
<1>4. Len(u) = n - m
    BY <1>2, <1>3
<1>5. ASSUME NEW j \in 1 .. n - m PROVE u[j] = s[m + j]
  <2>1. p + j - 1 = m + j
    BY <1>p
  <2>2. u[j] = s[p + j - 1]
    BY <1>2, <1>3
  <2> QED
    BY <2>1, <2>2
<1>6. u \in Seq(Nat) /\ Len(u) = n - m /\ \A j \in 1 .. n - m : u[j] = s[m + j]
    BY <1>2, <1>4, <1>5
<1> QED
    BY <1>p, <1>6 DEF u

\* What readline peeks: the next bytes of the stream, as many as are there or
\* as have room.
LEMMA PeekedBytes ==
    ASSUME KernelInv, LineTypeOK, NEW c \in Clients, Len(line) <= MAXLINE
    PROVE  /\ Peeked(c) \in Seq(Nat) /\ Len(Peeked(c)) \in Nat
           /\ Len(Peeked(c)) = Lesser(MAXLINE - Len(line), sent[c] - taken[c])
           /\ Len(Peeked(c)) <= MAXLINE - Len(line)
           /\ Len(Peeked(c)) <= sent[c] - taken[c]
           /\ \A j \in 1 .. Len(Peeked(c)) : Peeked(c)[j] = Stream[c][taken[c] + j]
<1> DEFINE n == Lesser(MAXLINE - Len(line), sent[c] - taken[c])
<1>1. /\ MAXLINE - Len(line) \in Nat /\ sent[c] - taken[c] \in Nat
      /\ taken[c] \in Nat /\ sent[c] \in Nat /\ sent[c] <= Len(Stream[c])
      /\ Stream[c] \in Seq(Nat) /\ Len(Stream[c]) \in Nat
  <2>1. Len(line) \in Nat /\ MAXLINE \in Nat
    BY MaxlineAssumption DEF LineTypeOK
  <2> QED
    BY <2>1, StreamFacts
<1>2. n \in Nat /\ n <= MAXLINE - Len(line) /\ n <= sent[c] - taken[c]
    BY <1>1 DEF Lesser
<1> HIDE DEF n
<1>3. /\ Unread(c) \in Seq(Nat) /\ Len(Unread(c)) = sent[c] - taken[c]
      /\ \A j \in 1 .. sent[c] - taken[c] : Unread(c)[j] = Stream[c][taken[c] + j]
  <2>1. PICK s \in Seq(Nat), m \in Nat, h \in Nat : s = Stream[c] /\ m = taken[c] /\ h = sent[c]
    BY <1>1
  <2>2. m <= h /\ h <= Len(s)
    BY <1>1, <2>1, StreamFacts
  <2>3. /\ SubSeq(s, m + 1, h) \in Seq(Nat)
        /\ Len(SubSeq(s, m + 1, h)) = h - m
        /\ \A j \in 1 .. h - m : SubSeq(s, m + 1, h)[j] = s[m + j]
    BY <2>2, Piece
  <2>4. Unread(c) = SubSeq(s, m + 1, h)
    BY <2>1 DEF Unread
  <2> QED
    BY <2>1, <2>3, <2>4
<1>4. /\ SubSeq(Unread(c), 0 + 1, n) \in Seq(Nat)
      /\ Len(SubSeq(Unread(c), 0 + 1, n)) = n - 0
      /\ \A j \in 1 .. n - 0 : SubSeq(Unread(c), 0 + 1, n)[j] = Unread(c)[0 + j]
  <2>1. 0 \in Nat /\ 0 <= n /\ n <= Len(Unread(c))
    BY <1>2, <1>3
  <2> QED
    BY <1>2, <1>3, <2>1, Piece
<1>5. Peeked(c) = SubSeq(Unread(c), 1, n)
    BY DEF Peeked, Visible, n
<1>6. /\ 0 + 1 = 1 /\ n - 0 = n
      /\ \A j \in 1 .. n : 0 + j = j /\ j \in 1 .. sent[c] - taken[c]
    BY <1>1, <1>2
<1>7. /\ Peeked(c) \in Seq(Nat) /\ Len(Peeked(c)) = n
      /\ \A j \in 1 .. n : Peeked(c)[j] = Unread(c)[j]
    BY <1>4, <1>5, <1>6
<1>8. \A j \in 1 .. n : Peeked(c)[j] = Stream[c][taken[c] + j]
    BY <1>3, <1>6, <1>7
<1> QED
    BY <1>2, <1>7, <1>8 DEF n

\* After line, a further piece of the stream.
LEMMA LineGrows ==
    ASSUME KernelInv, LineTypeOK, NEW c \in Clients, InLine(c),
           NEW p \in Seq(Nat), Len(p) <= sent[c] - taken[c],
           \A j \in 1 .. Len(p) : p[j] = Stream[c][taken[c] + j]
    PROVE  /\ line \o p \in Seq(Nat) /\ Len(line \o p) = Len(line) + Len(p)
           /\ \A j \in 1 .. Len(line \o p) :
                 (line \o p)[j] = Stream[c][taken[c] - Len(line) + j]
           /\ \A j \in 1 .. Len(line) : (line \o p)[j] # NL
           /\ \A j \in 1 .. Len(p) : (line \o p)[Len(line) + j] = p[j]
<1>1. Len(line) \in Nat /\ Len(p) \in Nat /\ taken[c] \in Nat
    BY StreamFacts DEF LineTypeOK
<1> DEFINE full == line \o p
<1>2. full \in Seq(Nat) /\ Len(full) = Len(line) + Len(p)
    BY DEF LineTypeOK
<1>3. \A j \in 1 .. Len(line) : full[j] = line[j]
    BY DEF LineTypeOK
<1>4. \A j \in 1 .. Len(p) : full[Len(line) + j] = p[j]
    BY DEF LineTypeOK
<1> HIDE DEF full
<1>5. \A j \in 1 .. Len(line) : full[j] = Stream[c][taken[c] - Len(line) + j] /\ full[j] # NL
    BY <1>3 DEF InLine
<1>6. ASSUME NEW j \in 1 .. Len(full) PROVE full[j] = Stream[c][taken[c] - Len(line) + j]
  <2>1. CASE j <= Len(line)
    BY <1>1, <1>5, <2>1
  <2>2. CASE j > Len(line)
    <3>1. PICK k \in 1 .. Len(p) : j = Len(line) + k
      <4>1. j - Len(line) \in 1 .. Len(p) /\ j = Len(line) + (j - Len(line))
        BY <1>1, <1>2, <2>2
      <4> QED
        BY <4>1, Zenon
    <3>2. taken[c] - Len(line) + j = taken[c] + k
      BY <1>1, <3>1
    <3> QED
      BY <1>4, <3>1, <3>2
  <2> QED
    BY <1>1, <2>1, <2>2
<1> QED
    BY <1>2, <1>4, <1>5, <1>6 DEF full

\* What a round of readline leaves as it was.
LEMMA ConsumeTouches ==
    ASSUME KernelInv, NEW c \in Clients, NEW k \in Nat, Consume(c, k)
    PROVE  /\ UNCHANGED <<link, sent, away, echoed>> /\ taken'[c] = taken[c] + k
           /\ \A d \in Clients \ {c} : Untouched(d)
BY DEF Consume, Untouched, KernelInv, KernelTypeOK

\* The bytes that were taken and are not echoed are those in h.
LEMMA FlowingOn ==
    ASSUME KernelInv, NEW c \in Clients, NEW k \in Nat, Consume(c, k), link[c] = "open",
           NEW old \in Seq(Nat), NEW new \in Seq(Nat),
           Owed(c, old), Len(old) <= taken[c], Len(new) = Len(old) + k,
           FilledBuffer(c)'
           \/ \A j \in 1 .. Len(new) : new[j] = Stream[c][taken[c] - Len(old) + j]
    PROVE  Owed(c, new)'
<1>1. /\ UNCHANGED <<link, sent, away, echoed>> /\ taken'[c] = taken[c] + k
      /\ taken[c] \in Nat /\ Len(old) \in Nat /\ Len(new) \in Nat
    BY ConsumeTouches, StreamFacts
<1>2. SUFFICES ASSUME ~ FilledBuffer(c)' PROVE Owed(c, new)'
    BY DEF Owed
<1>3. ~ FilledBuffer(c)
    BY <1>1, <1>2, FilledStays
<1>4. taken'[c] - Len(new) = taken[c] - Len(old) /\ Len(new) <= taken'[c]
    BY <1>1
<1>5. link[c] = "open" /\ away[c] # "gone" => Flowing(c, new)'
  <2>1. link[c] = "open" /\ away[c] # "gone" => EchoedUpTo(c, taken[c] - Len(old))
    BY <1>3 DEF Owed, Flowing
  <2>2. EchoedUpTo(c, taken[c] - Len(old)) => EchoedUpTo(c, taken[c] - Len(new))'
    BY <1>1, <1>4 DEF EchoedUpTo
  <2> QED
    BY <1>2, <1>4, <2>1, <2>2 DEF Flowing
<1>6. (\E j \in 0 .. taken[c] : EchoedUpTo(c, j))'
  <2>1. PICK j \in 0 .. taken[c] : EchoedUpTo(c, j)
    BY <1>3 DEF Owed
  <2>2. j \in 0 .. taken'[c] /\ EchoedUpTo(c, j)'
    BY <1>1, <2>1 DEF EchoedUpTo
  <2> QED
    BY <2>2
<1> QED
    BY <1>1, <1>5, <1>6 DEF Owed

\* Where the search finds no '\n' first, there is none: the least element of a
\* set of naturals, found in the finite sets 1 .. k ordered by inclusion.
LEMMA SearchFindsAny ==
    ASSUME NEW s \in Seq(Nat), LineEnd(s) = {}, NEW j \in 1 .. Len(s)
    PROVE  s[j] # NL
<1>1. SUFFICES ASSUME s[j] = NL PROVE FALSE
    OBVIOUS
<1> DEFINE S == 1 .. Len(s)
           T == {X \in SUBSET S : \E k \in S : X = 1 .. k /\ s[k] = NL}
           R == StrictSubsetOrdering(S)
<1>2. T \subseteq SUBSET S /\ T # {}
  <2>1. 1 .. j \subseteq S
    OBVIOUS
  <2>2. 1 .. j \in T
    BY <1>1, <2>1
  <2> QED
    BY <2>2
<1>3. IsFiniteSet(S)
    BY FS_Interval
<1> HIDE DEF T, S
<1>4. PICK X \in T : \A Y \in T : ~ (<<Y, X>> \in R)
  <2>1. IsWellFoundedOn(R, SUBSET S)
    BY <1>3, FS_StrictSubsetOrderingWellFounded, FS_FiniteSubsetsOfFinite
  <2> HIDE DEF R
  <2> QED
    BY <1>2, <2>1, WFMin
<1>5. PICK m \in S : X = 1 .. m /\ s[m] = NL
    BY <1>4 DEF T
<1>6. ASSUME NEW k \in 1 .. m - 1 PROVE s[k] # NL
  <2>1. k \in S /\ m \in Nat
    BY <1>5 DEF S
  <2>2. 1 .. k \subseteq 1 .. m /\ m \in 1 .. m /\ m \notin 1 .. k
    BY <1>5, <2>1 DEF S
  <2>3. X \in SUBSET S /\ 1 .. k \in SUBSET S
    BY <1>2, <1>5, <2>2
  <2>4. <<1 .. k, X>> \in R
    BY <1>5, <2>2, <2>3 DEF StrictSubsetOrdering
  <2>5. 1 .. k \notin T
    BY <1>4, <2>4
  <2> QED
    BY <2>1, <2>3, <2>5 DEF T
<1>7. m \in LineEnd(s)
    BY <1>5, <1>6 DEF LineEnd, S
<1> QED
    BY <1>7

\* readline goes on: it stays within the line, and nothing it took is lost.
LEMMA PartFlows ==
    ASSUME KernelInv, LineTypeOK, NEW c \in Clients, ReadLinePart(c),
           InLine(c), link[c] = "open"
    PROVE  /\ InLine(c)' /\ (Owed(c, line) => Owed(c, line)')
           /\ UNCHANGED link /\ \A d \in Clients \ {c} : Untouched(d)
<1>1. /\ Len(line) \in Nat /\ taken[c] \in Nat /\ sent[c] \in Nat /\ MAXLINE \in Nat
      /\ Len(line) <= taken[c] /\ Len(line) <= MAXLINE /\ taken[c] <= sent[c]
    BY StreamFacts, MaxlineAssumption DEF LineTypeOK, InLine
<1>2. PICK p \in Seq(Nat) : p = Peeked(c)
    BY <1>1, PeekedBytes
<1>3. /\ Len(p) \in Nat /\ Len(p) <= MAXLINE - Len(line) /\ Len(p) <= sent[c] - taken[c]
      /\ \A j \in 1 .. Len(p) : p[j] = Stream[c][taken[c] + j]
    BY <1>1, <1>2, PeekedBytes
<1>4. LineEnd(p) = {} /\ line' = line \o p /\ Consume(c, Len(p))
    BY <1>2 DEF ReadLinePart
<1>5. PICK full \in Seq(Nat) : full = line \o p
  <2>1. line \o p \in Seq(Nat)
    BY ConcatProperties DEF LineTypeOK
  <2> QED
    BY <2>1, Zenon
<1>6. /\ Len(full) = Len(line) + Len(p)
      /\ \A j \in 1 .. Len(full) : full[j] = Stream[c][taken[c] - Len(line) + j]
      /\ \A j \in 1 .. Len(line) : full[j] # NL
      /\ \A j \in 1 .. Len(p) : full[Len(line) + j] = p[j]
    BY <1>3, <1>5, LineGrows
<1>7. taken'[c] = taken[c] + Len(p) /\ UNCHANGED link /\ \A d \in Clients \ {c} : Untouched(d)
    BY <1>3, <1>4, ConsumeTouches
<1>8. ASSUME NEW j \in 1 .. Len(full) PROVE full[j] # NL
  <2>1. CASE j <= Len(line)
    BY <1>1, <1>6, <2>1
  <2>2. CASE j > Len(line)
    <3>1. PICK k \in 1 .. Len(p) : j = Len(line) + k
      <4>1. j - Len(line) \in 1 .. Len(p) /\ j = Len(line) + (j - Len(line))
        BY <1>1, <1>3, <1>6, <2>2
      <4> QED
        BY <4>1, Zenon
    <3>2. p[k] # NL
      BY <1>4, SearchFindsAny
    <3> QED
      BY <1>6, <3>1, <3>2
  <2> QED
    BY <1>1, <2>1, <2>2
<1>9. ASSUME Owed(c, line) PROVE Owed(c, full)'
  <2>1. PICK old \in Seq(Nat) : old = line
    BY DEF LineTypeOK
  <2>2. Owed(c, old)
    BY <1>9, <2>1
  <2>3. /\ Len(old) <= taken[c] /\ Len(full) = Len(old) + Len(p)
        /\ \A j \in 1 .. Len(full) : full[j] = Stream[c][taken[c] - Len(old) + j]
    BY <1>1, <1>6, <2>1
  <2> QED
    BY <1>3, <1>4, <2>2, <2>3, FlowingOn
<1>10. line' = full
    BY <1>4, <1>5
<1>11. /\ taken'[c] - Len(full) = taken[c] - Len(line)
       /\ Len(full) <= taken'[c] /\ Len(full) <= MAXLINE
    BY <1>1, <1>3, <1>6, <1>7
<1>12. InLine(c)'
  <2>1. AtLineStart(c, taken[c] - Len(line))
    BY DEF InLine
  <2>2. AtLineStart(c, taken'[c] - Len(line'))
    BY <1>10, <1>11, <2>1
  <2>3. \A j \in 1 .. Len(full) : /\ full[j] = Stream[c][taken'[c] - Len(full) + j]
                                  /\ full[j] # NL
    BY <1>6, <1>8, <1>11
  <2> QED
    BY <1>10, <1>11, <2>2, <2>3 DEF InLine, AtLineStart
<1> QED
    BY <1>7, <1>9, <1>10, <1>12

\* readline returns a line: it has all of it, unless the line just fills
\* recvbuf.
LEMMA EndFlows ==
    ASSUME KernelInv, LineTypeOK, NEW c \in Clients, ReadLineEnd(c),
           InLine(c), link[c] = "open"
    PROVE  /\ AtLineStart(c, taken'[c]) /\ (Owed(c, line) => Owed(c, line)')
           /\ UNCHANGED link /\ \A d \in Clients \ {c} : Untouched(d)
<1>1. /\ Len(line) \in Nat /\ taken[c] \in Nat /\ sent[c] \in Nat /\ MAXLINE \in Nat
      /\ Len(line) <= taken[c] /\ Len(line) <= MAXLINE /\ taken[c] <= sent[c]
    BY StreamFacts, MaxlineAssumption DEF LineTypeOK, InLine
<1>2. PICK q \in Seq(Nat) : q = Peeked(c)
    BY <1>1, PeekedBytes
<1>3. /\ Len(q) \in Nat /\ Len(q) <= MAXLINE - Len(line) /\ Len(q) <= sent[c] - taken[c]
      /\ \A j \in 1 .. Len(q) : q[j] = Stream[c][taken[c] + j]
    BY <1>1, <1>2, PeekedBytes
<1>4. PICK k \in LineEnd(q) : /\ line' \in AsString(line \o SubSeq(q, 1, k))
                              /\ Consume(c, k)
    BY <1>2 DEF ReadLineEnd
<1>5. k \in 1 .. Len(q) /\ q[k] = NL /\ \A j \in 1 .. k - 1 : q[j] # NL
    BY <1>4 DEF LineEnd
<1>6. PICK p \in Seq(Nat) : /\ p = SubSeq(q, 1, k) /\ Len(p) = k
                            /\ \A j \in 1 .. k : p[j] = q[j]
  <2>1. /\ SubSeq(q, 0 + 1, k) \in Seq(Nat) /\ Len(SubSeq(q, 0 + 1, k)) = k - 0
        /\ \A j \in 1 .. k - 0 : SubSeq(q, 0 + 1, k)[j] = q[0 + j]
    <3>1. k \in Nat /\ 0 \in Nat /\ 0 <= k /\ k <= Len(q)
      BY <1>3, <1>5
    <3> QED
      BY <3>1, Piece
  <2>2. 0 + 1 = 1 /\ k - 0 = k /\ \A j \in 1 .. k : 0 + j = j
    BY <1>5
  <2>3. /\ SubSeq(q, 1, k) \in Seq(Nat) /\ Len(SubSeq(q, 1, k)) = k
        /\ \A j \in 1 .. k : SubSeq(q, 1, k)[j] = q[j]
    BY <2>1, <2>2
  <2> QED
    BY <2>3, Zenon
<1>7. PICK full \in Seq(Nat) : full = line \o p
  <2>1. line \o p \in Seq(Nat)
    BY ConcatProperties DEF LineTypeOK
  <2> QED
    BY <2>1, Zenon
<1>8. /\ Len(full) = Len(line) + k
      /\ \A j \in 1 .. Len(full) : full[j] = Stream[c][taken[c] - Len(line) + j]
      /\ \A j \in 1 .. Len(line) : full[j] # NL
      /\ \A j \in 1 .. k : full[Len(line) + j] = p[j]
  <2>1. \A j \in 1 .. k : j \in 1 .. Len(q)
    BY <1>3, <1>5
  <2>2. \A j \in 1 .. Len(p) : p[j] = Stream[c][taken[c] + j]
    BY <1>3, <1>6, <2>1
  <2>3. Len(p) <= sent[c] - taken[c]
    <3>1. k <= Len(q) /\ sent[c] - taken[c] \in Int /\ k \in Int
      BY <1>1, <1>5
    <3> QED
      BY <1>3, <1>6, <3>1
  <2>4. /\ Len(full) = Len(line) + Len(p)
        /\ \A j \in 1 .. Len(full) : full[j] = Stream[c][taken[c] - Len(line) + j]
        /\ \A j \in 1 .. Len(line) : full[j] # NL
        /\ \A j \in 1 .. Len(p) : full[Len(line) + j] = p[j]
    BY <1>7, <2>2, <2>3, LineGrows
  <2> QED
    BY <1>6, <2>4
<1>9. /\ taken'[c] = taken[c] + k /\ k \in Nat
      /\ UNCHANGED link /\ \A d \in Clients \ {c} : Untouched(d)
    BY <1>4, <1>5, ConsumeTouches
<1>10. Stream[c][taken[c] + k] = NL
    BY <1>3, <1>5
<1>11. AtLineStart(c, taken'[c])
    BY <1>9, <1>10 DEF AtLineStart
<1>12. Len(full) < MAXLINE => line' = full
    BY <1>4, <1>6, <1>7 DEF AsString
<1>15. Len(line) + k <= MAXLINE
  <2>1. k <= Len(q) /\ k \in Int /\ MAXLINE - Len(line) \in Int
    BY <1>1, <1>5
  <2>2. k <= MAXLINE - Len(line)
    BY <1>3, <2>1
  <2> QED
    BY <1>1, <2>1, <2>2
<1>13. ASSUME Len(full) < MAXLINE, Owed(c, line) PROVE Owed(c, line)'
  <2>1. PICK old \in Seq(Nat) : old = line
    BY DEF LineTypeOK
  <2>2. Owed(c, old)
    BY <1>13, <2>1
  <2>3. /\ Len(old) <= taken[c] /\ Len(full) = Len(old) + k
        /\ \A j \in 1 .. Len(full) : full[j] = Stream[c][taken[c] - Len(old) + j]
    BY <1>1, <1>8, <2>1
  <2>4. Owed(c, full)'
    BY <1>4, <1>9, <2>2, <2>3, FlowingOn
  <2> QED
    BY <1>12, <1>13, <2>4
<1>14. ASSUME ~ (Len(full) < MAXLINE) PROVE Owed(c, line)'
  <2> DEFINE n == taken[c] - Len(line)
  <2>0. Len(full) = Len(line) + k /\ ~ (Len(full) < MAXLINE)
    BY <1>8, <1>14
  <2>8. ~ (Len(line) + k < MAXLINE)
    BY <2>0
  <2>9. MAXLINE = Len(line) + k
    <3>1. PICK a \in Nat, b \in Nat : a = Len(line) + k /\ b = MAXLINE
      BY <1>1, <1>9
    <3>2. a <= b /\ ~ (a < b)
      BY <1>15, <2>8, <3>1
    <3>3. a = b
      BY <3>2
    <3> QED
      BY <3>1, <3>3
  <2>1. n \in Nat /\ MAXLINE = Len(line) + k /\ n + MAXLINE = taken[c] + k
    BY <1>1, <1>9, <2>9
  <2>6. taken'[c] - MAXLINE = n
    BY <1>1, <1>9, <2>1
  <2>2. n \in 0 .. taken'[c] - MAXLINE
    <3> HIDE DEF n
    <3> QED
      BY <2>1, <2>6
  <2>3. Stream[c][n + MAXLINE] = NL
    <3> HIDE DEF n
    <3> QED
      BY <1>10, <2>1
  <2>4. n > 0 => Stream[c][n] = NL
    BY <2>1 DEF InLine, AtLineStart
  <2>5. ASSUME NEW j \in n + 1 .. n + MAXLINE - 1 PROVE Stream[c][j] # NL
    <3> HIDE DEF n
    <3>1. PICK i \in 1 .. MAXLINE - 1 : j = n + i
      <4>1. j - n \in 1 .. MAXLINE - 1 /\ j = n + (j - n)
        BY <1>1, <2>1
      <4> QED
        BY <4>1, Zenon
    <3>2. i \in 1 .. Len(full) /\ i \in Nat
      BY <1>1, <2>0, <2>1
    <3>4. full[i] = Stream[c][n + i]
      BY <1>8, <3>2 DEF n
    <3>3. full[i] # NL
      <4>1. CASE i <= Len(line)
        BY <1>8, <3>2, <4>1
      <4>2. CASE i > Len(line)
        <5>1. PICK m \in 1 .. k - 1 : i = Len(line) + m
          <6>1. PICK a \in Nat : a = Len(line)
            BY <1>1
          <6>2. i <= a + k - 1 /\ i > a /\ k \in Nat
            BY <1>9, <2>9, <4>2, <6>1
          <6>3. i - a \in 1 .. k - 1 /\ i = a + (i - a)
            BY <3>2, <6>2
          <6>4. i - Len(line) \in 1 .. k - 1 /\ i = Len(line) + (i - Len(line))
            BY <6>1, <6>3
          <6> QED
            BY <6>4, Zenon
        <5>2. m \in 1 .. k /\ q[m] # NL
          BY <1>5
        <5> QED
          BY <1>6, <1>8, <5>1, <5>2
      <4> QED
        BY <1>1, <3>2, <4>1, <4>2
    <3> QED
      BY <3>1, <3>4, <3>3
  <2> HIDE DEF n
  <2>7. FilledBuffer(c)'
    BY <2>2, <2>3, <2>4, <2>5 DEF FilledBuffer
  <2> QED
    BY <2>7 DEF Owed
<1> QED
    BY <1>9, <1>11, <1>13, <1>14

\* readline returns 0: the line goes on beyond recvbuf, or never ended.
LEMMA NothingFlows ==
    ASSUME KernelInv, LineTypeOK, NEW c \in Clients, ReadLineNothing(c),
           InLine(c), link[c] = "open",
           NEW f \in ConnFds, fds[f] = c, CloseFd(f)
    PROVE  /\ link'[c] = "closed" /\ UNCHANGED taken
           /\ Owed(c, line) => Owed(c, << >>)'
           /\ \A d \in Clients \ {c} : Untouched(d)
<1>1. /\ Len(line) \in Nat /\ taken[c] \in Nat /\ sent[c] \in Nat /\ MAXLINE \in Nat
      /\ Len(line) <= taken[c] /\ Len(line) <= MAXLINE /\ taken[c] <= sent[c]
    BY StreamFacts, MaxlineAssumption DEF LineTypeOK, InLine
<1>2. /\ link' = [link EXCEPT ![c] = "closed"]
      /\ UNCHANGED <<sent, away, taken, echoed>>
    BY DEF CloseFd
<1>3. link'[c] = "closed" /\ \A d \in Clients \ {c} : Untouched(d)
    BY <1>2 DEF Untouched, KernelInv, KernelTypeOK
<1>4. Len(line) = MAXLINE \/ taken[c] = sent[c]
  <2>1. Len(Peeked(c)) = Lesser(MAXLINE - Len(line), sent[c] - taken[c])
    BY <1>1, PeekedBytes
  <2>2. Len(Peeked(c)) = 0
    BY DEF ReadLineNothing
  <2>3. Lesser(MAXLINE - Len(line), sent[c] - taken[c]) = 0
    BY <2>1, <2>2
  <2> QED
    BY <1>1, <2>3 DEF Lesser
<1>5. ASSUME ~ FilledBuffer(c)', away'[c] # "gone", Owed(c, line) PROVE LinesEchoed(c)'
  <2>1. Flowing(c, line)
    <3>1. ~ FilledBuffer(c) /\ away[c] # "gone"
      BY <1>2, <1>5 DEF FilledBuffer
    <3> QED
      BY <1>5, <3>1 DEF Owed
  <2> DEFINE k == taken[c] - Len(line)
  <2>2. k \in 0 .. taken[c] /\ taken[c] - k = Len(line)
    BY <1>1
  <2>3. EchoedUpTo(c, k)
    BY <2>1 DEF Flowing
  <2>4. ASSUME NEW j \in k + 1 .. taken[c] PROVE Stream[c][j] # NL
    <3>1. PICK i \in 1 .. Len(line) : j = k + i
      <4> HIDE DEF k
      <4>1. j - k \in 1 .. Len(line) /\ j = k + (j - k)
        BY <1>1, <2>2
      <4> QED
        BY <4>1, Zenon
    <3>2. line[i] # NL /\ line[i] = Stream[c][k + i]
      BY <1>1 DEF InLine
    <3> QED
      BY <3>1, <3>2
  <2> HIDE DEF k
  <2>5. LinesEchoed(c)
    BY <1>4, <2>2, <2>3, <2>4 DEF LinesEchoed
  <2> QED
    BY <1>2, <2>5 DEF LinesEchoed, EchoedUpTo
<1>6. Owed(c, line) /\ ~ FilledBuffer(c)' => (\E k \in 0 .. taken[c] : EchoedUpTo(c, k))'
    BY <1>2 DEF Owed, FilledBuffer, EchoedUpTo
<1>7. Owed(c, line) => Owed(c, << >>)'
    BY <1>3, <1>5, <1>6 DEF Owed
<1> QED
    BY <1>2, <1>3, <1>7

\* writen moves bytes from recvbuf to the echo.
LEMMA WriteFlows ==
    ASSUME KernelInv, LineTypeOK, NEW c \in Clients, WritePart(c),
           link[c] = "open"
    PROVE  /\ Owed(c, line) => Owed(c, line)'
           /\ UNCHANGED <<link, taken>>
           /\ \A d \in Clients \ {c} : Untouched(d)
<1>1. /\ Len(line) \in Nat /\ taken[c] \in Nat /\ line \in Seq(Nat)
      /\ echoed[c] \in Seq(Nat)
    BY StreamFacts DEF LineTypeOK
<1>2. PICK k \in Int : k = Writable(c, line)
  <2>1. SOCKBUF - (Len(echoed[c]) - got[c]) \in Int
    BY <1>1, KernelAssumption DEF KernelInv, KernelTypeOK
  <2>2. Writable(c, line) \in Int
    BY <1>1, <2>1 DEF Writable, Lesser
  <2> QED
    BY <2>2, Zenon
<1>3. k <= Len(line)
  <2>1. SOCKBUF - (Len(echoed[c]) - got[c]) \in Int
    BY <1>1, KernelAssumption DEF KernelInv, KernelTypeOK
  <2> QED
    BY <1>1, <1>2, <2>1 DEF Writable, Lesser
<1>4. /\ k > 0 /\ away[c] # "gone"
      /\ echoed' = [echoed EXCEPT ![c] = echoed[c] \o SubSeq(line, 1, k)]
      /\ line' = SubSeq(line, k + 1, Len(line))
      /\ UNCHANGED <<link, sent, away, taken>>
    BY <1>2 DEF WritePart, Write, WriteFails
<1>5. \A d \in Clients \ {c} : Untouched(d)
    BY <1>4 DEF Untouched, KernelInv, KernelTypeOK
<1>6. PICK p \in Seq(Nat) : /\ p = SubSeq(line, 1, k) /\ Len(p) = k
                            /\ \A j \in 1 .. k : p[j] = line[j]
  <2>1. /\ SubSeq(line, 0 + 1, k) \in Seq(Nat) /\ Len(SubSeq(line, 0 + 1, k)) = k - 0
        /\ \A j \in 1 .. k - 0 : SubSeq(line, 0 + 1, k)[j] = line[0 + j]
    <3>1. k \in Nat /\ 0 \in Nat /\ 0 <= k
      BY <1>4
    <3> QED
      BY <1>1, <1>3, <3>1, Piece
  <2>2. 0 + 1 = 1 /\ k - 0 = k /\ \A j \in 1 .. k : 0 + j = j
    OBVIOUS
  <2>3. /\ SubSeq(line, 1, k) \in Seq(Nat) /\ Len(SubSeq(line, 1, k)) = k
        /\ \A j \in 1 .. k : SubSeq(line, 1, k)[j] = line[j]
    BY <2>1, <2>2
  <2> QED
    BY <2>3, Zenon
<1>7. PICK rest \in Seq(Nat) : /\ rest = line' /\ Len(rest) = Len(line) - k
                               /\ \A j \in 1 .. Len(line) - k : rest[j] = line[k + j]
  <2>1. /\ SubSeq(line, k + 1, Len(line)) \in Seq(Nat)
        /\ Len(SubSeq(line, k + 1, Len(line))) = Len(line) - k
        /\ \A j \in 1 .. Len(line) - k : SubSeq(line, k + 1, Len(line))[j] = line[k + j]
    <3>1. PICK n \in Nat : n = Len(line)
      BY <1>1
    <3>2. k \in Nat /\ k <= n /\ n <= Len(line)
      BY <1>3, <1>4, <3>1
    <3>3. /\ SubSeq(line, k + 1, n) \in Seq(Nat) /\ Len(SubSeq(line, k + 1, n)) = n - k
          /\ \A j \in 1 .. n - k : SubSeq(line, k + 1, n)[j] = line[k + j]
      BY <1>1, <3>2, Piece
    <3> QED
      BY <3>1, <3>3
  <2> QED
    BY <1>4, <2>1, Zenon
<1>8. PICK e \in Seq(Nat) : /\ e = echoed'[c] /\ Len(e) = Len(echoed[c]) + k
                            /\ \A j \in 1 .. Len(echoed[c]) : e[j] = echoed[c][j]
                            /\ \A j \in 1 .. k : e[Len(echoed[c]) + j] = p[j]
  <2>1. PICK s \in Seq(Nat) : s = echoed[c]
    BY <1>1
  <2>2. /\ s \o p \in Seq(Nat) /\ Len(s \o p) = Len(s) + Len(p)
        /\ \A j \in 1 .. Len(s) : (s \o p)[j] = s[j]
        /\ \A j \in 1 .. Len(p) : (s \o p)[Len(s) + j] = p[j]
    OBVIOUS
  <2>3. echoed'[c] = s \o p
    BY <1>4, <1>6, <2>1 DEF KernelInv, KernelTypeOK
  <2>4. /\ s \o p = echoed'[c] /\ Len(s \o p) = Len(echoed[c]) + k
        /\ \A j \in 1 .. Len(echoed[c]) : (s \o p)[j] = echoed[c][j]
        /\ \A j \in 1 .. k : (s \o p)[Len(echoed[c]) + j] = p[j]
    BY <1>6, <2>1, <2>2, <2>3
  <2> QED
    BY <2>2, <2>4, Zenon
<1>9. ASSUME ~ FilledBuffer(c)', Owed(c, line)
      PROVE  Flowing(c, rest)' /\ (\E j \in 0 .. taken[c] : EchoedUpTo(c, j))'
  <2>1. Flowing(c, line)
    <3>1. ~ FilledBuffer(c)
      BY <1>4, <1>9 DEF FilledBuffer
    <3> QED
      BY <1>4, <1>9, <3>1 DEF Owed
  <2> DEFINE n == taken[c] - Len(line)
  <2>2. /\ n \in Nat /\ Len(echoed[c]) = n
        /\ \A j \in 1 .. n : echoed[c][j] = Stream[c][j]
        /\ \A j \in 1 .. Len(line) : line[j] = Stream[c][n + j]
    <3>1. Len(line) <= taken[c]
      BY <2>1 DEF Flowing
    <3>2. n \in Nat
      BY <1>1, <3>1
    <3>3. EchoedUpTo(c, n) /\ \A j \in 1 .. Len(line) : line[j] = Stream[c][n + j]
      BY <2>1 DEF Flowing
    <3> HIDE DEF n
    <3> QED
      BY <3>2, <3>3 DEF EchoedUpTo
  <2>3. taken[c] = n + Len(line)
    BY <1>1
  <2> HIDE DEF n
  <2>4. ASSUME NEW j \in 1 .. n + k PROVE e[j] = Stream[c][j]
    <3>1. CASE j <= n
      BY <1>8, <2>2, <3>1
    <3>2. CASE j > n
      <4>1. PICK i \in 1 .. k : j = n + i
        <5>1. j - n \in 1 .. k /\ j = n + (j - n)
          BY <2>2, <3>2
        <5> QED
          BY <5>1, Zenon
      <4>2. i \in 1 .. Len(line)
        BY <1>1, <1>3
      <4>3. e[n + i] = p[i] /\ p[i] = line[i]
        BY <1>6, <1>8, <2>2
      <4>4. line[i] = Stream[c][n + i]
        BY <2>2, <4>2
      <4> QED
        BY <4>1, <4>3, <4>4
    <3> QED
      BY <2>2, <3>1, <3>2
  <2>5. PICK m \in Nat : m = n + k
    BY <1>4, <2>2
  <2>6. Len(e) = m /\ m \in 0 .. taken[c]
    BY <1>1, <1>3, <1>8, <2>2, <2>3, <2>5
  <2>7. EchoedUpTo(c, m)'
    BY <1>8, <2>4, <2>5, <2>6 DEF EchoedUpTo
  <2>8. taken[c] - Len(rest) = m /\ Len(rest) <= taken[c] /\ Len(rest) \in Nat
    <3>1. PICK a \in Nat, t \in Nat, b \in Nat : a = Len(line) /\ t = taken[c] /\ b = Len(rest)
      BY <1>1
    <3>2. b = a - k /\ t = n + a
      BY <1>7, <2>3, <3>1
    <3>3. t - b = m /\ b <= t
      BY <2>2, <2>5, <3>2
    <3> QED
      BY <3>1, <3>3
  <2>9. ASSUME NEW j \in 1 .. Len(rest) PROVE rest[j] = Stream[c][m + j]
    <3>1. k + j \in 1 .. Len(line) /\ j \in 1 .. Len(line) - k
      BY <1>1, <1>4, <1>7
    <3>2. n + (k + j) = m + j
      BY <2>2, <2>5
    <3>3. line[k + j] = Stream[c][n + (k + j)]
      BY <2>2, <3>1
    <3> QED
      BY <1>7, <3>1, <3>2, <3>3
  <2>10. Flowing(c, rest)'
    BY <1>4, <2>7, <2>8, <2>9 DEF Flowing
  <2>11. m \in 0 .. taken'[c]
    BY <1>4, <2>6
  <2> QED
    BY <2>7, <2>10, <2>11
<1>10. link'[c] = "open"
    BY <1>4
<1>11. Owed(c, line) => Owed(c, rest)'
    BY <1>9, <1>10 DEF Owed
<1>12. Owed(c, line) => Owed(c, line)'
    BY <1>7, <1>11
<1> QED
    BY <1>4, <1>5, <1>12

\* writen fails: what is echoed stays a part of what was sent.
LEMMA WriteFailsFlows ==
    ASSUME KernelInv, NEW c \in Clients, WriteGivesUp(c),
           link[c] = "open"
    PROVE  /\ Owed(c, line) => Owed(c, line)'
           /\ UNCHANGED <<link, taken>>
           /\ \A d \in Clients \ {c} : Untouched(d)
<1>1. away' = [away EXCEPT ![c] = "gone"] /\ UNCHANGED <<link, sent, taken, echoed>>
    BY DEF WriteGivesUp, FailWrite
<1>2. away'[c] = "gone" /\ \A d \in Clients \ {c} : Untouched(d)
    BY <1>1 DEF Untouched, KernelInv, KernelTypeOK
<1>3. Owed(c, line) /\ ~ FilledBuffer(c)' => (\E k \in 0 .. taken[c] : EchoedUpTo(c, k))'
    BY <1>1 DEF Owed, FilledBuffer, EchoedUpTo
<1> QED
    BY <1>1, <1>2, <1>3 DEF Owed

\* Byte by byte, or as sequences.
LEMMA EchoedPrefix ==
    ASSUME KernelInv, NEW c \in Clients, NEW n \in 0 .. taken[c],
           NEW e \in Seq(Nat), Len(e) = n, \A j \in 1 .. n : e[j] = Stream[c][j]
    PROVE  e = Prefix(c, n)
<1>1. /\ Stream[c] \in Seq(Nat) /\ Len(Stream[c]) \in Nat
      /\ n \in Nat /\ n <= Len(Stream[c])
    BY StreamFacts
<1>2. PICK s \in Seq(Nat) : s = Stream[c]
    BY <1>1
<1>3. /\ SubSeq(s, 0 + 1, n) \in Seq(Nat) /\ Len(SubSeq(s, 0 + 1, n)) = n - 0
      /\ \A j \in 1 .. n - 0 : SubSeq(s, 0 + 1, n)[j] = s[0 + j]
  <2>1. 0 \in Nat /\ 0 <= n /\ n <= Len(s)
    BY <1>1, <1>2
  <2> QED
    BY <1>1, <2>1, Piece
<1>4. 0 + 1 = 1 /\ n - 0 = n /\ \A j \in 1 .. n : 0 + j = j
    BY <1>1
<1>5. PICK u \in Seq(Nat) : /\ u = SubSeq(s, 1, n) /\ Len(u) = n
                            /\ \A j \in 1 .. n : u[j] = s[j]
  <2>1. /\ SubSeq(s, 1, n) \in Seq(Nat) /\ Len(SubSeq(s, 1, n)) = n
        /\ \A j \in 1 .. n : SubSeq(s, 1, n)[j] = s[j]
    BY <1>3, <1>4
  <2> QED
    BY <2>1, Zenon
<1>6. e = u
    BY <1>2, <1>5, SeqEqual
<1> QED
    BY <1>2, <1>5, <1>6 DEF Prefix

\* What is owed is what the echo servers promise.
LEMMA OwedIsFaithful ==
    ASSUME KernelInv, NEW c \in Clients, NEW h \in Seq(Nat), Owed(c, h),
           ~ FilledBuffer(c)
    PROVE  CASE link[c] = "open" /\ away[c] # "gone" -> EchoedAll(c, h)
             [] link[c] = "closed" /\ away[c] # "gone" -> EchoedLines(c)
             [] OTHER -> EchoedSome(c)
<1>1. taken[c] \in Nat /\ echoed[c] \in Seq(Nat) /\ Len(h) \in Nat
    BY StreamFacts
<1>2. \A k \in 0 .. taken[c] : EchoedUpTo(c, k) => echoed[c] = Prefix(c, k)
    BY <1>1, EchoedPrefix DEF EchoedUpTo
<1>3. EchoedSome(c)
    BY <1>2 DEF Owed, EchoedSome
<1>4. ASSUME link[c] = "closed", away[c] # "gone" PROVE EchoedLines(c)
    BY <1>2, <1>4 DEF Owed, LinesEchoed, EchoedLines
<1>5. ASSUME link[c] = "open", away[c] # "gone" PROVE EchoedAll(c, h)
  <2>1. Flowing(c, h)
    BY <1>5 DEF Owed
  <2> DEFINE n == taken[c] - Len(h)
  <2>2. /\ n \in Nat /\ Len(echoed[c]) = n
        /\ \A j \in 1 .. n : echoed[c][j] = Stream[c][j]
        /\ \A j \in 1 .. Len(h) : h[j] = Stream[c][n + j]
    <3>1. Len(h) <= taken[c]
      BY <2>1 DEF Flowing
    <3>2. n \in Nat
      BY <1>1, <3>1
    <3>3. EchoedUpTo(c, n) /\ \A j \in 1 .. Len(h) : h[j] = Stream[c][n + j]
      BY <2>1 DEF Flowing
    <3> HIDE DEF n
    <3> QED
      BY <3>2, <3>3 DEF EchoedUpTo
  <2>3. taken[c] = n + Len(h)
    BY <1>1
  <2> HIDE DEF n
  <2>4. PICK s \in Seq(Nat) : s = echoed[c]
    BY <1>1
  <2>5. /\ s \o h \in Seq(Nat) /\ Len(s \o h) = Len(s) + Len(h)
        /\ \A j \in 1 .. Len(s) : (s \o h)[j] = s[j]
        /\ \A j \in 1 .. Len(h) : (s \o h)[Len(s) + j] = h[j]
    OBVIOUS
  <2>6. PICK e \in Seq(Nat) : /\ e = s \o h /\ Len(e) = n + Len(h)
                              /\ \A j \in 1 .. n : e[j] = s[j]
                              /\ \A j \in 1 .. Len(h) : e[n + j] = h[j]
    <3>1. /\ s \o h \in Seq(Nat) /\ Len(s \o h) = n + Len(h)
          /\ \A j \in 1 .. n : (s \o h)[j] = s[j]
          /\ \A j \in 1 .. Len(h) : (s \o h)[n + j] = h[j]
      BY <2>2, <2>4, <2>5
    <3> QED
      BY <3>1, Zenon
  <2>7. ASSUME NEW j \in 1 .. n + Len(h) PROVE e[j] = Stream[c][j]
    <3>1. CASE j <= n
      BY <2>2, <2>4, <2>6, <3>1
    <3>2. CASE j > n
      <4>1. PICK i \in 1 .. Len(h) : j = n + i
        <5>1. j - n \in 1 .. Len(h) /\ j = n + (j - n)
          BY <1>1, <2>2, <3>2
        <5> QED
          BY <5>1, Zenon
      <4> QED
        BY <2>2, <2>6, <4>1
    <3> QED
      BY <1>1, <2>2, <3>1, <3>2
  <2>8. e = Prefix(c, taken[c])
    <3>1. taken[c] \in 0 .. taken[c] /\ Len(e) = taken[c]
      BY <1>1, <2>3, <2>6
    <3>2. \A j \in 1 .. taken[c] : e[j] = Stream[c][j]
      BY <2>3, <2>7
    <3> QED
      BY <3>1, <3>2, EchoedPrefix
  <2> QED
    BY <2>4, <2>6, <2>8 DEF EchoedAll
<1> QED
    BY <1>3, <1>4, <1>5
=============================================================================
