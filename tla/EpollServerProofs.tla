-------------------------- MODULE EpollServerProofs --------------------------
(***************************************************************************)
(* The safety of the epoll server's interest list and batches, for any     *)
(* number of clients, whatever they send, and any limits: the epoll        *)
(* instance watches the open descriptors, no event of a batch goes stale,  *)
(* the server exits for one of the named reasons only, and echoes are      *)
(* faithful.                                                               *)
(***************************************************************************)
EXTENDS EpollServer, LineIOProofs

\* The types of the server's own variables.
ServerTypeOK ==
    /\ pc \in {"wait", "next", "read", "echo", "dead"}
    /\ watch \in SUBSET (ConnFds \cup {LISTENFD})
    /\ events \in SUBSET (ConnFds \cup {LISTENFD})
    /\ conn \in ConnFds \cup {LISTENFD}
    /\ cut \in SUBSET Clients

InSession == pc \in {"read", "echo"}

\* The session's connection is open, and its event no longer in the batch; the
\* session starts on a connection that is readable.
SessionOpen == /\ InSession => conn \in OpenFds /\ conn \notin events
               /\ pc = "read" /\ line = << >> => Readable(Served)

\* recvbuf is empty between sessions, holds no '\n' while readline goes on,
\* and is not empty while something is echoed.
LineInSession == /\ pc \in {"wait", "next"} => line = << >>
                 /\ pc = "read" => LineEnd(line) = {}
                 /\ pc = "echo" => line # << >>

\* The inductive invariant.
Inv == /\ KernelInv /\ LineTypeOK /\ ServerTypeOK
       /\ WatchAgrees /\ BatchFresh
       /\ SessionOpen /\ LineInSession /\ DeathExplained

----------------------------------------------------------------------------
(* Facts                                                                   *)

\* Descriptors are numbers, and the listening socket is no connection.
LEMMA Sizes == ConnFds \subseteq Nat /\ LISTENFD \notin ConnFds
BY KernelAssumption DEF ConnFds, LISTENFD

\* Two pieces without '\n' make a piece without '\n'.
LEMMA NoLineEnd ==
    ASSUME NEW a \in Seq(Nat), NEW b \in Seq(Nat), LineEnd(a) = {}, LineEnd(b) = {}
    PROVE  LineEnd(a \o b) = {}
<1> DEFINE ab == a \o b
<1>1. /\ \A j \in 1 .. Len(a) : ab[j] = a[j]
      /\ \A j \in 1 .. Len(b) : ab[Len(a) + j] = b[j]
    OBVIOUS
<1>2. Len(a) \in Nat /\ Len(b) \in Nat /\ Len(ab) = Len(a) + Len(b)
    OBVIOUS
<1> HIDE DEF ab
<1>3. ASSUME NEW k \in LineEnd(ab) PROVE FALSE
  <2>1. k \in 1 .. Len(ab) /\ ab[k] = NL /\ \A j \in 1 .. k - 1 : ab[j] # NL
    BY <1>3 DEF LineEnd
  <2>2. CASE k <= Len(a)
    <3>1. k \in 1 .. Len(a) /\ \A j \in 1 .. k - 1 : j \in 1 .. Len(a)
      BY <1>2, <2>1, <2>2
    <3>2. a[k] = NL /\ \A j \in 1 .. k - 1 : a[j] # NL
      BY <1>1, <2>1, <3>1
    <3> QED
      BY <3>1, <3>2 DEF LineEnd
  <2>3. CASE k > Len(a)
    <3>1. PICK m \in 1 .. Len(b) : k = Len(a) + m
      <4>1. k \in Int /\ k <= Len(a) + Len(b)
        BY <1>2, <2>1
      <4>2. k - Len(a) \in 1 .. Len(b) /\ k = Len(a) + (k - Len(a))
        BY <1>2, <2>3, <4>1
      <4> QED
        BY <4>2, Zenon
    <3>2. \A j \in 1 .. m - 1 : j \in 1 .. Len(b) /\ Len(a) + j \in 1 .. k - 1
      BY <1>2, <3>1
    <3>3. b[m] = NL /\ \A j \in 1 .. m - 1 : b[j] # NL
      <4>1. ab[Len(a) + m] = b[m]
        BY <1>1
      <4>2. \A j \in 1 .. m - 1 : ab[Len(a) + j] = b[j] /\ ab[Len(a) + j] # NL
        BY <1>1, <2>1, <3>2
      <4> QED
        BY <2>1, <3>1, <4>1, <4>2
    <3> QED
      BY <3>3 DEF LineEnd
  <2> QED
    BY <1>2, <2>1, <2>2, <2>3
<1> QED
    BY <1>3 DEF ab

\* Whom a watched connection belongs to.
LEMMA OpenFacts ==
    ASSUME Inv, NEW f \in OpenFds
    PROVE  /\ f \in ConnFds /\ f # LISTENFD
           /\ fds[f] \in Clients /\ link[fds[f]] = "open"
BY Sizes DEF OpenFds, Inv, KernelInv, KernelTypeOK, FdsAgree

\* What the invariant says of the connection of a session.
LEMMA SessionFacts ==
    ASSUME Inv, InSession
    PROVE  /\ conn \in ConnFds /\ conn # LISTENFD /\ fds[conn] # None
           /\ Served \in Clients /\ link[Served] = "open"
<1>1. conn \in OpenFds
    BY DEF Inv, SessionOpen
<1> QED
    BY <1>1, OpenFacts DEF Served, OpenFds

\* An event of a connection: it is open and readable, and but for the session's
\* own it is another client's.
LEMMA EventFacts ==
    ASSUME Inv, NEW f \in events, f # LISTENFD
    PROVE  /\ f \in OpenFds /\ fds[f] \in Clients /\ Readable(fds[f])
           /\ InSession => f # conn /\ fds[f] # Served
<1>1. f \in OpenFds /\ Readable(fds[f])
    BY DEF Inv, WatchAgrees, BatchFresh, Ready
<1>2. ASSUME InSession PROVE f # conn /\ fds[f] # Served
  <2>1. f # conn /\ conn \in OpenFds
    BY <1>2 DEF Inv, SessionOpen
  <2> QED
    BY <1>1, <2>1 DEF OpenFds, Served, Inv, KernelInv, FdsAgree
<1> QED
    BY <1>1, <1>2, OpenFacts

----------------------------------------------------------------------------
(* The initial state and the steps outside a session                       *)

\* The server starts with an empty table and no session.
LEMMA InvInit == Init => Inv
<1> SUFFICES ASSUME Init PROVE Inv
    OBVIOUS
<1>1. KernelInv /\ LineTypeOK
    BY KernelInvInit DEF Init, LineTypeOK
<1>2. OpenFds = {}
    BY DEF Init, KernelInit, OpenFds
<1> QED
    BY <1>1, <1>2
       DEF Init, Inv, ServerTypeOK, WatchAgrees, BatchFresh, SessionOpen, InSession,
           LineInSession, DeathExplained

\* A client's step makes nothing unreadable.
LEMMA InvEnvironment == Inv /\ Environment => Inv'
<1> SUFFICES ASSUME Inv, Environment PROVE Inv'
    OBVIOUS
<1>1. PICK c \in Clients : ClientStep(c)
    BY DEF Environment
<1>2. UNCHANGED <<line, pc, watch, events, conn, cut>> /\ pc # "dead"
    BY DEF Environment
<1>3. /\ KernelInv' /\ UNCHANGED fds
      /\ backlog # << >> => backlog' # << >>
      /\ \A d \in Clients : Readable(d) => Readable(d)'
    BY <1>1, ClientKeeps DEF Inv
<1>4. OpenFds' = OpenFds
    BY <1>3 DEF OpenFds
<1>5. ServerTypeOK' /\ LineTypeOK' /\ WatchAgrees' /\ LineInSession' /\ DeathExplained'
    BY <1>2, <1>4
       DEF Inv, ServerTypeOK, LineTypeOK, WatchAgrees, LineInSession, DeathExplained
<1>6. BatchFresh'
  <2> SUFFICES ASSUME NEW f \in events PROVE f \in watch /\ Ready(f)'
      BY <1>2 DEF BatchFresh
  <2>1. f \in watch /\ Ready(f)
    BY DEF Inv, BatchFresh
  <2>2. CASE f = LISTENFD
    BY <1>3, <2>1, <2>2 DEF Ready
  <2>3. CASE f # LISTENFD
    BY <1>3, <2>1, <2>3, EventFacts DEF Ready, Readable
  <2> QED
    BY <2>1, <2>2, <2>3
<1>7. SessionOpen'
  <2>1. pc = "read" /\ line = << >> => Readable(fds[conn])'
    <3> SUFFICES ASSUME pc = "read", line = << >> PROVE Readable(fds[conn])'
        OBVIOUS
    <3>1. fds[conn] \in Clients /\ Readable(fds[conn])
      BY SessionFacts DEF InSession, Inv, SessionOpen, Served
    <3> QED
      BY <1>2, <1>3, <3>1 DEF Readable
  <2> QED
    BY <1>2, <1>4, <2>1 DEF Inv, SessionOpen, InSession, Served
<1> QED
    BY <1>3, <1>5, <1>6, <1>7 DEF Inv

\* epoll_wait returns a batch of descriptors that are ready.
LEMMA InvWait == Inv /\ EpollWait => Inv'
<1> SUFFICES ASSUME Inv, EpollWait PROVE Inv'
    OBVIOUS
<1> DEFINE found == {f \in watch : Ready(f)}
<1>1. /\ UNCHANGED <<link, backlog, fds, sent, away, taken, echoed, got, line>>
      /\ UNCHANGED <<watch, conn, cut>> /\ pc = "wait"
      /\ \/ TooMany(found) /\ pc' = "dead" /\ UNCHANGED events
         \/ pc' = "next" /\ events' = found
    BY DEF EpollWait, lineio, kernel
<1>2. KernelInv' /\ LineTypeOK'
    BY <1>1 DEF Inv, KernelInv, KernelTypeOK, StreamsInBounds, QueueAgrees, FdsAgree,
                LineTypeOK
<1>3. WatchAgrees'
    BY <1>1 DEF Inv, WatchAgrees, OpenFds
<1>4. \A f \in watch : Ready(f)' <=> Ready(f)
    BY <1>1 DEF Ready, Readable
<1>5. BatchFresh' /\ ServerTypeOK'
    BY <1>1, <1>4 DEF Inv, BatchFresh, ServerTypeOK
<1>6. SessionOpen' /\ LineInSession'
    BY <1>1 DEF Inv, SessionOpen, InSession, LineInSession
<1>7. DeathExplained'
  <2>1. {f \in watch' : Ready(f)'} = found
    BY <1>1, <1>4
  <2>2. {f \in watch : Ready(f)}' = found
    BY <2>1
  <2> HIDE DEF found
  <2>3. pc' = "dead" => TooMany({f \in watch : Ready(f)})'
    BY <1>1, <2>2 DEF TooMany
  <2> QED
    BY <2>3 DEF DeathExplained
<1> QED
    BY <1>2, <1>3, <1>5, <1>6, <1>7 DEF Inv

\* accept takes the listening socket's event; the others' connections stay.
LEMMA InvAccept == Inv /\ Accept => Inv'
<1> SUFFICES ASSUME Inv, Accept PROVE Inv'
    OBVIOUS
<1>1. /\ pc = "next" /\ events' = events \ {LISTENFD} /\ UNCHANGED <<line, conn, cut>>
      /\ IF FreeFds = {} THEN pc' = "dead" /\ UNCHANGED <<kernel, watch>>
         ELSE \E f \in ConnFds : /\ AcceptAs(f)
                                 /\ watch' = WatchedWith(f)
                                 /\ Continue(events')
    BY DEF Accept
<1>2. /\ LineTypeOK' /\ line' = << >>
      /\ events' \in SUBSET (ConnFds \cup {LISTENFD})
      /\ conn' \in ConnFds \cup {LISTENFD} /\ cut' \in SUBSET Clients
    BY <1>1 DEF Inv, LineInSession, LineTypeOK, ServerTypeOK
<1>3. CASE FreeFds = {}
  <2>1. /\ UNCHANGED <<link, backlog, fds, sent, away, taken, echoed, got, watch>>
        /\ pc' = "dead"
    BY <1>1, <1>3 DEF kernel
  <2>2. KernelInv' /\ WatchAgrees' /\ FreeFds' = {}
    BY <1>3, <2>1 DEF Inv, KernelInv, KernelTypeOK, StreamsInBounds, QueueAgrees, FdsAgree,
                WatchAgrees, OpenFds, FreeFds
  <2>3. BatchFresh'
    BY <1>1, <2>1 DEF Inv, BatchFresh, Ready, Readable
  <2>4. ServerTypeOK' /\ SessionOpen' /\ LineInSession' /\ DeathExplained'
    BY <1>2, <2>1, <2>2
       DEF Inv, ServerTypeOK, SessionOpen, InSession, LineInSession, DeathExplained
  <2> QED
    BY <1>2, <2>2, <2>3, <2>4 DEF Inv
<1>4. CASE FreeFds # {}
  <2>1. PICK f \in ConnFds : AcceptAs(f) /\ watch' = watch \cup {f} /\ pc' \in {"wait", "next"}
    BY <1>1, <1>4 DEF WatchedWith, Continue
  <2>2. /\ KernelInv'
        /\ fds[f] = None /\ fds'[f] \in Clients
        /\ \A g \in ConnFds \ {f} : fds'[g] = fds[g]
        /\ UNCHANGED <<sent, away, taken>>
    BY <2>1, AcceptKeeps DEF Inv
  <2>3. OpenFds' = OpenFds \cup {f} /\ f \notin OpenFds
    BY <2>2, KernelAssumption DEF OpenFds
  <2>4. WatchAgrees'
    BY <2>1, <2>3 DEF Inv, WatchAgrees
  <2>5. BatchFresh'
    <3> SUFFICES ASSUME NEW g \in events \ {LISTENFD} PROVE g \in watch' /\ Ready(g)'
        BY <1>1 DEF BatchFresh
    <3>1. g \in OpenFds /\ fds[g] \in Clients /\ Readable(fds[g]) /\ g \in ConnFds
      BY EventFacts, OpenFacts
    <3>2. fds'[g] = fds[g]
      BY <2>2, <2>3, <3>1
    <3>3. Ready(g)'
      BY <2>2, <3>1, <3>2 DEF Ready, Readable
    <3> QED
      BY <2>1, <3>1, <3>3 DEF Inv, WatchAgrees
  <2>6. watch' \in SUBSET (ConnFds \cup {LISTENFD})
    BY <2>1 DEF Inv, ServerTypeOK
  <2>7. ServerTypeOK' /\ SessionOpen' /\ LineInSession' /\ DeathExplained'
    BY <1>2, <2>1, <2>6
       DEF ServerTypeOK, SessionOpen, InSession, LineInSession, DeathExplained
  <2> QED
    BY <1>2, <2>2, <2>4, <2>5, <2>7 DEF Inv
<1> QED
    BY <1>3, <1>4

\* A session starts with the event taken out of the batch.
LEMMA InvInput == Inv /\ Input => Inv'
<1> SUFFICES ASSUME Inv, Input PROVE Inv'
    OBVIOUS
<1>1. /\ UNCHANGED <<link, backlog, fds, sent, away, taken, echoed, got, line>>
      /\ UNCHANGED <<watch, cut>> /\ pc = "next" /\ pc' = "read"
      /\ conn' \in events \ {LISTENFD}
      /\ events' = events \ {conn'}
    BY DEF Input, lineio, kernel
<1>2. KernelInv' /\ LineTypeOK' /\ WatchAgrees'
    BY <1>1 DEF Inv, KernelInv, KernelTypeOK, StreamsInBounds, QueueAgrees, FdsAgree,
                LineTypeOK, WatchAgrees, OpenFds
<1>3. BatchFresh'
    BY <1>1 DEF Inv, BatchFresh, Ready, Readable
<1>4. ServerTypeOK' /\ DeathExplained'
    BY <1>1 DEF Inv, ServerTypeOK, DeathExplained
<1>5. SessionOpen'
  <2>1. conn' \in OpenFds /\ Readable(fds[conn'])
    BY <1>1, EventFacts
  <2> QED
    BY <1>1, <2>1 DEF SessionOpen, OpenFds, Served, Readable
<1>6. LineInSession'
    BY <1>1 DEF Inv, LineInSession, LineEnd
<1> QED
    BY <1>2, <1>3, <1>4, <1>5, <1>6 DEF Inv

----------------------------------------------------------------------------
(* The steps of a session                                                  *)

\* A step of the session that closes nothing leaves the batch as fresh as it was.
LEMMA SessionStep ==
    ASSUME Inv, InSession, KernelInv', LineTypeOK',
           UNCHANGED <<fds, backlog, watch, events, conn>>,
           \A d \in Clients \ {Served} : Readable(d) => Readable(d)',
           pc' \in {"wait", "next", "read", "echo", "dead"}, cut' \in SUBSET Clients,
           pc' = "read" => line' # << >>, LineInSession', DeathExplained'
    PROVE  Inv'
<1>1. OpenFds' = OpenFds
    BY DEF OpenFds
<1>2. WatchAgrees' /\ ServerTypeOK'
    BY <1>1 DEF Inv, WatchAgrees, ServerTypeOK
<1>3. BatchFresh'
  <2> SUFFICES ASSUME NEW f \in events PROVE f \in watch /\ Ready(f)'
      BY DEF BatchFresh
  <2>1. f \in watch /\ Ready(f)
    BY DEF Inv, BatchFresh
  <2>2. CASE f = LISTENFD
    BY <2>1, <2>2 DEF Ready
  <2>3. CASE f # LISTENFD
    <3>1. fds[f] \in Clients \ {Served} /\ Readable(fds[f])
      BY <2>3, EventFacts
    <3>2. Readable(fds[f])'
      BY <3>1 DEF Readable
    <3> QED
      BY <2>1, <2>3, <3>2 DEF Ready
  <2> QED
    BY <2>2, <2>3
<1>4. SessionOpen'
    BY <1>1 DEF Inv, SessionOpen
<1> QED
    BY <1>2, <1>3, <1>4 DEF Inv

\* readline takes part of a line.
LEMMA InvReadMore == Inv /\ ReadMore => Inv'
<1> SUFFICES ASSUME Inv, ReadMore PROVE Inv'
    OBVIOUS
<1>1. /\ InSession /\ ReadLinePart(Served) /\ pc = "read" /\ pc' = "read"
      /\ UNCHANGED <<watch, events, conn, cut>>
    BY DEF ReadMore, InSession
<1>2. Served \in Clients /\ KernelInv /\ LineTypeOK
    BY <1>1, SessionFacts DEF Inv
<1>3. /\ KernelInv' /\ LineTypeOK' /\ line' # << >> /\ UNCHANGED <<fds, backlog>>
      /\ \A d \in Clients \ {Served} : Readable(d) => Readable(d)'
    BY <1>1, <1>2, ReadLinePartKeeps
<1>4. LineEnd(line') = {}
  <2>1. LineEnd(Peeked(Served)) = {} /\ line' = line \o Peeked(Served)
    BY <1>1 DEF ReadLinePart
  <2>2. Peeked(Served) \in Seq(Nat) /\ line \in Seq(Nat) /\ LineEnd(line) = {}
    BY <1>1, <1>2, PeekedType DEF LineTypeOK, Inv, LineInSession
  <2> QED
    BY <2>1, <2>2, NoLineEnd
<1>5. LineInSession' /\ DeathExplained'
    BY <1>1, <1>4 DEF LineInSession, DeathExplained
<1>6. cut' \in SUBSET Clients
    BY <1>1 DEF Inv, ServerTypeOK
<1> QED
    BY <1>1, <1>3, <1>5, <1>6, SessionStep

\* readline ends with a line in hand.
LEMMA InvReadDone == Inv /\ ReadDone => Inv'
<1> SUFFICES ASSUME Inv, ReadDone PROVE Inv'
    OBVIOUS
<1>1. /\ InSession /\ ReadLineEnd(Served) /\ pc' = "echo"
      /\ UNCHANGED <<watch, events, conn, cut>>
    BY DEF ReadDone, InSession
<1>2. Served \in Clients /\ KernelInv /\ LineTypeOK
    BY <1>1, SessionFacts DEF Inv
<1>3. /\ KernelInv' /\ LineTypeOK' /\ line' # << >> /\ UNCHANGED <<fds, backlog>>
      /\ \A d \in Clients \ {Served} : Readable(d) => Readable(d)'
    BY <1>1, <1>2, ReadLineEndKeeps
<1>4. LineInSession' /\ DeathExplained'
    BY <1>1, <1>3 DEF LineInSession, DeathExplained
<1>5. cut' \in SUBSET Clients
    BY <1>1 DEF Inv, ServerTypeOK
<1> QED
    BY <1>1, <1>3, <1>4, <1>5, SessionStep

\* The server exits in the middle of readline: the connection was reset, or
\* the client paused after the first byte of a line.
LEMMA InvReadError == Inv /\ ReadError => Inv'
<1> SUFFICES ASSUME Inv, ReadError PROVE Inv'
    OBVIOUS
<1>1. /\ InSession /\ pc = "read" /\ ReturnsMinusOne(Served) /\ pc' = "dead"
      /\ UNCHANGED <<link, backlog, fds, sent, away, taken, echoed, got, line>>
      /\ UNCHANGED <<watch, events, conn, cut>>
    BY DEF ReadError, InSession, lineio, kernel
<1>2. KernelInv' /\ LineTypeOK'
    BY <1>1 DEF Inv, KernelInv, KernelTypeOK, StreamsInBounds, QueueAgrees, FdsAgree,
                LineTypeOK
<1>3. \A d \in Clients : Readable(d) => Readable(d)'
    BY <1>1 DEF Readable
<1>4. \/ \E c \in Clients : link[c] = "open" /\ WriteFails(c)
      \/ line # << >> /\ LineEnd(line) = {}
  <2>1. CASE ReadFails(Served)
    BY <1>1, <2>1, SessionFacts DEF ReadFails, WriteFails
  <2>2. CASE ~ Readable(Served)
    BY <1>1, <2>2 DEF Inv, SessionOpen, LineInSession
  <2> QED
    BY <1>1, <2>1, <2>2 DEF ReturnsMinusOne
<1>5. DeathExplained' /\ LineInSession'
    BY <1>1, <1>4 DEF DeathExplained, WriteFails, LineInSession
<1>6. cut' \in SUBSET Clients
    BY <1>1 DEF Inv, ServerTypeOK
<1> QED
    BY <1>1, <1>2, <1>3, <1>5, <1>6, SessionStep

\* close frees the descriptor, which nothing that is left of the batch names.
LEMMA InvClose == Inv /\ Close => Inv'
<1> SUFFICES ASSUME Inv, Close PROVE Inv'
    OBVIOUS
<1>1. /\ InSession /\ CloseFd(conn) /\ watch' = watch \ {conn} /\ line' = << >>
      /\ pc' \in {"wait", "next"} /\ UNCHANGED <<events, conn, cut>>
    BY DEF Close, Continue, InSession
<1>2. conn \in ConnFds /\ conn # LISTENFD /\ fds[conn] # None
    BY <1>1, SessionFacts
<1>3. /\ KernelInv' /\ fds'[conn] = None
      /\ \A g \in ConnFds \ {conn} : fds'[g] = fds[g]
      /\ UNCHANGED <<backlog, sent, away, taken>>
    BY <1>1, <1>2, CloseKeeps DEF Inv
<1>4. OpenFds' = OpenFds \ {conn}
    BY <1>2, <1>3 DEF OpenFds
<1>5. WatchAgrees'
    BY <1>1, <1>2, <1>4 DEF Inv, WatchAgrees
<1>6. BatchFresh'
  <2> SUFFICES ASSUME NEW f \in events PROVE f \in watch' /\ Ready(f)'
      BY <1>1 DEF BatchFresh
  <2>1. f \in watch /\ Ready(f)
    BY DEF Inv, BatchFresh
  <2>2. CASE f = LISTENFD
    BY <1>1, <1>2, <1>3, <2>1, <2>2 DEF Ready
  <2>3. CASE f # LISTENFD
    <3>1. f \in ConnFds \ {conn} /\ fds[f] \in Clients /\ Readable(fds[f])
      BY <1>1, <2>3, EventFacts, OpenFacts
    <3>2. Readable(fds[f])'
      BY <1>3, <3>1 DEF Readable
    <3> QED
      BY <1>1, <2>1, <2>3, <3>1, <3>2 DEF Ready
  <2> QED
    BY <2>2, <2>3
<1>7. LineTypeOK' /\ LineInSession' /\ SessionOpen' /\ DeathExplained'
    BY <1>1 DEF LineTypeOK, LineInSession, SessionOpen, InSession, DeathExplained
<1>8. ServerTypeOK'
    BY <1>1 DEF Inv, ServerTypeOK
<1> QED
    BY <1>3, <1>5, <1>6, <1>7, <1>8 DEF Inv

\* writen goes on, is done, or drops the rest of the line.
LEMMA InvEcho == Inv /\ (Echo \/ EchoCut) => Inv'
<1> SUFFICES ASSUME Inv, Echo \/ EchoCut PROVE Inv'
    OBVIOUS
<1>1. /\ pc = "echo" /\ InSession /\ UNCHANGED <<watch, events, conn>>
      /\ Served \in Clients /\ KernelInv /\ LineTypeOK
    BY SessionFacts DEF Echo, EchoCut, InSession, Inv
<1>2. /\ KernelInv' /\ LineTypeOK' /\ UNCHANGED <<fds, backlog>>
      /\ \A d \in Clients : Readable(d) => Readable(d)'
  <2>1. CASE Echo
    BY <1>1, <2>1, WritePartKeeps DEF Echo, Readable
  <2>2. CASE EchoCut
    <3>1. UNCHANGED <<link, backlog, fds, sent, away, taken, echoed, got>> /\ line' = << >>
      BY <2>2 DEF EchoCut, kernel
    <3> QED
      BY <1>1, <3>1 DEF KernelInv, KernelTypeOK, StreamsInBounds, QueueAgrees, FdsAgree,
                        LineTypeOK, Readable
  <2> QED
    BY <2>1, <2>2
<1>3. \/ pc' \in {"wait", "next"} /\ line' = << >>
      \/ pc' = "echo" /\ line' # << >>
    BY <1>1 DEF Echo, EchoCut, Continue
<1>4. LineInSession' /\ DeathExplained'
    BY <1>3 DEF LineInSession, DeathExplained
<1>5. cut' \in SUBSET Clients
    BY <1>1 DEF Echo, EchoCut, Inv, ServerTypeOK
<1> QED
    BY <1>1, <1>2, <1>3, <1>4, <1>5, SessionStep

\* A write fails: once it is survived, the second time SIGPIPE ends the server.
LEMMA InvEchoFails == Inv /\ EchoFails => Inv'
<1> SUFFICES ASSUME Inv, EchoFails PROVE Inv'
    OBVIOUS
<1>1. /\ pc = "echo" /\ InSession /\ WriteGivesUp(Served)
      /\ UNCHANGED <<watch, events, conn, cut>>
      /\ pc' \in {"wait", "next"} \/ pc' = "dead"
    BY DEF EchoFails, InSession, Continue
<1>2. Served \in Clients /\ link[Served] = "open" /\ KernelInv /\ LineTypeOK
    BY <1>1, SessionFacts DEF Inv
<1>3. /\ KernelInv' /\ LineTypeOK' /\ line' = << >> /\ UNCHANGED <<fds, backlog>>
      /\ \A d \in Clients : Readable(d) => Readable(d)'
    BY <1>1, <1>2, WriteGivesUpKeeps
<1>4. \E c \in Clients : link'[c] = "open" /\ away'[c] = "gone"
  <2>1. link' = link /\ away' = [away EXCEPT ![Served] = "gone"]
    BY <1>1 DEF WriteGivesUp, FailWrite
  <2>2. away \in [Clients -> {"up", "fin", "reset", "gone"}]
    BY <1>2 DEF KernelInv, KernelTypeOK
  <2>3. away'[Served] = "gone"
    BY <1>2, <2>1, <2>2
  <2> QED
    BY <1>2, <2>1, <2>3
<1>5. LineInSession' /\ DeathExplained'
    BY <1>1, <1>3, <1>4 DEF LineInSession, DeathExplained, WriteFails
<1>6. cut' \in SUBSET Clients
    BY <1>1 DEF Inv, ServerTypeOK
<1> QED
    BY <1>1, <1>3, <1>5, <1>6, SessionStep

----------------------------------------------------------------------------
(* The theorems                                                            *)

\* Every step keeps the invariant.
LEMMA InvStep == Inv /\ [Next]_vars => Inv'
<1> SUFFICES ASSUME Inv, [Next]_vars PROVE Inv'
    OBVIOUS
<1>1. CASE UNCHANGED vars
  <2>1. /\ UNCHANGED <<link, backlog, fds, sent, away, taken, echoed, got, line>>
        /\ UNCHANGED <<pc, watch, events, conn, cut>>
    BY <1>1 DEF vars, lineio, kernel
  <2>2. KernelInv' /\ LineTypeOK' /\ ServerTypeOK' /\ WatchAgrees'
    BY <2>1 DEF Inv, KernelInv, KernelTypeOK, StreamsInBounds, QueueAgrees, FdsAgree,
                LineTypeOK, ServerTypeOK, WatchAgrees, OpenFds
  <2>3. BatchFresh' /\ SessionOpen' /\ LineInSession'
    BY <2>1 DEF Inv, BatchFresh, Ready, Readable, SessionOpen, InSession, OpenFds, Served,
                LineInSession
  <2>4. DeathExplained'
    <3>1. \A f \in watch : Ready(f)' <=> Ready(f)
      BY <2>1 DEF Ready, Readable
    <3>2. {f \in watch : Ready(f)}' = {f \in watch : Ready(f)}
      BY <2>1, <3>1
    <3>3. TooMany({f \in watch : Ready(f)})' <=> TooMany({f \in watch : Ready(f)})
      BY <3>2 DEF TooMany
    <3>4. FreeFds' = FreeFds /\ \A c \in Clients : WriteFails(c)' <=> WriteFails(c)
      BY <2>1 DEF FreeFds, WriteFails
    <3> QED
      BY <2>1, <3>3, <3>4 DEF Inv, DeathExplained
  <2> QED
    BY <2>2, <2>3, <2>4 DEF Inv
<1>2. CASE EpollWait \/ Accept \/ Input \/ Environment
    BY <1>2, InvWait, InvAccept, InvInput, InvEnvironment
<1>3. CASE ReadMore \/ ReadDone \/ ReadError \/ Close
    BY <1>3, InvReadMore, InvReadDone, InvReadError, InvClose
<1>4. CASE Echo \/ EchoCut \/ EchoFails
    BY <1>4, InvEcho, InvEchoFails
<1> QED
    BY <1>1, <1>2, <1>3, <1>4 DEF Next, Server

\* The inductive invariant holds in every reachable state.
LEMMA SpecInv == Spec => []Inv
<1>1. Init => Inv
    BY InvInit
<1>2. Inv /\ [Next]_vars => Inv'
    BY InvStep
<1> QED
    BY <1>1, <1>2, PTL DEF Spec, SafeSpec

\* Although EPOLL_CTL_DEL comes after close and fails, the epoll instance
\* watches exactly the listening socket and the open connections.
THEOREM InterestListCorrect == Spec => []WatchAgrees
<1>1. Inv => WatchAgrees
    BY DEF Inv
<1> QED
    BY <1>1, SpecInv, PTL

\* An event that epoll_wait returned is still good when its turn comes, though
\* the events before it closed connections and accepted others on descriptors
\* just freed.
THEOREM BatchCorrect == Spec => []BatchFresh
<1>1. Inv => BatchFresh
    BY DEF Inv
<1> QED
    BY <1>1, SpecInv, PTL

\* The server exits only for want of descriptors or of room for events, on a
\* connection its peer has given up, or on a client that pauses within a line:
\* readline never meets EAGAIN before a line's first byte.
THEOREM DeathCorrect == Spec => []DeathExplained
<1>1. Inv => DeathExplained
    BY DEF Inv
<1> QED
    BY <1>1, SpecInv, PTL

-----------------------------------------------------------------------------
(* Echoes *)

\* What every client is owed: its bytes echoed or in hand, unless its echo was
\* cut short.  Between sessions every connection is at the start of a line.
EchoInv == /\ \A c \in Clients \ cut : Owed(c, InHand(c))
           /\ pc # "dead" => \A c \in Clients : (pc = "read" /\ Served = c) \/ Settled(c)
           /\ pc = "read" => InLine(Served)

\* Steps outside sessions.
LEMMA EchoQuiet ==
    ASSUME EchoInv, pc \in {"wait", "next"}, line = << >>, line' = << >>, pc' # "read",
           UNCHANGED cut,
           \A c \in Clients : Settled(c) => /\ Settled(c)'
                                            /\ Owed(c, << >>) => Owed(c, << >>)'
    PROVE  EchoInv'
<1>1. \A c \in Clients : Settled(c)
    BY DEF EchoInv
<1>2. ASSUME NEW c \in Clients \ cut PROVE Owed(c, InHand(c))'
  <2>1. Owed(c, << >>)
    BY DEF EchoInv, InHand
  <2>2. Owed(c, << >>)'
    BY <1>1, <2>1
  <2>3. InHand(c)' = << >>
    BY DEF InHand
  <2> QED
    BY <2>2, <2>3
<1>3. \A c \in Clients : Settled(c)'
    BY <1>1
<1> QED
    BY <1>2, <1>3 DEF EchoInv

\* Steps of a session leave the other clients alone.
LEMMA SessionOwes ==
    ASSUME EchoInv, InSession, NEW s \in Clients, s = Served,
           \A d \in Clients \ {s} : Untouched(d),
           s \notin cut' => (Owed(s, line) => Owed(s, line)'),
           line' = << >> \/ UNCHANGED Served, cut \subseteq cut'
    PROVE  /\ \A c \in Clients \ cut' : Owed(c, InHand(c))'
           /\ \A c \in Clients \ {s} : Settled(c)'
<1>1. ASSUME NEW c \in Clients \ cut' PROVE Owed(c, InHand(c))'
  <2>1. Owed(c, InHand(c))
    BY DEF EchoInv
  <2>2. CASE c = s
    <3>1. InHand(c) = line /\ InHand(c)' = line'
      BY <2>2 DEF InHand
    <3>2. Owed(s, line)'
      BY <2>1, <2>2, <3>1
    <3> QED
      BY <2>2, <3>1, <3>2
  <2>3. CASE c # s
    <3>1. InHand(c) = << >> /\ InHand(c)' = << >>
      BY <2>3 DEF InHand
    <3>2. PICK h : h = << >>
      OBVIOUS
    <3>3. Owed(c, h)'
      BY <2>1, <2>3, <3>1, <3>2, OwedStays
    <3> QED
      BY <3>1, <3>2, <3>3
  <2> QED
    BY <2>2, <2>3
<1>2. ASSUME NEW c \in Clients \ {s} PROVE Settled(c)'
  <2>1. Settled(c)
    BY DEF EchoInv, InSession
  <2>2. PICK h : h = << >>
    OBVIOUS
  <2> QED
    BY <2>1, OwedStays
<1> QED
    BY <1>1, <1>2

\* Nothing is owed at the start.
LEMMA EchoInit == Init => EchoInv
<1> SUFFICES ASSUME Init PROVE EchoInv
    OBVIOUS
<1>1. ASSUME NEW c \in Clients PROVE Owed(c, InHand(c)) /\ Settled(c)
  <2>1. /\ taken[c] = 0 /\ echoed[c] = << >> /\ link[c] = "none" /\ InHand(c) = << >>
    BY DEF Init, KernelInit, InHand
  <2>2. 0 \in 0 .. taken[c] /\ EchoedUpTo(c, 0)
    BY <2>1 DEF EchoedUpTo
  <2>3. \E k \in 0 .. taken[c] : EchoedUpTo(c, k)
    BY <2>2
  <2>4. Owed(c, InHand(c))
    BY <2>1, <2>3 DEF Owed
  <2> QED
    BY <2>1, <2>4 DEF Settled
<1> QED
    BY <1>1 DEF EchoInv, Init

\* A client's step.
LEMMA EchoEnvironment == Inv /\ EchoInv /\ Environment => EchoInv'
<1> SUFFICES ASSUME Inv, EchoInv, Environment PROVE EchoInv'
    OBVIOUS
<1>1. PICK d \in Clients : ClientStep(d)
    BY DEF Environment
<1>2. UNCHANGED <<line, pc, watch, events, conn, cut>> /\ pc # "dead"
    BY DEF Environment
<1>3. UNCHANGED fds /\ KernelInv
    BY <1>1, ClientKeeps DEF Inv
<1>4. ASSUME NEW c \in Clients PROVE InHand(c)' = InHand(c)
    BY <1>2, <1>3 DEF InHand, Served
<1>5. ASSUME NEW c \in Clients \ cut PROVE Owed(c, InHand(c))'
  <2>1. PICK h : h = InHand(c)
    OBVIOUS
  <2>2. Owed(c, h)
    BY <2>1 DEF EchoInv
  <2>3. Owed(c, h)'
    BY <1>1, <1>3, <2>2, OwedClient
  <2> QED
    BY <1>4, <2>1, <2>3
<1>6. ASSUME NEW c \in Clients, Settled(c) PROVE Settled(c)'
  <2>1. PICK h : h = << >>
    OBVIOUS
  <2> QED
    BY <1>1, <1>3, <1>6, OwedClient
<1>7. ASSUME pc = "read" PROVE InLine(Served)'
  <2>1. PICK s \in Clients : s = Served
    BY <1>7, SessionFacts DEF InSession
  <2>2. InLine(s) /\ Served' = s
    BY <1>2, <1>3, <1>7, <2>1 DEF EchoInv, Served
  <2>3. PICK h : h = << >>
    OBVIOUS
  <2>4. InLine(s)'
    BY <1>1, <1>2, <1>3, <2>2, OwedClient
  <2> QED
    BY <2>2, <2>4
<1>8. Served' = Served
    BY <1>2, <1>3 DEF Served
<1> QED
    BY <1>2, <1>5, <1>6, <1>7, <1>8 DEF EchoInv

\* Waiting and accepting owe nobody anything new.
LEMMA EchoAccept == Inv /\ EchoInv /\ (EpollWait \/ Accept) => EchoInv'
<1> SUFFICES ASSUME Inv, EchoInv, EpollWait \/ Accept PROVE EchoInv'
    OBVIOUS
<1>1. /\ pc \in {"wait", "next"} /\ line = << >> /\ line' = << >> /\ cut' = cut
      /\ pc' # "read"
      /\ \/ UNCHANGED kernel
         \/ \E f \in ConnFds : AcceptAs(f)
    BY DEF EpollWait, Accept, Continue, Inv, LineInSession, lineio
<1>2. ASSUME NEW c \in Clients, Settled(c)
      PROVE  Settled(c)' /\ (Owed(c, << >>) => Owed(c, << >>)')
  <2>1. CASE UNCHANGED kernel
    <3>1. Untouched(c)
      BY <2>1 DEF kernel, Untouched
    <3>2. PICK h : h = << >>
      OBVIOUS
    <3>3. Settled(c)' /\ (Owed(c, h) => Owed(c, h)')
      BY <1>2, <3>1, OwedStays
    <3> QED
      BY <3>2, <3>3
  <2>2. CASE \E f \in ConnFds : AcceptAs(f)
    BY <1>2, <2>2, OwedAccept DEF Inv
  <2> QED
    BY <1>1, <2>1, <2>2
<1> QED
    BY <1>1, <1>2, EchoQuiet

\* A session starts at the start of a line.
LEMMA EchoInput == Inv /\ EchoInv /\ Input => EchoInv'
<1> SUFFICES ASSUME Inv, EchoInv, Input PROVE EchoInv'
    OBVIOUS
<1>1. /\ UNCHANGED <<link, backlog, fds, sent, away, taken, echoed, got, line, cut>>
      /\ line = << >> /\ pc = "next" /\ pc' = "read"
      /\ conn' \in events \ {LISTENFD}
    BY DEF Input, lineio, kernel, Inv, LineInSession
<1>2. PICK s \in Clients : s = fds[conn'] /\ link[s] = "open"
    BY <1>1, EventFacts, OpenFacts
<1>3. ASSUME NEW c \in Clients
      PROVE  Settled(c)' /\ (Owed(c, << >>) => Owed(c, << >>)')
  <2>1. Untouched(c)
    BY <1>1 DEF Untouched
  <2>2. Settled(c)
    BY <1>1 DEF EchoInv
  <2>3. PICK h : h = << >>
    OBVIOUS
  <2>4. Settled(c)' /\ (Owed(c, h) => Owed(c, h)')
    BY <2>1, <2>2, OwedStays
  <2> QED
    BY <2>3, <2>4
<1>4. ASSUME NEW c \in Clients \ cut PROVE Owed(c, InHand(c))'
  <2>1. InHand(c) = << >> /\ InHand(c)' = << >>
    BY <1>1 DEF InHand
  <2> QED
    BY <1>3, <2>1 DEF EchoInv
<1>5. InLine(s)'
  <2>1. AtLineStart(s, taken[s]) /\ taken[s] \in Nat
    BY <1>1, <1>2, StreamFacts DEF EchoInv, Settled, Inv
  <2>2. taken[s] - 0 = taken[s] /\ 0 <= taken[s] /\ 0 <= MAXLINE /\ Len(line) = 0
    BY <1>1, <2>1, MaxlineAssumption
  <2> QED
    BY <1>1, <2>1, <2>2 DEF InLine, AtLineStart
<1>6. Served' = s
    BY <1>1, <1>2 DEF Served
<1> QED
    BY <1>1, <1>3, <1>4, <1>5, <1>6 DEF EchoInv

\* What readline takes from the socket is in hand.
LEMMA EchoRead == Inv /\ EchoInv /\ (ReadMore \/ ReadDone) => EchoInv'
<1> SUFFICES ASSUME Inv, EchoInv, ReadMore \/ ReadDone PROVE EchoInv'
    OBVIOUS
<1>1. /\ InSession /\ pc = "read" /\ UNCHANGED <<conn, cut>>
    BY DEF ReadMore, ReadDone, InSession
<1>2. PICK s \in Clients : s = Served
    BY <1>1, SessionFacts
<1>3. /\ link[s] = "open" /\ KernelInv /\ LineTypeOK /\ InLine(s)
    BY <1>1, <1>2, SessionFacts DEF Inv, EchoInv
<1>4. /\ Owed(s, line) => Owed(s, line)'
      /\ \A d \in Clients \ {s} : Untouched(d)
      /\ \/ pc' = "read" /\ InLine(s)'
         \/ pc' = "echo" /\ AtLineStart(s, taken'[s])
      /\ UNCHANGED <<fds, link>>
  <2>1. CASE ReadMore
    <3>1. ReadLinePart(s) /\ pc' = "read"
      BY <1>2, <2>1 DEF ReadMore
    <3> QED
      BY <1>3, <3>1, PartFlows, ReadLinePartKeeps
  <2>2. CASE ReadDone
    <3>1. ReadLineEnd(s) /\ pc' = "echo"
      BY <1>2, <2>2 DEF ReadDone
    <3> QED
      BY <1>3, <3>1, EndFlows, ReadLineEndKeeps
  <2> QED
    BY <2>1, <2>2
<1>5. Served' = s
    BY <1>1, <1>2, <1>4 DEF Served
<1>6. /\ \A c \in Clients \ cut' : Owed(c, InHand(c))'
      /\ \A c \in Clients \ {s} : Settled(c)'
  <2>1. UNCHANGED Served /\ cut \subseteq cut'
    BY <1>1, <1>2, <1>5
  <2> QED
    BY <1>1, <1>2, <1>4, <2>1, SessionOwes
<1>7. CASE pc' = "read" /\ InLine(s)'
  <2>1. InLine(Served)'
    BY <1>5, <1>7
  <2> QED
    BY <1>5, <1>6, <1>7, <2>1 DEF EchoInv
<1>8. CASE pc' = "echo" /\ AtLineStart(s, taken'[s])
  <2>1. Settled(s)'
    BY <1>3, <1>4, <1>8 DEF Settled, AtLineStart
  <2> QED
    BY <1>6, <1>8, <2>1 DEF EchoInv
<1> QED
    BY <1>4, <1>7, <1>8

\* The exit within a session.
LEMMA EchoError == Inv /\ EchoInv /\ ReadError => EchoInv'
<1> SUFFICES ASSUME Inv, EchoInv, ReadError PROVE EchoInv'
    OBVIOUS
<1>1. /\ UNCHANGED <<link, backlog, fds, sent, away, taken, echoed, got, line>>
      /\ UNCHANGED <<conn, cut>> /\ pc' = "dead"
    BY DEF ReadError, lineio, kernel
<1>2. ASSUME NEW c \in Clients \ cut PROVE Owed(c, InHand(c))'
  <2>1. PICK h : h = InHand(c)
    OBVIOUS
  <2>2. InHand(c)' = h /\ Untouched(c)
    BY <1>1, <2>1 DEF InHand, Served, Untouched
  <2>3. Owed(c, h)
    BY <2>1 DEF EchoInv
  <2>4. Owed(c, h)'
    BY <2>2, <2>3, OwedStays
  <2> QED
    BY <2>2, <2>4
<1> QED
    BY <1>1, <1>2 DEF EchoInv

\* A session is closed with nothing in hand but an unfinished line.
LEMMA EchoClose == Inv /\ EchoInv /\ Close => EchoInv'
<1> SUFFICES ASSUME Inv, EchoInv, Close PROVE EchoInv'
    OBVIOUS
<1>1. /\ InSession /\ pc = "read" /\ CloseFd(conn) /\ line' = << >>
      /\ pc' \in {"wait", "next"} /\ UNCHANGED <<conn, cut>>
      /\ conn \in ConnFds
    BY SessionFacts DEF Close, Continue, InSession
<1>2. PICK s \in Clients : s = Served
    BY <1>1, SessionFacts
<1>3. /\ link[s] = "open" /\ KernelInv /\ LineTypeOK /\ InLine(s) /\ ReadLineNothing(s)
      /\ fds[conn] = s
    BY <1>1, <1>2, SessionFacts DEF Inv, EchoInv, Close, Served
<1>4. /\ link'[s] = "closed"
      /\ Owed(s, line) => Owed(s, << >>)'
      /\ \A d \in Clients \ {s} : Untouched(d)
    BY <1>1, <1>3, NothingFlows
<1>5. /\ \A c \in Clients \ cut' : Owed(c, InHand(c))'
      /\ \A c \in Clients \ {s} : Settled(c)'
  <2>1. Owed(s, line) => Owed(s, line)'
    BY <1>1, <1>4
  <2>2. cut \subseteq cut'
    BY <1>1
  <2> QED
    BY <1>1, <1>2, <1>4, <2>1, <2>2, SessionOwes
<1>6. Settled(s)'
    BY <1>4 DEF Settled
<1> QED
    BY <1>1, <1>5, <1>6 DEF EchoInv

\* writen goes on, is done, drops the rest of the line, or fails.
LEMMA EchoWrite == Inv /\ EchoInv /\ (Echo \/ EchoCut \/ EchoFails) => EchoInv'
<1> SUFFICES ASSUME Inv, EchoInv, Echo \/ EchoCut \/ EchoFails PROVE EchoInv'
    OBVIOUS
<1>1. InSession /\ pc = "echo" /\ UNCHANGED conn /\ pc' # "read"
    BY DEF Echo, EchoCut, EchoFails, InSession, Continue
<1>2. PICK s \in Clients : s = Served
    BY <1>1, SessionFacts
<1>3. link[s] = "open" /\ KernelInv /\ LineTypeOK /\ Settled(s)
    BY <1>1, <1>2, SessionFacts DEF Inv, EchoInv
<1>4. /\ s \notin cut' => (Owed(s, line) => Owed(s, line)')
      /\ \A d \in Clients \ {s} : Untouched(d)
      /\ UNCHANGED <<link, taken, fds>> /\ cut \subseteq cut'
  <2>1. CASE Echo
    <3>1. WritePart(s) /\ cut' = cut
      BY <1>2, <2>1 DEF Echo
    <3> QED
      BY <1>3, <3>1, WriteFlows, WritePartKeeps
  <2>2. CASE EchoCut
    BY <1>2, <2>2 DEF EchoCut, kernel, Untouched
  <2>3. CASE EchoFails
    <3>1. WriteGivesUp(s) /\ cut' = cut
      BY <1>2, <2>3 DEF EchoFails
    <3> QED
      BY <1>3, <3>1, WriteFailsFlows, WriteGivesUpKeeps
  <2> QED
    BY <2>1, <2>2, <2>3
<1>5. UNCHANGED Served
    BY <1>1, <1>4 DEF Served
<1>6. /\ \A c \in Clients \ cut' : Owed(c, InHand(c))'
      /\ \A c \in Clients \ {s} : Settled(c)'
    BY <1>1, <1>2, <1>4, <1>5, SessionOwes
<1>7. Settled(s)'
    BY <1>3, <1>4 DEF Settled, AtLineStart
<1> QED
    BY <1>1, <1>6, <1>7 DEF EchoInv

\* Every step keeps what is owed.
LEMMA EchoStep == Inv /\ EchoInv /\ [Next]_vars => EchoInv'
<1> SUFFICES ASSUME Inv, EchoInv, [Next]_vars PROVE EchoInv'
    OBVIOUS
<1>1. CASE UNCHANGED vars
  <2>1. /\ UNCHANGED <<link, backlog, fds, sent, away, taken, echoed, got, line>>
        /\ UNCHANGED <<pc, watch, events, conn, cut>>
    BY <1>1 DEF vars, lineio, kernel
  <2>2. ASSUME NEW c \in Clients
        PROVE  /\ Owed(c, InHand(c)) => Owed(c, InHand(c))'
               /\ Settled(c) => Settled(c)'
    <3>1. PICK h : h = InHand(c)
      OBVIOUS
    <3>2. InHand(c)' = h /\ Untouched(c)
      BY <2>1, <3>1 DEF InHand, Served, Untouched
    <3>3. (Owed(c, h) => Owed(c, h)') /\ (Settled(c) => Settled(c)')
      BY <3>2, OwedStays
    <3> QED
      BY <3>1, <3>2, <3>3
  <2>3. InLine(Served) => InLine(Served)'
    BY <2>1 DEF InLine, AtLineStart, Served
  <2>4. Served' = Served
    BY <2>1 DEF Served
  <2>5. \A c \in Clients \ cut : Owed(c, InHand(c))'
    BY <2>2 DEF EchoInv
  <2>6. pc # "dead" => \A c \in Clients : (pc = "read" /\ Served = c) \/ Settled(c)'
    BY <2>2 DEF EchoInv
  <2>8. pc' # "dead" => \A c \in Clients : (pc' = "read" /\ Served' = c) \/ Settled(c)'
    BY <2>1, <2>4, <2>6
  <2>7. pc = "read" => InLine(Served)'
    BY <2>3 DEF EchoInv
  <2> QED
    BY <2>1, <2>5, <2>7, <2>8 DEF EchoInv
<1>2. CASE EpollWait \/ Accept \/ Input \/ Environment
    BY <1>2, EchoAccept, EchoInput, EchoEnvironment
<1>3. CASE ReadMore \/ ReadDone \/ ReadError \/ Close
    BY <1>3, EchoRead, EchoError, EchoClose
<1>4. CASE Echo \/ EchoCut \/ EchoFails
    BY <1>4, EchoWrite
<1> QED
    BY <1>1, <1>2, <1>3, <1>4 DEF Next, Server

\* Each client gets back what it sent, byte for byte, whatever the others do.
THEOREM EchoCorrect == Spec => []EchoFaithful
<1>1. Init => Inv /\ EchoInv
    BY InvInit, EchoInit
<1>2. Inv /\ EchoInv /\ [Next]_vars => (Inv /\ EchoInv)'
    BY InvStep, EchoStep
<1>3. Inv /\ EchoInv => EchoFaithful
  <2> SUFFICES ASSUME Inv, EchoInv, NEW c \in Clients \ cut, ~ FilledBuffer(c)
               PROVE  CASE link[c] = "open" /\ away[c] # "gone" -> EchoedAll(c, InHand(c))
                        [] link[c] = "closed" /\ away[c] # "gone" -> EchoedLines(c)
                        [] OTHER -> EchoedSome(c)
      BY DEF EchoFaithful
  <2>1. PICK h \in Seq(Nat) : h = InHand(c)
    <3>1. InHand(c) \in Seq(Nat)
      BY EmptySeq DEF InHand, Inv, LineTypeOK
    <3> QED
      BY <3>1, Zenon
  <2>2. Owed(c, h) /\ KernelInv
    BY <2>1 DEF EchoInv, Inv
  <2> QED
    BY <2>1, <2>2, OwedIsFaithful
<1> QED
    BY <1>1, <1>2, <1>3, PTL DEF Spec, SafeSpec
=============================================================================
