---------------------------- MODULE EpollServer ----------------------------
(***************************************************************************)
(* 13epoll/echoser_epoll.c: the line-echo server on level-triggered epoll, *)
(* with non-blocking connections.                                          *)
(*                                                                         *)
(* readline and writen of helper.c were written for blocking sockets.  On  *)
(* these, a peek that finds nothing (EAGAIN) makes readline return -1, on  *)
(* which the server exits, and a write that finds no room makes writen     *)
(* return -1, which nobody looks at.  SIGPIPE is not ignored: writing to a *)
(* connection whose error was already reported ends the process.           *)
(*                                                                         *)
(* A definition named Bug... is the one after it with a plausible mistake; *)
(* no specification uses it.                                               *)
(***************************************************************************)
EXTENDS LineIO

CONSTANT MAXEVENTS        \* room for events in one epoll_wait (2048)
ASSUME MaxeventsAssumption == MAXEVENTS \in Nat /\ MAXEVENTS >= 2

VARIABLES pc,       \* "wait", in a batch of events "next", "read" or "echo";
                    \* "dead": exited
          watch,    \* the descriptors in the epoll instance
          events,   \* the events of the batch that are still to be handled
          conn,     \* the descriptor whose event is being handled
          cut       \* the clients whose echo was cut short by EAGAIN (history)

vars == <<lineio, pc, watch, events, conn, cut>>

Init == /\ KernelInit
        /\ line = << >>
        /\ pc = "wait"
        /\ watch = {LISTENFD}
        /\ events = {}
        /\ conn = LISTENFD
        /\ cut = {}

----------------------------------------------------------------------------
BugAlwaysReady(f) == TRUE
Ready(f) == IF f = LISTENFD THEN backlog # << >> ELSE Readable(fds[f])

TooMany(found) == Cardinality(found) >= MAXEVENTS

\* epoll_wait blocks while nothing is ready; a full array means ERR_EXIT.
EpollWait == /\ pc = "wait"
             /\ \E f \in watch : Ready(f)
             /\ LET found == {f \in watch : Ready(f)} IN
                IF TooMany(found) THEN pc' = "dead" /\ UNCHANGED events
                ELSE pc' = "next" /\ events' = found
             /\ UNCHANGED <<lineio, watch, conn, cut>>

\* On to the next event of the batch, or to the next batch.
Continue(left) == pc' = IF left = {} THEN "wait" ELSE "next"

BugNotAdded(f) == watch
WatchedWith(f) == watch \cup {f}

\* The kernel gives the events in an order of its own.  The listening
\* socket's event: accept, or ERR_EXIT without a free descriptor.
Accept == /\ pc = "next"
          /\ LISTENFD \in events
          /\ events' = events \ {LISTENFD}
          /\ IF FreeFds = {} THEN pc' = "dead" /\ UNCHANGED <<kernel, watch>>
             ELSE \E f \in ConnFds : /\ AcceptAs(f)
                                     /\ watch' = WatchedWith(f)
                                     /\ Continue(events')
          /\ UNCHANGED <<line, conn, cut>>

\* A connection's event: EPOLLIN is set on errors and hang-ups too.
BugSameEvent == /\ pc = "next"
                /\ conn' \in events \ {LISTENFD}
                /\ pc' = "read"
                /\ UNCHANGED <<lineio, watch, events, cut>>
Input == /\ pc = "next"
         /\ conn' \in events \ {LISTENFD}
         /\ events' = events \ {conn'}
         /\ pc' = "read"
         /\ UNCHANGED <<lineio, watch, cut>>

Served == fds[conn]

ReadMore == /\ pc = "read"
            /\ ReadLinePart(Served)
            /\ UNCHANGED <<pc, watch, events, conn, cut>>

ReadDone == /\ pc = "read"
            /\ ReadLineEnd(Served)
            /\ pc' = "echo"
            /\ UNCHANGED <<watch, events, conn, cut>>

\* readline returns -1: the connection failed, or the peek found nothing.
BugSocketBlocks(c) == ReadFails(c)
ReturnsMinusOne(c) == ReadFails(c) \/ ~ Readable(c)

ReadError == /\ pc = "read"
             /\ ReturnsMinusOne(Served)
             /\ pc' = "dead"
             /\ UNCHANGED <<lineio, watch, events, conn, cut>>

\* readline returns 0.  close takes the descriptor out of the epoll instance;
\* EPOLL_CTL_DEL comes after it and fails, and so does writen.
Close == /\ pc = "read"
         /\ ReadLineNothing(Served)
         /\ CloseFd(conn)
         /\ watch' = watch \ {conn}
         /\ line' = << >>
         /\ Continue(events)
         /\ UNCHANGED <<events, conn, cut>>

Echo == /\ pc = "echo"
        /\ WritePart(Served)
        /\ IF line' = << >> THEN Continue(events) ELSE UNCHANGED pc
        /\ UNCHANGED <<watch, events, conn, cut>>

\* writen returns -1 for want of room: the rest of the line is dropped.
EchoCut == /\ pc = "echo"
           /\ ~ WriteFails(Served)
           /\ Writable(Served, line) = 0
           /\ line' = << >>
           /\ cut' = cut \cup {Served}
           /\ Continue(events)
           /\ UNCHANGED <<kernel, watch, events, conn>>

\* The peer is gone.  The first write that fails reports the reset; a later
\* one, or one after the peer's FIN, raises SIGPIPE.
EchoFails == /\ pc = "echo"
             /\ WriteGivesUp(Served)
             /\ IF away[Served] = "gone" THEN pc' = "dead" ELSE Continue(events)
             /\ UNCHANGED <<watch, events, conn, cut>>

----------------------------------------------------------------------------
Server == \/ EpollWait \/ Accept \/ Input \/ ReadMore \/ ReadDone \/ ReadError
          \/ Close \/ Echo \/ EchoCut \/ EchoFails

Environment == /\ pc # "dead"
               /\ \E c \in Clients : ClientStep(c)
               /\ UNCHANGED <<line, pc, watch, events, conn, cut>>

Next == Server \/ Environment

SafeSpec == Init /\ [][Next]_vars
Spec == SafeSpec /\ WF_vars(Server)

----------------------------------------------------------------------------
(* Properties                                                              *)

OpenFds == {f \in ConnFds : fds[f] # None}

\* The epoll instance watches exactly the open descriptors, although the
\* server removes a connection from it only after closing it.
WatchAgrees == watch = {LISTENFD} \cup OpenFds

\* No event of a batch goes stale while the batch is handled: connections are
\* closed and accepted between its events, descriptors are used again, yet
\* each event left still means that its descriptor is open and ready.
BatchFresh == \A f \in events : f \in watch /\ Ready(f)

\* The server exits only when a peer has reset or abandoned its connection,
\* when descriptors or events run out, or when a client pauses within a line;
\* EAGAIN never meets it before a line's first byte.
DeathExplained == pc = "dead" =>
    \/ FreeFds = {}
    \/ TooMany({f \in watch : Ready(f)})
    \/ \E c \in Clients : link[c] = "open" /\ WriteFails(c)
    \/ line # << >> /\ LineEnd(line) = {}

InHand(c) == IF line = << >> THEN << >> ELSE IF Served = c THEN line ELSE << >>

\* Each client gets back what it sent, byte for byte, unless a line of its
\* own just fills recvbuf or an echo to it was cut short because it does not
\* read.
EchoFaithful == \A c \in Clients \ cut : ~ FilledBuffer(c) =>
    CASE link[c] = "open" /\ away[c] # "gone" -> EchoedAll(c, InHand(c))
      [] link[c] = "closed" /\ away[c] # "gone" -> EchoedLines(c)
      [] OTHER -> EchoedSome(c)

\* No client can hold the server up, by sending half a line or by not reading:
\* every connection is accepted and every line taken, or the server exits.
NobodyHeldUp == \A c \in Clients : []<>(~ Waits(c) \/ pc = "dead")
=============================================================================
