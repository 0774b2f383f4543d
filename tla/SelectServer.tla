--------------------------- MODULE SelectServer ---------------------------
(***************************************************************************)
(* 9select2/echoser_select.c: the line-echo server that multiplexes its    *)
(* clients with select in one process.                                     *)
(*                                                                         *)
(* A round is: select, then accept when the listening socket is ready,     *)
(* then a scan of the table `client` that reads a line from each ready     *)
(* connection and echoes it.  The sockets block: a client that has sent    *)
(* half a line, or that does not read its echoes, holds up the round.      *)
(* rset, nready and i are only used within a round; between rounds the     *)
(* model keeps them at {}, 0 and 0.                                        *)
(*                                                                         *)
(* A definition named Bug... is the one after it with a plausible mistake; *)
(* no specification uses it, it serves to see a property fail.             *)
(***************************************************************************)
EXTENDS LineIO

CONSTANT FD_SETSIZE        \* slots of `client`; descriptors a set can hold

\* A set holds every descriptor the process can have, so FD_SET is defined.
ASSUME SetsizeAssumption == FD_SETSIZE \in Nat /\ OPEN_MAX <= FD_SETSIZE

VARIABLES pc,       \* where the server is in its round, or "dead": exited
          client,   \* the descriptor in each slot of the table, or -1
          maxi,     \* the highest slot ever used
          maxfd,    \* the highest descriptor ever watched
          allset,   \* the descriptors to watch
          rset,     \* the descriptors select found ready
          nready,   \* how many of those are still to be handled
          i         \* the slot that is looked at

table == <<client, maxi, maxfd, allset>>
round == <<rset, nready, i>>
vars == <<lineio, pc, table, round>>

Slots == 0 .. FD_SETSIZE - 1

Init == /\ KernelInit
        /\ line = << >>
        /\ pc = "select"
        /\ client = [s \in Slots |-> -1]
        /\ maxi = 0
        /\ maxfd = LISTENFD
        /\ allset = {LISTENFD}
        /\ rset = {}
        /\ nready = 0
        /\ i = 0

----------------------------------------------------------------------------
\* A descriptor is ready: there is a connection to accept or a read would
\* not block.
Ready(f) == IF f = LISTENFD THEN backlog # << >> ELSE Readable(fds[f])

\* The descriptors select looks at.
BugMaxfdShort == {f \in allset : f < maxfd}
Watched == {f \in allset : f <= maxfd}

\* select blocks while nothing is ready.
Select == /\ pc = "select"
          /\ rset' = {f \in Watched : Ready(f)}
          /\ rset' # {}
          /\ nready' = Cardinality(rset')
          /\ pc' = IF LISTENFD \in rset' THEN "accept" ELSE "scan"
          /\ i' = 0
          /\ UNCHANGED <<lineio, table>>

\* The end of a round, and the end of the process.
EndRound == pc' = "select" /\ rset' = {} /\ nready' = 0 /\ i' = 0
Die == pc' = "dead" /\ UNCHANGED <<table, round>>

\* `if (--nready <= 0)`: nothing else is ready, the round ends.  Otherwise
\* the scan goes on at slot s.
BugNreadyKept(s) == pc' = "scan" /\ i' = s /\ UNCHANGED <<rset, nready>>
OneHandled(s) == IF nready - 1 <= 0 THEN EndRound
                 ELSE /\ pc' = "scan"
                      /\ nready' = nready - 1
                      /\ i' = s
                      /\ UNCHANGED rset

BugSlotsInUse == {s \in 0 .. maxi : client[s] < 0}
FreeSlots == {s \in Slots : client[s] < 0}

BugMaxfdLast(conn) == conn
NewMaxfd(conn) == IF conn > maxfd THEN conn ELSE maxfd

\* The new connection goes to the first free slot and is watched.
Store(conn) == \E s \in FreeSlots :
    /\ \A r \in FreeSlots : s <= r
    /\ client' = [client EXCEPT ![s] = conn]
    /\ maxi' = IF s > maxi THEN s ELSE maxi
    /\ allset' = allset \cup {conn}
    /\ maxfd' = NewMaxfd(conn)

\* accept, and the exit when the table is full.
Accept == /\ pc = "accept"
          /\ \E conn \in ConnFds :
                /\ AcceptAs(conn)
                /\ IF FreeSlots = {} THEN Die
                   ELSE Store(conn) /\ OneHandled(0)
          /\ UNCHANGED line

\* accept finds the descriptor table full: ERR_EXIT.
AcceptFails == /\ pc = "accept"
               /\ FreeFds = {}
               /\ Die
               /\ UNCHANGED lineio

\* The scan skips the empty slots and the descriptors that are not ready.
BugAnySlot == {s \in i .. maxi : client[s] # -1}
Hits == {s \in i .. maxi : client[s] # -1 /\ client[s] \in rset}

Scan == /\ pc = "scan"
        /\ IF Hits = {} THEN EndRound
           ELSE /\ i' \in Hits
                /\ \A s \in Hits : i' <= s
                /\ pc' = "read"
                /\ UNCHANGED <<rset, nready>>
        /\ UNCHANGED <<lineio, table>>

\* The client on the connection that is being served.
Served == fds[client[i]]

\* readline goes on, or has a line to echo.
ReadMore == /\ pc = "read"
            /\ ReadLinePart(Served)
            /\ UNCHANGED <<pc, table, round>>

ReadDone == /\ pc = "read"
            /\ ReadLineEnd(Served)
            /\ pc' = "echo"
            /\ UNCHANGED <<table, round>>

\* readline returns -1: ERR_EXIT takes every connection down.
ReadError == /\ pc = "read"
             /\ ReadFails(Served)
             /\ Die
             /\ UNCHANGED lineio

\* What a closed connection leaves: its slot free, its descriptor unwatched.
Forget == /\ allset' = allset \ {client[i]}
          /\ client' = [client EXCEPT ![i] = -1]
          /\ UNCHANGED <<maxi, maxfd>>

\* readline returns 0: the connection is closed.  The writen of what was read
\* of an unfinished line then fails on the closed descriptor.
Close == /\ pc = "read"
         /\ ReadLineNothing(Served)
         /\ CloseFd(client[i])
         /\ Forget
         /\ line' = << >>
         /\ OneHandled(i + 1)

\* writen of the line; the slot is handled when nothing is left to write.
EchoDone == IF line' = << >> THEN OneHandled(i + 1) ELSE UNCHANGED <<pc, round>>

Echo == /\ pc = "echo"
        /\ WritePart(Served)
        /\ EchoDone
        /\ UNCHANGED table

EchoFails == /\ pc = "echo"
             /\ WriteGivesUp(Served)
             /\ EchoDone
             /\ UNCHANGED table

----------------------------------------------------------------------------
Server == \/ Select \/ Accept \/ AcceptFails \/ Scan \/ ReadMore \/ ReadDone
          \/ ReadError \/ Close \/ Echo \/ EchoFails

\* When the server has exited nothing is left to model.
Environment == /\ pc # "dead"
               /\ \E c \in Clients : ClientStep(c)
               /\ UNCHANGED <<line, pc, table, round>>

Next == Server \/ Environment

SafeSpec == Init /\ [][Next]_vars

\* The kernel runs the process whenever it is not blocked.  The clients owe
\* the server nothing.
Spec == SafeSpec /\ WF_vars(Server)

----------------------------------------------------------------------------
(* Properties                                                              *)

OpenFds == {f \in ConnFds : fds[f] # None}

TypeOK == /\ KernelTypeOK
          /\ line \in Seq(Nat)
          /\ pc \in {"select", "accept", "scan", "read", "echo", "dead"}
          /\ client \in [Slots -> ConnFds \cup {-1}]
          /\ maxi \in Slots
          /\ maxfd \in ConnFds \cup {LISTENFD}
          /\ allset \in SUBSET (ConnFds \cup {LISTENFD})
          /\ rset \in SUBSET (ConnFds \cup {LISTENFD})
          /\ nready \in Nat
          /\ i \in Nat

\* The three records of the open connections agree after any history of
\* arrivals and departures: the kernel's table, `client` and `allset` hold
\* the same descriptors, no two slots share one, and maxi and maxfd bound
\* them, so that neither select nor the scan overlooks a connection.
TableAgrees ==
    /\ allset = {LISTENFD} \cup OpenFds
    /\ \A f \in OpenFds : \E s \in 0 .. maxi : client[s] = f
    /\ \A s \in Slots : client[s] # -1 => client[s] \in OpenFds /\ s <= maxi
    /\ \A s, t \in Slots : client[s] = client[t] /\ client[s] # -1 => s = t
    /\ \A f \in OpenFds : f <= maxfd

\* What is still to be handled in a round: the ready slots from i on, and
\* first of all the listening socket.
Pending == IF pc = "accept" THEN rset
           ELSE {f \in rset : \E s \in Slots : s >= i /\ client[s] = f}

\* nready counts exactly what is still to be handled, so leaving the round
\* when it reaches zero skips nobody who was ready - although the table
\* changes under the scan.
NreadyExact ==
    pc \in {"accept", "scan", "read", "echo"} =>
        /\ nready = Cardinality(Pending)
        /\ nready > 0

\* What select found is still so when it is used: accept does not block, and
\* readline does not block before its first byte.
ReadinessHolds ==
    /\ pc = "accept" => backlog # << >>
    /\ pc = "read" /\ line = << >> => Readable(Served)

\* Descriptors run out before slots do: the exit "too many clients" is dead
\* code, and a departed client's slot is always found again.
SlotAlwaysFree == pc = "accept" => FreeFds = {} \/ FreeSlots # {}

\* What has been read of a client and is not yet echoed.
InHand(c) == IF line = << >> THEN << >> ELSE IF Served = c THEN line ELSE << >>

\* Each client gets back what it sent, byte for byte, whatever the other
\* clients do, unless a line of its own just fills recvbuf (what follows the
\* buffer is then echoed too).  When the server closes a connection whose
\* client closed in order, every complete line has been echoed and only a last
\* line without '\n', or a line longer than recvbuf, is lost.
EchoFaithful == \A c \in Clients : ~ FilledBuffer(c) =>
    CASE link[c] = "open" /\ away[c] # "gone" -> EchoedAll(c, InHand(c))
      [] link[c] = "closed" /\ away[c] # "gone" -> EchoedLines(c)
      [] OTHER -> EchoedSome(c)

\* Nobody starves: as long as the server is not held up in one session for
\* ever, every connection is accepted and every complete line is taken.
NobodyStarves == []<>(pc = "select") => \A c \in Clients : []<>(~ Waits(c))
=============================================================================
