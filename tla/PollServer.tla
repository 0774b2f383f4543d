---------------------------- MODULE PollServer ----------------------------
(***************************************************************************)
(* 12maxconn_poll/echoser_poll.c: the line-echo server on poll.            *)
(*                                                                         *)
(* The table `client` is the array that poll is given; slot 0 is the       *)
(* listening socket.  poll looks at the slots up to maxi and sets their    *)
(* revents.  The code never initialises revents, so a slot that a new      *)
(* connection takes above maxi holds garbage until the next poll: `polled` *)
(* is the highest slot whose revents the last poll has set.                *)
(*                                                                         *)
(* pollin, nready and i are only used within a round; between rounds the   *)
(* model keeps them at {}, 0 and 0.  A definition named Bug... is the one  *)
(* after it with a plausible mistake; no specification uses it.            *)
(***************************************************************************)
EXTENDS LineIO

CONSTANT TABLE            \* slots of `client` (2048)
ASSUME TableAssumption == TABLE \in Nat /\ TABLE >= 2

VARIABLES pc,       \* where the server is in its round, or "dead": exited
          client,   \* the descriptor of each slot, or -1
          maxi,     \* the highest slot ever used
          polled,   \* the highest slot that poll has seen, or -1
          pollin,   \* the slots whose revents this round's poll set to POLLIN
          nready,   \* how many of those are still to be handled
          i         \* the slot that is looked at

round == <<pollin, nready, i>>
vars == <<lineio, pc, client, maxi, polled, round>>

Slots == 0 .. TABLE - 1

Init == /\ KernelInit
        /\ line = << >>
        /\ pc = "poll"
        /\ client = [s \in Slots |-> IF s = 0 THEN LISTENFD ELSE -1]
        /\ maxi = 0
        /\ polled = -1
        /\ pollin = {}
        /\ nready = 0
        /\ i = 0

----------------------------------------------------------------------------
Ready(f) == IF f = LISTENFD THEN backlog # << >> ELSE Readable(fds[f])

\* The slots that poll is given.
BugMaxiShort == {s \in 0 .. maxi - 1 : client[s] # -1}
Watched == {s \in 0 .. maxi : client[s] # -1}

\* poll blocks while nothing is ready.
Poll == /\ pc = "poll"
        /\ pollin' = {s \in Watched : Ready(client[s])}
        /\ pollin' # {}
        /\ polled' = maxi
        /\ nready' = Cardinality(pollin')
        /\ IF 0 \in pollin' THEN pc' = "accept" /\ i' = 0
                            ELSE pc' = "scan" /\ i' = 1
        /\ UNCHANGED <<lineio, client, maxi>>

EndRound == pc' = "poll" /\ pollin' = {} /\ nready' = 0 /\ i' = 0
Die == pc' = "dead" /\ UNCHANGED round

\* `if (--nready <= 0)`
BugNoEarlyExit(s) == /\ pc' = "scan"
                     /\ nready' = IF nready > 0 THEN nready - 1 ELSE 0
                     /\ i' = s
                     /\ UNCHANGED pollin
OneHandled(s) == IF nready - 1 <= 0 THEN EndRound
                 ELSE /\ pc' = "scan"
                      /\ nready' = nready - 1
                      /\ i' = s
                      /\ UNCHANGED pollin

FreeSlots == {s \in Slots \ {0} : client[s] < 0}

NewMaxi(s) == IF s > maxi THEN s ELSE maxi

Store(conn) == \E s \in FreeSlots :
    /\ \A r \in FreeSlots : s <= r
    /\ client' = [client EXCEPT ![s] = conn]
    /\ maxi' = NewMaxi(s)

\* accept, or ERR_EXIT without a free descriptor; the exit when the table is
\* full.
Accept == /\ pc = "accept"
          /\ IF FreeFds = {} THEN Die /\ UNCHANGED <<kernel, client, maxi>>
             ELSE \E conn \in ConnFds :
                     /\ AcceptAs(conn)
                     /\ IF FreeSlots = {} THEN Die /\ UNCHANGED <<client, maxi>>
                        ELSE Store(conn) /\ OneHandled(1)
          /\ UNCHANGED <<line, polled>>

\* What `client[s].revents & POLLIN` may be.
Pollin(s) == IF s > polled THEN BOOLEAN ELSE {s \in pollin}

\* One turn of the scan.
Scan == /\ pc = "scan"
        /\ IF i > maxi THEN EndRound
           ELSE \E pin \in Pollin(i) :
                   IF client[i] # -1 /\ pin
                   THEN pc' = "read" /\ UNCHANGED round
                   ELSE i' = i + 1 /\ UNCHANGED <<pc, pollin, nready>>
        /\ UNCHANGED <<lineio, client, maxi, polled>>

Served == fds[client[i]]

ReadMore == /\ pc = "read"
            /\ ReadLinePart(Served)
            /\ UNCHANGED <<pc, client, maxi, polled, round>>

ReadDone == /\ pc = "read"
            /\ ReadLineEnd(Served)
            /\ pc' = "echo"
            /\ UNCHANGED <<client, maxi, polled, round>>

ReadError == /\ pc = "read"
             /\ ReadFails(Served)
             /\ Die
             /\ UNCHANGED <<lineio, client, maxi, polled>>

\* readline returns 0: the slot is freed and the descriptor closed; writen
\* of an unfinished line fails on it.
BugKeepSlot == UNCHANGED client
FreeSlot == client' = [client EXCEPT ![i] = -1]

Close == /\ pc = "read"
         /\ ReadLineNothing(Served)
         /\ CloseFd(client[i])
         /\ FreeSlot
         /\ line' = << >>
         /\ OneHandled(i + 1)
         /\ UNCHANGED <<maxi, polled>>

EchoDone == IF line' = << >> THEN OneHandled(i + 1) ELSE UNCHANGED <<pc, round>>

Echo == /\ pc = "echo"
        /\ WritePart(Served) \/ WriteGivesUp(Served)
        /\ EchoDone
        /\ UNCHANGED <<client, maxi, polled>>

----------------------------------------------------------------------------
Server == Poll \/ Accept \/ Scan \/ ReadMore \/ ReadDone \/ ReadError \/ Close \/ Echo

Environment == /\ pc # "dead"
               /\ \E c \in Clients : ClientStep(c)
               /\ UNCHANGED <<line, pc, client, maxi, polled, round>>

Next == Server \/ Environment

SafeSpec == Init /\ [][Next]_vars
Spec == SafeSpec /\ WF_vars(Server)

----------------------------------------------------------------------------
(* Properties                                                              *)

OpenFds == {f \in ConnFds : fds[f] # None}

\* The table and the kernel agree on the open connections, each has one slot,
\* and poll sees every slot that is used.  (When the table is full the new
\* connection has no slot, and the server has exited.)
TableAgrees == pc # "dead" =>
    /\ client[0] = LISTENFD
    /\ {client[s] : s \in 1 .. maxi} \ {-1} = OpenFds
    /\ \A s, t \in Slots : client[s] = client[t] /\ client[s] # -1 => s = t
    /\ \A s \in Slots : s > maxi => client[s] = -1

\* The slots that the scan looks at had their revents set by poll.
ReventsSet == pc = "scan" /\ i <= maxi /\ client[i] # -1 => i <= polled

\* The round ends by the count nready, on a descriptor that was ready: the scan
\* never looks at a revents that no poll has set, such as a new connection's,
\* readline does not block before its first byte, and accept finds a connection.
ReadinessHolds ==
    /\ ReventsSet
    /\ pc = "accept" => backlog # << >>
    /\ pc = "scan" => nready = Cardinality({s \in pollin : s >= i}) /\ nready > 0
    /\ pc = "read" /\ line = << >> => Readable(Served)

InHand(c) == IF line = << >> THEN << >> ELSE IF Served = c THEN line ELSE << >>

\* Each client gets back what it sent, byte for byte, unless a line of its
\* own just fills recvbuf; a connection whose client closed in order has had
\* every complete line echoed.
EchoFaithful == \A c \in Clients : ~ FilledBuffer(c) =>
    CASE link[c] = "open" /\ away[c] # "gone" -> EchoedAll(c, InHand(c))
      [] link[c] = "closed" /\ away[c] # "gone" -> EchoedLines(c)
      [] OTHER -> EchoedSome(c)

\* As long as no session holds the server up for ever, every connection is
\* accepted and every complete line is taken.
NobodyStarves == []<>(pc = "poll") => \A c \in Clients : []<>(~ Waits(c))
=============================================================================
