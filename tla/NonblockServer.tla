-------------------------- MODULE NonblockServer --------------------------
(***************************************************************************)
(* 8nonblockio: tcpserver.c polls a non-blocking listening socket and its  *)
(* non-blocking connections in turn and answers what it reads with "ok";   *)
(* tcpclient.c reads the welcome, then sends a line and reads an answer,   *)
(* line by line.                                                           *)
(*                                                                         *)
(* A byte of Kernel's streams is a piece of a line as TCP may cut it, NL   *)
(* the last piece.  SIGPIPE is not ignored: it kills the server.           *)
(*                                                                         *)
(* A definition named Bug... is the one after it with a plausible mistake; *)
(* no specification uses it, it serves to see a property fail.             *)
(***************************************************************************)
EXTENDS Kernel

CONSTANTS TCP_QUEUE_LEN,      \* the slots of `peers` (10)
          BUFFER_SIZE         \* how much a recv takes (255 bytes)
ASSUME NonblockAssumption == /\ TCP_QUEUE_LEN \in Nat \ {0}
                             /\ BUFFER_SIZE \in Nat \ {0}

VARIABLES pc,           \* where the server is in its loop, or "dead": killed
          clientSock,   \* the connection just accepted
          peers,        \* the descriptor in each slot, or 0
          peerLen,      \* one more than the highest slot ever used
          i,            \* the slot that is looked at
          turn          \* what each client does next: it reads the "welcome",
                        \* it sends a "line", it reads the "answer"

table == <<peers, peerLen>>
vars == <<kernel, pc, clientSock, table, i, turn>>

Slots == 0 .. TCP_QUEUE_LEN - 1
WELCOME_MSG == 1
OK == 2

Init == /\ KernelInit
        /\ pc = "accept"
        /\ clientSock = 0
        /\ peers = [s \in Slots |-> 0]
        /\ peerLen = 0
        /\ i = 0
        /\ turn = [c \in Clients |-> "welcome"]

----------------------------------------------------------------------------
(* Accepting a connection                                                  *)

\* The scan of the peers begins; clientSock is not used any more.
BugScanGoesOn == pc' = "scan" /\ UNCHANGED i /\ clientSock' = 0
StartScan == pc' = "scan" /\ i' = 0 /\ clientSock' = 0

\* accept returns -1: nobody waits, or the descriptors are used up.
NothingAccepted == /\ pc = "accept"
                   /\ backlog = << >> \/ FreeFds = {}
                   /\ StartScan
                   /\ UNCHANGED <<kernel, table, turn>>

FreeSlots == {s \in Slots : peers[s] = 0}

BugNewPeerLen(s) == IF peerLen < s THEN s ELSE peerLen
NewPeerLen(s) == IF peerLen < s + 1 THEN s + 1 ELSE peerLen

\* The new connection goes to the first free slot, if there is one.
Accept == /\ pc = "accept"
          /\ \E f \in ConnFds : AcceptAs(f) /\ clientSock' = f
          /\ IF FreeSlots = {} THEN pc' = "refuse" /\ UNCHANGED table
             ELSE /\ pc' = "greet"
                  /\ \E s \in FreeSlots :
                        /\ \A r \in FreeSlots : s <= r
                        /\ peers' = [peers EXCEPT ![s] = clientSock']
                        /\ peerLen' = NewPeerLen(s)
          /\ UNCHANGED <<i, turn>>

\* Too many connections: the new one is closed.
Refuse == /\ pc = "refuse"
          /\ CloseFd(clientSock)
          /\ StartScan
          /\ UNCHANGED <<table, turn>>

\* send on a non-blocking socket: the message goes out if there is room and
\* is dropped if there is none.  A reset is reported once; after that, or
\* when it followed a FIN, send raises SIGPIPE.  Nobody looks at the result.
SendTo(c, msg, goOn) ==
    \/ /\ Write(c, SubSeq(<<msg>>, 1, Writable(c, <<msg>>)))
       /\ goOn
    \/ /\ FailWrite(c)
       /\ IF away[c] = "gone" THEN pc' = "dead" /\ UNCHANGED <<clientSock, i>>
          ELSE goOn

Greet == /\ pc = "greet"
         /\ SendTo(fds[clientSock], WELCOME_MSG, StartScan)
         /\ UNCHANGED <<table, turn>>

----------------------------------------------------------------------------
(* The scan of the peers                                                   *)

NextPeer == pc' = "scan" /\ i' = i + 1 /\ UNCHANGED clientSock

\* Every slot has been looked at.
ScanEnds == /\ pc = "scan"
            /\ i >= peerLen
            /\ pc' = "accept"
            /\ UNCHANGED <<kernel, clientSock, table, i, turn>>

\* An occupied slot is looked at, and the client behind it.
Looks == pc = "scan" /\ i < peerLen /\ peers[i] # 0
Peer == fds[peers[i]]

\* The slot is empty, or recv returns -1 with EAGAIN.
Skip == /\ pc = "scan"
        /\ i < peerLen
        /\ peers[i] # 0 => ~ Readable(Peer)
        /\ NextPeer
        /\ UNCHANGED <<kernel, table, turn>>

\* recv returns -1 with the error of the connection, which is left open: the
\* next recv on it returns 0.
RecvError == /\ Looks
             /\ ReadFails(Peer)
             /\ away' = [away EXCEPT ![Peer] = "gone"]
             /\ NextPeer
             /\ UNCHANGED <<link, backlog, fds, sent, taken, echoed, got, table, turn>>

\* recv returns 0: the peer has closed.
RecvNothing == /\ Looks
               /\ Unread(Peer) = << >>
               /\ away[Peer] \in {"fin", "gone"}
               /\ CloseFd(peers[i])
               /\ peers' = [peers EXCEPT ![i] = 0] /\ UNCHANGED peerLen
               /\ NextPeer
               /\ UNCHANGED turn

\* recv takes what has arrived, up to BUFFER_SIZE; one "ok" answers all of it.
\* The '\0' that the code stores behind the bytes, one byte past buf when recv
\* has filled it, is left out: buf is only printed.
Recv == /\ Looks
        /\ Unread(Peer) # << >>
        /\ Consume(Peer, Len(Visible(Peer, BUFFER_SIZE)))
        /\ pc' = "answer"
        /\ UNCHANGED <<clientSock, i, table, turn>>

Answer == /\ pc = "answer"
          /\ SendTo(Peer, OK, NextPeer)
          /\ UNCHANGED <<table, turn>>

Server == \/ NothingAccepted \/ Accept \/ Refuse \/ Greet
          \/ ScanEnds \/ Skip \/ RecvError \/ RecvNothing \/ Recv \/ Answer

----------------------------------------------------------------------------
(* The clients                                                             *)

\* A piece of the line goes out; the '\n' ends the line.
BugNoWait(c) == turn[c] = "line" /\ Send(c) /\ UNCHANGED turn
SendPiece(c) ==
    /\ turn[c] = "line"
    /\ Send(c)
    /\ turn' = IF Stream[c][sent'[c]] = NL THEN [turn EXCEPT ![c] = "answer"]
               ELSE turn

\* recv blocks until there is something and takes all of it.
RecvAnswer(c) == /\ turn[c] \in {"welcome", "answer"}
                 /\ Receive(c)
                 /\ turn' = [turn EXCEPT ![c] = "line"]

\* The client connects, ends when it likes, or is reset.
ComesOrGoes(c) == (Connect(c) \/ Finish(c) \/ Abort(c)) /\ UNCHANGED turn

Client(c) == /\ pc # "dead"
             /\ SendPiece(c) \/ RecvAnswer(c) \/ ComesOrGoes(c)
             /\ UNCHANGED <<pc, clientSock, table, i>>

----------------------------------------------------------------------------
Next == Server \/ \E c \in Clients : Client(c)

\* The server never blocks; a client that can read its answer does.
Reads(c) == RecvAnswer(c) /\ pc # "dead" /\ UNCHANGED <<pc, clientSock, table, i>>
Spec == /\ Init /\ [][Next]_vars
        /\ WF_vars(Server)
        /\ \A c \in Clients : WF_vars(Reads(c))

----------------------------------------------------------------------------
(* Properties                                                              *)

OpenFds == {f \in ConnFds : fds[f] # None}

\* Whatever connections come, fail and go: every open one has a slot below
\* peerLen, no slot names a closed one or one of another slot, and one is
\* turned away only while open connections fill all the slots.
PeersAgree ==
    LET kept == {peers[s] : s \in {r \in 0 .. peerLen - 1 : peers[r] # 0}} IN
    /\ OpenFds = IF pc = "refuse" THEN kept \cup {clientSock} ELSE kept
    /\ \A r, s \in Slots : peers[r] = peers[s] /\ peers[r] # 0 => r = s
    /\ pc = "refuse" => /\ Cardinality(kept) = TCP_QUEUE_LEN
                        /\ clientSock \notin kept

\* The client waits for the server.
Awaits(c) == /\ away[c] = "up"
             /\ \/ link[c] = "queued"
                \/ link[c] = "open" /\ turn[c] \in {"welcome", "answer"}

\* No client waits for ever: it is refused or gets its welcome, and then an
\* answer after every line, however TCP cuts its lines and whatever becomes of
\* the other clients - unless SIGPIPE ends the server.
NobodyWaitsForEver == \A c \in Clients : []<>(~ Awaits(c) \/ pc = "dead")

\* A client that waits for its answer before the next line stays in step with
\* the server, if TCP does not cut its lines: no two lines share an answer, and
\* when it has read one, none is left over for the next line.
WholeLines(c) == \A k \in 1 .. Len(Stream[c]) : Stream[c][k] = NL
AnswersInStep == \A c \in Clients :
    WholeLines(c) /\ away[c] = "up" /\ turn[c] = "line" =>
        got[c] = 1 + sent[c] /\ Len(echoed[c]) = got[c]
=============================================================================
