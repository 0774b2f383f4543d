---------------------------- MODULE ForkServer ----------------------------
(***************************************************************************)
(* The forking echo servers and the clients that wait for each echo.  The  *)
(* parent accepts and forks a child per connection, which reads a message  *)
(* and writes it back; a client sends a line as a message and waits for    *)
(* its echo.  The parents are the same call by call, the messages differ:  *)
(*   "packet"  5readn_writen: a length of four bytes and as many bytes as  *)
(*             it says, by readn and writen;                               *)
(*   "line"    6readline, and the server of 9select1: what ends with '\n', *)
(*             by readline and writen;                                     *)
(*   "raw"     4fork, and the server of 12maxconn_poll: what one read      *)
(*             takes, by read and write;                                   *)
(*   "unix"    15unixdomainsock: the same, but the child writes back the   *)
(*             string that it finds in its buffer, not what was read.      *)
(*                                                                         *)
(* A byte of the length is the length itself.  A line is what one fgets    *)
(* returns: shorter than the buffers, and without '\n' when the input ends *)
(* there or the line goes on.  A plain read may fill its buffer.  Then no  *)
(* NUL ends the string in it, and what takes it for one (strlen in the     *)
(* child of "unix", fputs in the plain clients) runs on behind the buffer, *)
(* up to a NUL there: the bytes in between are one byte Beyond, or none.   *)
(* The children's own fputs, to their terminal, is left out.               *)
(*                                                                         *)
(* Interrupted calls are retried by readn, writen and readline, and are    *)
(* stuttering here; the plain calls are not retried, but no program        *)
(* catches a signal that could interrupt them.                             *)
(*                                                                         *)
(* A definition named Bug... is the one after it with a plausible mistake; *)
(* no specification uses it, it serves to see a property fail.             *)
(***************************************************************************)
EXTENDS Integers, Sequences, SequencesExt

CONSTANTS Clients,     \* the clients that may connect
          Lines,       \* the lines typed into each, sequences of bytes
          LENGTH,      \* the bytes of a packet's length (4)
          MAXLINE,     \* the bytes of the buffers of plain read and write (1024)
          SOCKBUF,     \* the bytes a connection holds in each direction
          None         \* no connection

NL == 10
Beyond == 256

\* What fgets returns is not empty, is shorter than the buffer, ends at the
\* first '\n', and is taken up to a NUL.
ASSUME ForkAssumption == /\ None \notin Clients
                         /\ Lines \in [Clients -> Seq(Seq(1 .. 255) \ {<< >>})]
                         /\ \A c \in Clients : \A j \in 1 .. Len(Lines[c]) :
                               /\ Len(Lines[c][j]) < MAXLINE
                               /\ \A k \in 1 .. Len(Lines[c][j]) - 1 : Lines[c][j][k] # NL
                         /\ MAXLINE \in Nat \ {0}
                         /\ LENGTH \in Nat \ {0}
                         /\ SOCKBUF \in Nat \ {0}

VARIABLES program,     \* which of the programs runs
          ppc,         \* where the parent is: "accept", "fork", "close", "dead"
          conn,        \* the connection the parent has accepted
          backlog,     \* the connections that wait to be accepted
          child,       \* where each connection's child is, or "none", "done"
          recvbuf,     \* what the child has read, or has left to write
          client,      \* where each client is, or "none", "ended"
          typed,       \* how many lines it has got from fgets
          sendrecvbuf, \* what the client has left to write, or has read
          owed,        \* history: the bytes of these, and of overruns
          output,      \* the bytes it has printed
          toServer,    \* the bytes on the way to the server
          toClient     \* and back

parent == <<ppc, conn, backlog>>
children == <<child, recvbuf>>
clients == <<client, typed, sendrecvbuf, owed, output>>
wires == <<toServer, toClient>>
forkVars == <<program, parent, children, clients, wires>>

Programs == {"packet", "line", "raw", "unix"}
Plain == program \in {"raw", "unix"}

ForkInit == /\ program \in Programs
            /\ ppc = "accept" /\ conn = None /\ backlog = << >>
            /\ child = [c \in Clients |-> "none"]
            /\ recvbuf = [c \in Clients |-> << >>]
            /\ client = [c \in Clients |-> "none"]
            /\ typed = [c \in Clients |-> 0]
            /\ sendrecvbuf = [c \in Clients |-> << >>]
            /\ owed = [c \in Clients |-> << >>]
            /\ output = [c \in Clients |-> << >>]
            /\ toServer = [c \in Clients |-> << >>]
            /\ toClient = [c \in Clients |-> << >>]

Lesser(a, b) == IF a < b THEN a ELSE b

----------------------------------------------------------------------------
(* Who holds which socket: it is closed when nobody holds it.              *)

\* The child closes its copy of the listening socket first.
BugListenfdKept == ppc # "dead" \/ \E c \in Clients : child[c] \notin {"none", "done"}
Listening == ppc # "dead" \/ \E c \in Clients : child[c] = "start"

Queued(c) == \E k \in 1 .. Len(backlog) : backlog[k] = c
Held(c) == \/ conn = c
           \/ child[c] \notin {"none", "done"}

\* The client's connection is closed at the server's end.
Closed(c) == IF Queued(c) THEN ~ Listening ELSE ~ Held(c)

----------------------------------------------------------------------------
(* The parent                                                              *)

Accept == /\ ppc = "accept"
          /\ backlog # << >>
          /\ conn' = Head(backlog)
          /\ backlog' = Tail(backlog)
          /\ ppc' = "fork"
          /\ UNCHANGED <<children, clients, wires>>

Fork == /\ ppc = "fork"
        /\ child' = [child EXCEPT ![conn] = "start"]
        /\ ppc' = "close"
        /\ UNCHANGED <<conn, backlog, recvbuf, clients, wires>>

\* ERR_EXIT; the children live on.
AcceptFails == /\ ppc = "accept"
               /\ ppc' = "dead"
               /\ UNCHANGED <<conn, backlog, children, clients, wires>>

ForkFails == /\ ppc = "fork"
             /\ ppc' = "dead"
             /\ conn' = None
             /\ UNCHANGED <<backlog, children, clients, wires>>

CloseConn == /\ ppc = "close"
             /\ ppc' = "accept"
             /\ conn' = None
             /\ UNCHANGED <<backlog, children, clients, wires>>

Goes == Accept \/ Fork \/ ForkFails \/ CloseConn
Parent == Goes \/ AcceptFails

----------------------------------------------------------------------------
(* A message, as a child and a client read and write it                    *)

Packet(line) == [k \in 1 .. LENGTH |-> Len(line)] \o line
Message(line) == IF program = "packet" THEN Packet(line) ELSE line

\* How many bytes readn asks for, in its two calls for a packet.
Asked(buf) == IF Len(buf) < LENGTH THEN LENGTH ELSE LENGTH + buf[1]

\* How many bytes a read takes of those on the wire: some of what is asked for;
\* with readline none behind the '\n'.  Only plain reads can fill the buffer.
PacketTakes(buf, wire) == 1 .. Lesser(Asked(buf) - Len(buf), Len(wire))
LineTakes(wire) == {k \in 1 .. Len(wire) : \A j \in 1 .. k - 1 : wire[j] # NL}
PlainTakes(wire) == 1 .. Lesser(MAXLINE, Len(wire))

Takes(buf, wire) == CASE program = "packet" -> PacketTakes(buf, wire)
                      [] program = "line" -> LineTakes(wire)
                      [] Plain -> PlainTakes(wire)

\* The message is complete.
BugPacketWhole(buf) == Len(buf) >= LENGTH
PacketWhole(buf) == Len(buf) = Asked(buf)
LineWhole(buf) == buf[Len(buf)] = NL

IsWhole(buf) == CASE program = "packet" -> PacketWhole(buf)
                  [] program = "line" -> LineWhole(buf)
                  [] Plain -> TRUE

\* What is printed of it.
Text(buf) == IF program = "packet" THEN SubSeq(buf, LENGTH + 1, Len(buf)) ELSE buf

\* write takes what there is room for, and blocks or goes on with the rest.
Writable(buf, wire) == Lesser(Len(buf), SOCKBUF - Len(wire))

----------------------------------------------------------------------------
(* A child                                                                 *)

CloseListenfd(c) == /\ child[c] = "start"
                    /\ child' = [child EXCEPT ![c] = "read"]
                    /\ UNCHANGED <<parent, recvbuf, clients, wires>>

ChildReads(c) ==
    /\ child[c] = "read"
    /\ \E k \in Takes(recvbuf[c], toServer[c]) :
          /\ recvbuf' = [recvbuf EXCEPT ![c] = @ \o SubSeq(toServer[c], 1, k)]
          /\ toServer' = [toServer EXCEPT ![c] = SubSeq(@, k + 1, Len(@))]
    /\ child' = [child EXCEPT ![c] = IF IsWhole(recvbuf'[c]) THEN "echo" ELSE "read"]
    /\ UNCHANGED <<parent, clients, toClient>>

\* A string that fills the buffer: the child sends it with what is behind it.
ChildReadsFull(c) ==
    /\ program = "unix"
    /\ child[c] = "read" /\ client[c] # "ended"
    /\ Len(toServer[c]) >= MAXLINE
    /\ recvbuf' = [recvbuf EXCEPT ![c] = Append(@ \o SubSeq(toServer[c], 1, MAXLINE), Beyond)]
    /\ toServer' = [toServer EXCEPT ![c] = SubSeq(@, MAXLINE + 1, Len(@))]
    /\ owed' = [owed EXCEPT ![c] =
                   InsertAt(@, Len(output[c]) + Len(toClient[c]) + Len(recvbuf'[c]), Beyond)]
    /\ child' = [child EXCEPT ![c] = "echo"]
    /\ UNCHANGED <<parent, client, typed, sendrecvbuf, output, toClient>>

\* The read finds the end of the stream, or an error: the child ends.
ChildEnds(c) == /\ child[c] = "read"
                /\ toServer[c] = << >> /\ client[c] = "ended"
                /\ child' = [child EXCEPT ![c] = "done"]
                /\ UNCHANGED <<parent, recvbuf, clients, wires>>

ChildWrites(c) ==
    LET k == Writable(recvbuf[c], toClient[c]) IN
    /\ child[c] = "echo"
    /\ client[c] # "ended"
    /\ k > 0
    /\ toClient' = [toClient EXCEPT ![c] = @ \o SubSeq(recvbuf[c], 1, k)]
    /\ recvbuf' = [recvbuf EXCEPT ![c] = SubSeq(@, k + 1, Len(@))]
    /\ child' = [child EXCEPT ![c] = IF recvbuf'[c] = << >> THEN "read" ELSE "echo"]
    /\ UNCHANGED <<parent, clients, toServer>>

\* The client is gone.  A write after its FIN is answered with a reset, and
\* what write returns is not looked at; a write after the reset raises SIGPIPE.
ChildWritesInVain(c) ==
    /\ child[c] = "echo"
    /\ client[c] = "ended"
    /\ recvbuf' = [recvbuf EXCEPT ![c] = << >>]
    /\ \E after \in {"read", "done"} : child' = [child EXCEPT ![c] = after]
    /\ UNCHANGED <<parent, clients, wires>>

Child(c) == \/ CloseListenfd(c) \/ ChildReads(c) \/ ChildReadsFull(c)
            \/ ChildEnds(c) \/ ChildWrites(c) \/ ChildWritesInVain(c)

----------------------------------------------------------------------------
(* A client                                                                *)

Connect(c) == /\ client[c] = "none"
              /\ ppc # "dead"
              /\ backlog' = Append(backlog, c)
              /\ client' = [client EXCEPT ![c] = "type"]
              /\ UNCHANGED <<ppc, conn, children, typed, sendrecvbuf, owed, output, wires>>

\* fgets returns a line.
Type(c) == /\ client[c] = "type"
           /\ typed[c] < Len(Lines[c])
           /\ typed' = [typed EXCEPT ![c] = @ + 1]
           /\ owed' = [owed EXCEPT ![c] = @ \o Lines[c][typed'[c]]]
           /\ sendrecvbuf' = [sendrecvbuf EXCEPT ![c] = Message(Lines[c][typed'[c]])]
           /\ client' = [client EXCEPT ![c] = "write"]
           /\ UNCHANGED <<parent, children, output, wires>>

ClientWrites(c) ==
    LET k == Writable(sendrecvbuf[c], toServer[c]) IN
    /\ client[c] = "write"
    /\ ~ Closed(c)
    /\ k > 0
    /\ toServer' = [toServer EXCEPT ![c] = @ \o SubSeq(sendrecvbuf[c], 1, k)]
    /\ sendrecvbuf' = [sendrecvbuf EXCEPT ![c] = SubSeq(@, k + 1, Len(@))]
    /\ client' = [client EXCEPT ![c] = IF sendrecvbuf'[c] = << >> THEN "read" ELSE "write"]
    /\ UNCHANGED <<parent, children, typed, owed, output, toClient>>

\* The echo is printed when it is whole.
ClientReads(c) ==
    /\ client[c] = "read"
    /\ \E k \in Takes(sendrecvbuf[c], toClient[c]) :
          LET buf == sendrecvbuf[c] \o SubSeq(toClient[c], 1, k) IN
          /\ toClient' = [toClient EXCEPT ![c] = SubSeq(@, k + 1, Len(@))]
          /\ IF IsWhole(buf)
             THEN /\ output' = [output EXCEPT ![c] = @ \o Text(buf)]
                  /\ sendrecvbuf' = [sendrecvbuf EXCEPT ![c] = << >>]
                  /\ client' = [client EXCEPT ![c] = "type"]
             ELSE /\ sendrecvbuf' = [sendrecvbuf EXCEPT ![c] = buf]
                  /\ UNCHANGED <<output, client>>
    /\ UNCHANGED <<parent, children, typed, owed, toServer>>

\* A string that fills the buffer: the client prints it with what is behind it.
ClientReadsFull(c) ==
    /\ Plain
    /\ client[c] = "read"
    /\ Len(toClient[c]) >= MAXLINE
    /\ output' = [output EXCEPT ![c] = Append(@ \o SubSeq(toClient[c], 1, MAXLINE), Beyond)]
    /\ owed' = [owed EXCEPT ![c] = InsertAt(@, Len(output'[c]), Beyond)]
    /\ toClient' = [toClient EXCEPT ![c] = SubSeq(@, MAXLINE + 1, Len(@))]
    /\ client' = [client EXCEPT ![c] = "type"]
    /\ UNCHANGED <<parent, children, typed, sendrecvbuf, toServer>>

\* The server's end is closed.
Deserted(c) == /\ \/ client[c] = "write"
                  \/ client[c] = "read" /\ toClient[c] = << >>
               /\ Closed(c)

\* "server closed", or an error: the client ends.
ServerClosed(c) == /\ ~ Plain
                   /\ Deserted(c)
                   /\ client' = [client EXCEPT ![c] = "ended"]
                   /\ UNCHANGED <<typed, sendrecvbuf, owed, output>>
                   /\ UNCHANGED <<parent, children, wires>>

\* With plain read and write the client looks at no result: what it writes is
\* lost, what it reads is nothing, and it goes on, until SIGPIPE ends it.
GoesOnUnaware(c) ==
    /\ Plain
    /\ Deserted(c)
    /\ \E after \in {"type", "ended"} : client' = [client EXCEPT ![c] = after]
    /\ sendrecvbuf' = [sendrecvbuf EXCEPT ![c] = << >>]
    /\ UNCHANGED <<parent, children, typed, owed, output, wires>>

\* The end of the input, or the user kills the client.
Leave(c) == /\ client[c] \in {"type", "write", "read"}
            /\ client' = [client EXCEPT ![c] = "ended"]
            /\ UNCHANGED <<parent, children, typed, sendrecvbuf, owed, output, wires>>

Runs(c) == \/ ClientWrites(c) \/ ClientReads(c) \/ ClientReadsFull(c)
           \/ ServerClosed(c) \/ GoesOnUnaware(c)

Client(c) == Connect(c) \/ Type(c) \/ Runs(c) \/ Leave(c)

----------------------------------------------------------------------------
ForkNext == /\ Parent \/ \E c \in Clients : Child(c) \/ Client(c)
            /\ UNCHANGED program

\* Every process runs when it is not blocked; nobody has to connect, to type
\* or to leave.
ForkSpec == /\ ForkInit /\ [][ForkNext]_forkVars
            /\ WF_forkVars(Goes /\ UNCHANGED program)
            /\ \A c \in Clients : /\ WF_forkVars(Child(c) /\ UNCHANGED program)
                                  /\ WF_forkVars(Runs(c) /\ UNCHANGED program)

----------------------------------------------------------------------------
(* Properties                                                              *)

Echo == INSTANCE EchoService WITH whole <- ~ Plain,
                                  over <- {c \in Clients : client[c] = "ended"}

\* However TCP cuts the messages, and whatever becomes of the other clients and
\* of the parent, a client prints what was typed into it, unchanged and in
\* order: line by line, or with plain read and write in pieces.  Only to a plain
\* client that is behind by a buffer's worth may an overrun add bytes, and even
\* so it loses, doubles and moves none.
ImplementsEcho == Echo!Spec

\* A line without '\n' is waited for by readline on both sides.
Unfinished(c) == /\ program = "line"
                 /\ client[c] = "read"
                 /\ ~ LineWhole(Lines[c][typed[c]])

\* With plain read and write a client may read less than it wrote, line after
\* line, until it and its child are both blocked in write.
Jammed(c) == /\ Plain
             /\ client[c] = "write" /\ Len(toServer[c]) = SOCKBUF
             /\ child[c] = "echo" /\ Len(toClient[c]) = SOCKBUF

\* Otherwise nobody waits for ever: an echo comes, or the client finds the
\* server closed, also when it was never accepted.
EveryoneAnswered ==
    \A c \in Clients : []<>(\/ client[c] \notin {"write", "read"}
                            \/ Unfinished(c) \/ Jammed(c))
=============================================================================
