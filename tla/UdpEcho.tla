------------------------------ MODULE UdpEcho ------------------------------
(***************************************************************************)
(* 14udp: echoser_udp.c and its clients, echocli_udp.c and, with a         *)
(* connected socket, echocli_udp_connect.c.  A client sends each line as a *)
(* datagram and waits for one; there are no retries and no timeouts.       *)
(*                                                                         *)
(* All run on one host: datagrams stay in order and are lost where a       *)
(* socket's buffer is full.  The server may end and be started again.  A   *)
(* datagram sent while it is down is refused: only a connected socket      *)
(* learns of it.  A line is its number.                                    *)
(*                                                                         *)
(* A definition named Bug... is the one after it with a plausible mistake; *)
(* no specification uses it, it serves to see a property fail.             *)
(***************************************************************************)
EXTENDS Integers, Sequences

CONSTANTS UdpClients,       \* the clients
          ConnectedClients, \* those with a connected socket
          UdpLines,         \* how many lines are typed into each
          MaxCrashes,       \* bound on how often the server ends
          Nobody            \* no client

ASSUME UdpAssumption == /\ ConnectedClients \subseteq UdpClients
                        /\ UdpLines \in [UdpClients -> Nat]
                        /\ MaxCrashes \in Nat
                        /\ Nobody \notin UdpClients

VARIABLES echoser,     \* the server: "recvfrom", "sendto" or "down"
          peeraddr,    \* who its last datagram is from,
          datagram,    \* and the datagram
          crashes,     \* how often it has ended
          inbox,       \* the datagrams in its socket
          echocli,     \* where a client is: "fgets", "recvfrom", "refused"
                       \* (in recvfrom, with an error pending), "ended"
          lastLine,    \* the line it has sent last
          echoes,      \* the echoes in its socket
          answers,     \* the echoes it has printed
          interrupted, \* a signal has interrupted its recvfrom (history)
          lost         \* <<c, n>>: c's line n, or its echo, is lost (history)

udpServer == <<echoser, peeraddr, datagram, crashes>>
udpClients == <<echocli, lastLine, answers, interrupted>>
network == <<inbox, echoes, lost>>
udpVars == <<udpServer, udpClients, network>>

UdpInit == /\ echoser = "recvfrom" /\ peeraddr = Nobody /\ datagram = << >>
           /\ crashes = 0
           /\ inbox = << >>
           /\ echocli = [c \in UdpClients |-> "fgets"]
           /\ lastLine = [c \in UdpClients |-> 0]
           /\ echoes = [c \in UdpClients |-> << >>]
           /\ answers = [c \in UdpClients |-> << >>]
           /\ interrupted = [c \in UdpClients |-> FALSE]
           /\ lost = {}

----------------------------------------------------------------------------
(* The server                                                              *)

\* Whom the echo goes to: each recvfrom stores its sender in peeraddr.
BugSource(c) == IF peeraddr = Nobody THEN c ELSE peeraddr
Source(c) == c

RecvFrom == /\ echoser = "recvfrom"
            /\ inbox # << >>
            /\ datagram' = Head(inbox)
            /\ peeraddr' = Source(Head(inbox)[1])
            /\ inbox' = Tail(inbox)
            /\ echoser' = "sendto"
            /\ UNCHANGED <<crashes, udpClients, echoes, lost>>

\* The echo reaches the client's socket, or is lost.
SendTo == /\ echoser = "sendto"
          /\ \/ /\ echoes' = [echoes EXCEPT ![peeraddr] = Append(@, datagram)]
                /\ UNCHANGED lost
             \/ lost' = lost \union {datagram} /\ UNCHANGED echoes
          /\ echoser' = "recvfrom"
          /\ UNCHANGED <<peeraddr, datagram, crashes, udpClients, inbox>>

\* The server ends, with its socket and what waits in it; and is started again.
InHand == IF echoser = "sendto" THEN {datagram} ELSE {}
Crash == /\ echoser # "down"
         /\ crashes < MaxCrashes
         /\ crashes' = crashes + 1
         /\ echoser' = "down"
         /\ peeraddr' = Nobody
         /\ datagram' = << >>
         /\ inbox' = << >>
         /\ lost' = lost \union InHand \union {inbox[k] : k \in 1 .. Len(inbox)}
         /\ UNCHANGED <<udpClients, echoes>>

Restart == /\ echoser = "down"
           /\ echoser' = "recvfrom"
           /\ UNCHANGED <<peeraddr, datagram, crashes, udpClients, network>>

UdpServer == RecvFrom \/ SendTo

----------------------------------------------------------------------------
(* A client                                                                *)

Arrives(d) == inbox' = Append(inbox, d) /\ UNCHANGED lost
IsLost(d) == lost' = lost \union {d} /\ UNCHANGED inbox

\* What awaits in recvfrom the sender of a refused datagram.
BugRefusal(c) == "recvfrom"
Refusal(c) == IF c \in ConnectedClients THEN "refused" ELSE "recvfrom"

\* fgets returns a line and it is sent.
Send(c) ==
    LET d == <<c, lastLine[c] + 1>> IN
    /\ echocli[c] = "fgets"
    /\ lastLine[c] < UdpLines[c]
    /\ lastLine' = [lastLine EXCEPT ![c] = @ + 1]
    /\ \/ /\ echoser # "down"
          /\ echocli' = [echocli EXCEPT ![c] = "recvfrom"]
          /\ Arrives(d) \/ IsLost(d)
       \/ /\ echoser = "down"
          /\ echocli' = [echocli EXCEPT ![c] = Refusal(c)]
          /\ IF c \in ConnectedClients THEN UNCHANGED <<inbox, lost>> ELSE IsLost(d)
    /\ UNCHANGED <<udpServer, answers, interrupted, echoes>>

PrintEcho(c) == /\ echocli[c] = "recvfrom"
                /\ echoes[c] # << >>
                /\ answers' = [answers EXCEPT ![c] = Append(@, Head(echoes[c]))]
                /\ echoes' = [echoes EXCEPT ![c] = Tail(@)]
                /\ echocli' = [echocli EXCEPT ![c] = "fgets"]
                /\ UNCHANGED <<udpServer, lastLine, interrupted, inbox, lost>>

\* ECONNREFUSED: ERR_EXIT.
Refused(c) == /\ echocli[c] = "refused"
              /\ echocli' = [echocli EXCEPT ![c] = "ended"]
              /\ UNCHANGED <<udpServer, lastLine, answers, interrupted, network>>

\* EINTR: `continue`, to the next line, without the echo.
Eintr(c) == /\ echocli[c] = "recvfrom"
            /\ echoes[c] = << >>
            /\ echocli' = [echocli EXCEPT ![c] = "fgets"]
            /\ interrupted' = [interrupted EXCEPT ![c] = TRUE]
            /\ UNCHANGED <<udpServer, lastLine, answers, network>>

\* The end of the input, or the user kills the client.
UdpLeave(c) == /\ echocli[c] \in {"fgets", "recvfrom"}
               /\ echocli' = [echocli EXCEPT ![c] = "ended"]
               /\ UNCHANGED <<udpServer, lastLine, answers, interrupted, network>>

UdpClient(c) == PrintEcho(c) \/ Refused(c)

----------------------------------------------------------------------------
UdpNext == \/ UdpServer \/ Crash \/ Restart
           \/ \E c \in UdpClients : Send(c) \/ UdpClient(c) \/ Eintr(c) \/ UdpLeave(c)

\* Every process runs when it is not blocked; nobody has to type, to leave or
\* to start the server again.
UdpSpec == /\ UdpInit /\ [][UdpNext]_udpVars
           /\ WF_udpVars(UdpServer)
           /\ \A c \in UdpClients : WF_udpVars(UdpClient(c))

----------------------------------------------------------------------------
(* Properties                                                              *)

\* A client prints the echoes of its own lines, in order and none twice,
\* whatever is lost and however often the server restarts; and until a signal
\* puts it out of step it prints the echo of each line before it sends another.
EchoesInStep ==
    \A c \in UdpClients :
       /\ \A k \in 1 .. Len(answers[c]) :
             /\ answers[c][k] \in {c} \X (1 .. lastLine[c])
             /\ k > 1 => answers[c][k - 1][2] < answers[c][k][2]
       /\ ~ interrupted[c] => /\ lastLine[c] - Len(answers[c]) \in {0, 1}
                              /\ echocli[c] = "fgets" => Len(answers[c]) = lastLine[c]

\* A client waits for ever only for a line that was lost, or whose echo was: the
\* network dropped it, or the server ended with it.  One sent to a server that
\* was down counts as lost for an unconnected client; a connected one is told.
AnsweredUnlessLost ==
    \A c \in UdpClients :
       []<>(echocli[c] \in {"recvfrom", "refused"} => <<c, lastLine[c]>> \in lost)
=============================================================================
