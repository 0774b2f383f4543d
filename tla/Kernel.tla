------------------------------ MODULE Kernel ------------------------------
(***************************************************************************)
(* What the single-process echo servers see of the operating system and of *)
(* their clients: the queue of the listening socket, the descriptor table  *)
(* and the TCP connections on 127.0.0.1:5188.  None of it is in the        *)
(* repository; it is modelled from the calls the servers make (accept,     *)
(* recv, read, write, close) and from what the repository's clients do     *)
(* (connect, write the lines the user types, read echoes, exit).           *)
(*                                                                         *)
(* A byte is a number and NL is '\n'; the clients send text, without NUL.  *)
(* A client sends Stream[c] one byte at a time, so TCP may cut it into     *)
(* segments anywhere; it may stop after any of them.  Bytes it sent before *)
(* it ended stay readable.                                                 *)
(***************************************************************************)
EXTENDS Integers, Sequences, FiniteSets

CONSTANTS Clients,    \* the clients that may connect
          Stream,     \* what each client would send in a whole session
          SOCKBUF,    \* bytes a connection holds unread, in either direction
          OPEN_MAX,   \* the process's descriptor limit (RLIMIT_NOFILE)
          None        \* no client: the descriptor is free

NL == 0
LISTENFD == 3         \* the first descriptor after stdin, stdout and stderr
ConnFds == LISTENFD + 1 .. OPEN_MAX - 1

ASSUME KernelAssumption ==
    /\ IsFiniteSet(Clients)
    /\ None \notin Clients
    /\ Stream \in [Clients -> Seq(Nat)]
    /\ SOCKBUF \in Nat \ {0}
    /\ OPEN_MAX \in Nat /\ OPEN_MAX > LISTENFD + 1

VARIABLES link,       \* "none", "queued" by listen, "open" once accepted, "closed"
          backlog,    \* connections established and not yet accepted, in order
          fds,        \* the client behind each descriptor of the server
          sent,       \* how many bytes of its stream a client has sent
          away,       \* the client's end: "up", "fin" (closed), "reset", or
                      \* "gone": closed or reset, and the error already reported
          taken,      \* how many of the bytes sent the server has read
          echoed,     \* what the server has written to the client
          got         \* how many of those bytes the client has read

kernel == <<link, backlog, fds, sent, away, taken, echoed, got>>

KernelInit == /\ link = [c \in Clients |-> "none"]
              /\ backlog = << >>
              /\ fds = [f \in ConnFds |-> None]
              /\ sent = [c \in Clients |-> 0]
              /\ away = [c \in Clients |-> "up"]
              /\ taken = [c \in Clients |-> 0]
              /\ echoed = [c \in Clients |-> << >>]
              /\ got = [c \in Clients |-> 0]

KernelTypeOK == /\ link \in [Clients -> {"none", "queued", "open", "closed"}]
                /\ backlog \in Seq(Clients)
                /\ fds \in [ConnFds -> Clients \cup {None}]
                /\ sent \in [Clients -> Nat]
                /\ away \in [Clients -> {"up", "fin", "reset", "gone"}]
                /\ taken \in [Clients -> Nat]
                /\ echoed \in [Clients -> Seq(Nat)]
                /\ got \in [Clients -> Nat]

----------------------------------------------------------------------------
(* The clients.  Only one the server has not closed can matter to it.      *)

Alive(c) == link[c] \in {"queued", "open"}

Connect(c) == /\ link[c] = "none"
              /\ link' = [link EXCEPT ![c] = "queued"]
              /\ backlog' = Append(backlog, c)
              /\ UNCHANGED <<fds, sent, away, taken, echoed, got>>

Send(c) == /\ Alive(c)
           /\ away[c] = "up"
           /\ sent[c] < Len(Stream[c])
           /\ sent[c] - taken[c] < SOCKBUF
           /\ sent' = [sent EXCEPT ![c] = @ + 1]
           /\ UNCHANGED <<link, backlog, fds, away, taken, echoed, got>>

\* The client reads the echoes that have arrived.
Receive(c) == /\ link[c] = "open"
              /\ away[c] \in {"up", "fin"}
              /\ got[c] < Len(echoed[c])
              /\ got' = [got EXCEPT ![c] = Len(echoed[c])]
              /\ UNCHANGED <<link, backlog, fds, sent, away, taken, echoed>>

\* The client closes its side.
Finish(c) == /\ Alive(c)
             /\ away[c] = "up"
             /\ away' = [away EXCEPT ![c] = "fin"]
             /\ UNCHANGED <<link, backlog, fds, sent, taken, echoed, got>>

\* The client ends with echoes unread, or an echo finds it gone: RST.  After
\* a FIN the server's reads still see the end of the stream, not the error.
Abort(c) == /\ Alive(c)
            /\ away[c] \in {"up", "fin"}
            /\ away' = [away EXCEPT ![c] = IF @ = "up" THEN "reset" ELSE "gone"]
            /\ UNCHANGED <<link, backlog, fds, sent, taken, echoed, got>>

ClientStep(c) == Connect(c) \/ Send(c) \/ Receive(c) \/ Finish(c) \/ Abort(c)

----------------------------------------------------------------------------
(* The system calls                                                        *)

Lesser(a, b) == IF a < b THEN a ELSE b

FreeFds == {f \in ConnFds : fds[f] = None}

\* accept: the connection that waited longest gets the lowest descriptor.
AcceptAs(f) == /\ backlog # << >>
               /\ f \in FreeFds
               /\ \A g \in FreeFds : f <= g
               /\ fds' = [fds EXCEPT ![f] = Head(backlog)]
               /\ link' = [link EXCEPT ![Head(backlog)] = "open"]
               /\ backlog' = Tail(backlog)
               /\ UNCHANGED <<sent, away, taken, echoed, got>>

\* close
CloseFd(f) == /\ fds' = [fds EXCEPT ![f] = None]
              /\ link' = [link EXCEPT ![fds[f]] = "closed"]
              /\ UNCHANGED <<backlog, sent, away, taken, echoed, got>>

Unread(c) == SubSeq(Stream[c], taken[c] + 1, sent[c])

\* A read does not block: there are bytes, the end of the stream or an error.
Readable(c) == taken[c] < sent[c] \/ away[c] # "up"
ReadFails(c) == taken[c] = sent[c] /\ away[c] = "reset"

\* What a read of at most `room` bytes sees.
Visible(c, room) == SubSeq(Unread(c), 1, Lesser(room, sent[c] - taken[c]))

\* read takes k of the bytes it sees.
Consume(c, k) == /\ taken' = [taken EXCEPT ![c] = @ + k]
                 /\ UNCHANGED <<link, backlog, fds, sent, away, echoed, got>>

\* How much of `bytes` a write to c takes now; none means that it blocks.
Writable(c, bytes) ==
    Lesser(Len(bytes), SOCKBUF - (Len(echoed[c]) - got[c]))

WriteFails(c) == away[c] \in {"reset", "gone"}

Write(c, bytes) ==
    /\ ~ WriteFails(c)
    /\ echoed' = [echoed EXCEPT ![c] = @ \o bytes]
    /\ UNCHANGED <<link, backlog, fds, sent, away, taken, got>>

\* A failed write reports the error; the next read sees the end of the stream.
FailWrite(c) == /\ WriteFails(c)
                /\ away' = [away EXCEPT ![c] = "gone"]
                /\ UNCHANGED <<link, backlog, fds, sent, taken, echoed, got>>
=============================================================================
