------------------------------- MODULE Chat -------------------------------
(***************************************************************************)
(* 4fork/serfork.c and clifork.c: a chat over one connection.  On each     *)
(* side a child sends what is typed and its parent shows what arrives.  A  *)
(* message is the whole of sendbuf: a text, then NULs.  A read takes what  *)
(* has arrived, which may be a part of a message, or of two.               *)
(*                                                                         *)
(* The two processes of a side hold the connection together: it is closed  *)
(* when both have ended.  Only the parent ends its peer, with SIGUSR1, and *)
(* only when it has read the end of the stream.                            *)
(*                                                                         *)
(* A definition named Bug... is the one after it with a plausible mistake; *)
(* no specification uses it, it serves to see a property fail.             *)
(***************************************************************************)
EXTENDS Integers, Sequences

CONSTANTS Texts,       \* what is typed on each side, line by line
          MESSAGE,     \* the size of sendbuf and of recvbuf (1024)
          SOCKBUF      \* the bytes the connection holds in each direction

Sides == {"server", "client"}
Other(s) == IF s = "server" THEN "client" ELSE "server"

\* NUL, and a byte of the memory behind recvbuf.
NUL == 0
Beyond == -1

ASSUME ChatAssumption ==
    /\ SOCKBUF \in Nat \ {0} /\ MESSAGE \in Nat \ {0}
    /\ Texts \in [Sides -> Seq(Seq(Nat \ {NUL}) \ {<< >>})]
    /\ \A s \in Sides : \A k \in 1 .. Len(Texts[s]) : Len(Texts[s][k]) < MESSAGE

VARIABLES sender,      \* the child: "fgets", "write", "ended"
          sendbuf,     \* what it has left to write
          typed,       \* how many lines it has got from fgets
          receiver,    \* the parent: "read", "kill", "close", "ended", or
                       \* "dead" when it ended without the kill
          shown,       \* the bytes it has shown
          reads,       \* how many bytes each of its reads took (history)
          wire,        \* the bytes on the way to each side
          told         \* what it was told of the other: "up", "fin", "reset"

senders == <<sender, sendbuf, typed>>
receivers == <<receiver, shown, reads>>
connection == <<wire, told>>
chatVars == <<senders, receivers, connection>>

ChatInit == /\ sender = [s \in Sides |-> "fgets"]
            /\ sendbuf = [s \in Sides |-> << >>]
            /\ typed = [s \in Sides |-> 0]
            /\ receiver = [s \in Sides |-> "read"]
            /\ shown = [s \in Sides |-> << >>]
            /\ reads = [s \in Sides |-> << >>]
            /\ wire = [s \in Sides |-> << >>]
            /\ told = [s \in Sides |-> "up"]

----------------------------------------------------------------------------
(* The connection                                                          *)

Over(s) == sender[s] = "ended" /\ receiver[s] \in {"ended", "dead"}

\* The last process of a side is gone: the other side gets a FIN, or, when
\* bytes were left unread, a reset, which overtakes some of the bytes before it.
Fin(s) == /\ told' = [told EXCEPT ![Other(s)] = "fin"]
          /\ wire' = [wire EXCEPT ![s] = << >>]

Reset(s) ==
    /\ wire[s] # << >>
    /\ told' = [told EXCEPT ![Other(s)] = "reset"]
    /\ \E k \in 0 .. Len(wire[Other(s)]) :
          wire' = [wire EXCEPT ![s] = << >>, ![Other(s)] = SubSeq(@, 1, k)]

HangUp(s) == IF Over(s)' THEN Fin(s) \/ Reset(s) ELSE UNCHANGED connection

----------------------------------------------------------------------------
(* The child                                                               *)

\* The message: sendbuf was cleared before fgets.
BugMessage(text) == text
ChatMessage(text) == [k \in 1 .. MESSAGE |-> IF k <= Len(text) THEN text[k] ELSE NUL]

FgetsLine(s) ==
    /\ sender[s] = "fgets"
    /\ typed[s] < Len(Texts[s])
    /\ typed' = [typed EXCEPT ![s] = @ + 1]
    /\ sendbuf' = [sendbuf EXCEPT ![s] = ChatMessage(Texts[s][typed'[s]])]
    /\ sender' = [sender EXCEPT ![s] = "write"]
    /\ UNCHANGED <<receivers, connection>>

\* write blocks until all of it is taken.
SenderWrites(s) ==
    LET room == SOCKBUF - Len(wire[Other(s)])
        k == IF room < Len(sendbuf[s]) THEN room ELSE Len(sendbuf[s]) IN
    /\ sender[s] = "write"
    /\ told[s] = "up"
    /\ k > 0
    /\ wire' = [wire EXCEPT ![Other(s)] = @ \o SubSeq(sendbuf[s], 1, k)]
    /\ sendbuf' = [sendbuf EXCEPT ![s] = SubSeq(@, k + 1, Len(@))]
    /\ sender' = [sender EXCEPT ![s] = IF sendbuf'[s] = << >> THEN "fgets" ELSE "write"]
    /\ UNCHANGED <<typed, receivers, told>>

SenderEnds(s) == /\ sender' = [sender EXCEPT ![s] = "ended"]
                 /\ sendbuf' = [sendbuf EXCEPT ![s] = << >>]
                 /\ UNCHANGED <<typed, receivers>>
                 /\ HangUp(s)

\* The other side is gone, and what write returns is not looked at; a later
\* write raises SIGPIPE.
SenderInVain(s) == /\ sender[s] = "write"
                   /\ told[s] # "up"
                   /\ \/ SenderEnds(s)
                      \/ /\ sender' = [sender EXCEPT ![s] = "fgets"]
                         /\ sendbuf' = [sendbuf EXCEPT ![s] = << >>]
                         /\ UNCHANGED <<typed, receivers, connection>>

\* SIGUSR1 arrives: the handler closes the connection and exits.
BugSignalled(s) == FALSE
Signalled(s) == receiver[s] \in {"close", "ended"}

Handler(s) == /\ Signalled(s)
              /\ sender[s] # "ended"
              /\ SenderEnds(s)

\* The end of the input, or the user kills it.
SenderLeaves(s) == /\ sender[s] # "ended"
                   /\ SenderEnds(s)

Sender(s) == SenderWrites(s) \/ SenderInVain(s) \/ Handler(s)

----------------------------------------------------------------------------
(* The parent                                                              *)

\* fputs shows the bytes before the first NUL; in a full recvbuf without one it
\* goes on into what follows.
Shows(buf) ==
    IF \E k \in 1 .. Len(buf) : buf[k] = NUL
    THEN SubSeq(buf, 1, (CHOOSE k \in 1 .. Len(buf) :
             buf[k] = NUL /\ \A j \in 1 .. k - 1 : buf[j] # NUL) - 1)
    ELSE IF Len(buf) < MESSAGE THEN buf ELSE Append(buf, Beyond)

ReceiverReads(s) ==
    /\ receiver[s] = "read"
    /\ \E k \in 1 .. Len(wire[s]) :
          /\ k <= MESSAGE
          /\ shown' = [shown EXCEPT ![s] = @ \o Shows(SubSeq(wire[s], 1, k))]
          /\ reads' = [reads EXCEPT ![s] = Append(@, k)]
          /\ wire' = [wire EXCEPT ![s] = SubSeq(@, k + 1, Len(@))]
    /\ UNCHANGED <<senders, receiver, told>>

\* The read returns 0: "peer close".
ReceiverEof(s) == /\ receiver[s] = "read"
                  /\ wire[s] = << >> /\ told[s] = "fin"
                  /\ receiver' = [receiver EXCEPT ![s] = "kill"]
                  /\ UNCHANGED <<senders, shown, reads, connection>>

Kill(s) == /\ receiver[s] = "kill"
           /\ receiver' = [receiver EXCEPT ![s] = "close"]
           /\ UNCHANGED <<senders, shown, reads, connection>>

ReceiverGoes(s, how) == /\ receiver' = [receiver EXCEPT ![s] = how]
                        /\ UNCHANGED <<senders, shown, reads>>
                        /\ HangUp(s)

ReceiverCloses(s) == receiver[s] = "close" /\ ReceiverGoes(s, "ended")

\* The read returns -1: ERR_EXIT, without a word to the child.
ReadError(s) == /\ receiver[s] = "read"
                /\ wire[s] = << >> /\ told[s] = "reset"
                /\ ReceiverGoes(s, "dead")

ReceiverKilled(s) == receiver[s] \in {"read", "kill"} /\ ReceiverGoes(s, "dead")

Receiver(s) == \/ ReceiverReads(s) \/ ReceiverEof(s) \/ Kill(s)
               \/ ReceiverCloses(s) \/ ReadError(s)

----------------------------------------------------------------------------
ChatNext == \E s \in Sides : \/ FgetsLine(s) \/ Sender(s) \/ SenderLeaves(s)
                             \/ Receiver(s) \/ ReceiverKilled(s)

\* Every process runs when it is not blocked; nobody has to type or to leave.
ChatSpec == /\ ChatInit /\ [][ChatNext]_chatVars
            /\ \A s \in Sides : WF_chatVars(Sender(s)) /\ WF_chatVars(Receiver(s))

----------------------------------------------------------------------------
(* Properties                                                              *)

\* The bytes of the first n lines typed on a side: which line, and which byte
\* of it; and their order.
TypedBytes(s, n) == UNION {{m} \X (1 .. Len(Texts[s][m])) : m \in 1 .. n}
Before(p, q) == p[1] < q[1] \/ (p[1] = q[1] /\ p[2] < q[2])

\* However TCP cuts the messages, a side shows bytes that were typed on the
\* other, in order and none twice, and never runs over the end of recvbuf; and
\* while each read has taken a message it shows all their texts.  (Of two
\* messages that one read takes parts of, it may lose the text behind a NUL.)
ShownInOrder ==
    \A s \in Sides :
        \E at \in [1 .. Len(shown[s]) -> TypedBytes(Other(s), typed[Other(s)])] :
            /\ \A k \in DOMAIN at : shown[s][k] = Texts[Other(s)][at[k][1]][at[k][2]]
            /\ \A j, k \in DOMAIN at : j < k => Before(at[j], at[k])
            /\ (\A k \in 1 .. Len(reads[s]) : reads[s][k] = MESSAGE)
                  => {at[k] : k \in DOMAIN at} = TypedBytes(Other(s), Len(reads[s]))

\* The parent ended without the kill, and its child waits for its user.
Orphaned(s) == receiver[s] = "dead" /\ sender[s] = "fgets"

\* When both processes of a side have ended, those of the other side end too;
\* only a child whose parent found an error, or was killed, may stay in fgets.
EndsTogether == \A s \in Sides : []<>(Over(s) => Over(Other(s)) \/ Orphaned(Other(s)))
=============================================================================
