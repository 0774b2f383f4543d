-------------------------- MODULE ShutdownSession --------------------------
(***************************************************************************)
(* One session of a client that waits with select for its input and for    *)
(* echoes at once, with the select server.  At the end of its input        *)
(* 10shutdown's echocli.c shuts down its side only, so that the last       *)
(* echoes still reach it; that of 9select1 and 9select2 goes on with its   *)
(* loop.  The server is SelectServer: 10shutdown's copy differs in a sleep *)
(* before the echo.                                                        *)
(*                                                                         *)
(* The input is Stream[me], typed in chunks of any size and ended anywhere.*)
(* It passes through stdio's buffer, where select does not see it.         *)
(*                                                                         *)
(* A definition named Bug... is the one after it with a plausible mistake; *)
(* no specification uses it, it serves to see a property fail.             *)
(***************************************************************************)
EXTENDS SelectServer

CONSTANT me            \* the only client

\* Lines are shorter than buf and recvbuf, which are of the same size.
ASSUME SessionAssumption ==
    /\ Clients = {me}
    /\ \A k \in 1 .. Len(Stream[me]) - MAXLINE + 2 :
          \E j \in k .. k + MAXLINE - 2 : Stream[me][j] = NL

VARIABLES shuts,       \* the client is 10shutdown's
          cpc,         \* the call the client is in, or "ended"
          typed,       \* how much of the input has been typed,
          stdio,       \* how much of that stdio has read,
          fetched,     \* and how much of that fgets has returned
          eof,         \* the input has ended
          input,       \* select found stdin ready
          inbuf,       \* what readline has of an echo
          printed      \* what the client has printed

user == <<typed, eof>>
loop == <<stdio, fetched, input, inbuf, printed>>
server == <<line, pc, table, round>>
sessionVars == <<vars, shuts, cpc, user, loop>>

SessionInit == /\ Init
               /\ shuts \in BOOLEAN
               /\ cpc = "connect"
               /\ typed = 0 /\ stdio = 0 /\ fetched = 0
               /\ eof = FALSE /\ input = FALSE
               /\ inbuf = << >> /\ printed = << >>

----------------------------------------------------------------------------
(* The user                                                                *)

Types == /\ typed' \in typed + 1 .. Len(Stream[me])
         /\ UNCHANGED eof
Ends == eof' = TRUE /\ UNCHANGED typed

User == /\ ~ eof
        /\ Types \/ Ends
        /\ UNCHANGED <<vars, shuts, cpc, loop>>

----------------------------------------------------------------------------
(* The client's loop                                                       *)

Connects == /\ cpc = "connect"
            /\ Connect(me)
            /\ cpc' = "select"
            /\ UNCHANGED loop

\* The echoes that have arrived; after them the server's FIN.
Echoes == SubSeq(echoed[me], got[me] + 1, Len(echoed[me]))
SockReady == Echoes # << >> \/ link[me] = "closed"
StdinReady == typed > stdio \/ eof

SelectBoth == /\ cpc = "select"
              /\ SockReady \/ StdinReady
              /\ input' = StdinReady
              /\ cpc' = IF SockReady THEN "readline" ELSE "fgets"
              /\ UNCHANGED <<kernel, stdio, fetched, inbuf, printed>>

\* One round of readline's loop.
PeekedEchoes == SubSeq(Echoes, 1, Lesser(Len(Echoes), MAXLINE - Len(inbuf)))
TakeEchoes(k) ==
    /\ got' = [got EXCEPT ![me] = @ + k]
    /\ UNCHANGED <<link, backlog, fds, sent, away, taken, echoed>>

EchoPart == /\ cpc = "readline"
            /\ PeekedEchoes # << >>
            /\ LineEnd(PeekedEchoes) = {}
            /\ inbuf' = inbuf \o PeekedEchoes
            /\ TakeEchoes(Len(PeekedEchoes))
            /\ UNCHANGED <<cpc, stdio, fetched, input, printed>>

\* The echo is printed; the input is looked at if select found it ready.
EchoLine == /\ cpc = "readline"
            /\ \E k \in LineEnd(PeekedEchoes) :
                  /\ printed' = printed \o inbuf \o SubSeq(PeekedEchoes, 1, k)
                  /\ TakeEchoes(k)
            /\ inbuf' = << >>
            /\ cpc' = IF input THEN "fgets" ELSE "select"
            /\ UNCHANGED <<stdio, fetched, input>>

\* readline returns 0: "server closed", the client ends.
EchoEnd == /\ cpc = "readline"
           /\ Echoes = << >>
           /\ link[me] = "closed"
           /\ cpc' = "ended"
           /\ UNCHANGED <<kernel, loop>>

\* fgets returns a line that stdio has, or reads all that has been typed.
Buffered == SubSeq(Stream[me], fetched + 1, stdio)

FgetsLine == /\ cpc = "fgets"
             /\ \E k \in LineEnd(Buffered) : fetched' = fetched + k
             /\ cpc' = "writen"
             /\ UNCHANGED <<kernel, stdio, input, inbuf, printed>>

FgetsReads == /\ cpc = "fgets"
              /\ LineEnd(Buffered) = {}
              /\ typed > stdio
              /\ stdio' = typed
              /\ UNCHANGED <<kernel, cpc, fetched, input, inbuf, printed>>

\* At the end of the input it returns a line without '\n', or NULL.
FgetsRest == /\ cpc = "fgets"
             /\ LineEnd(Buffered) = {} /\ typed = stdio /\ eof
             /\ fetched < stdio
             /\ fetched' = stdio
             /\ cpc' = "writen"
             /\ UNCHANGED <<kernel, stdio, input, inbuf, printed>>

\* NULL: `continue`, to a select that finds the input ready again; or
\* shutdown(SHUT_WR), again in every round, where the writen that follows fails
\* or has nothing to write.
GoOn == cpc' = "select" /\ UNCHANGED kernel
BugClosesBoth == cpc' = "ended" /\ UNCHANGED kernel
ShutDown == /\ away' = [away EXCEPT ![me] = IF @ = "up" THEN "fin" ELSE @]
            /\ cpc' = "select"
            /\ UNCHANGED <<link, backlog, fds, sent, taken, echoed, got>>

FgetsNull == /\ cpc = "fgets"
             /\ fetched = typed /\ eof
             /\ IF shuts THEN ShutDown ELSE GoOn
             /\ UNCHANGED loop

\* One round of writen, which blocks while the connection takes no more.
Room == SOCKBUF - (sent[me] - taken[me])

WritePiece == /\ cpc = "writen"
              /\ link[me] # "closed"
              /\ Room > 0
              /\ sent' = [sent EXCEPT ![me] = @ + Lesser(fetched - @, Room)]
              /\ cpc' = IF sent'[me] = fetched THEN "select" ELSE "writen"
              /\ UNCHANGED <<link, backlog, fds, away, taken, echoed, got, loop>>

ClientLoop == \/ Connects \/ SelectBoth \/ EchoPart \/ EchoLine \/ EchoEnd
              \/ FgetsLine \/ FgetsReads \/ FgetsRest \/ FgetsNull \/ WritePiece

Client == ClientLoop /\ UNCHANGED <<server, user, shuts>>
Serves == Server /\ UNCHANGED <<cpc, user, loop, shuts>>

SessionNext == Client \/ Serves \/ User

\* Both processes run whenever they are not blocked; the user owes nothing.
SessionSpec == /\ SessionInit /\ [][SessionNext]_sessionVars
               /\ WF_sessionVars(Client)
               /\ WF_sessionVars(Serves)

----------------------------------------------------------------------------
(* Properties                                                              *)

EveryLinePrinted == \A k \in Len(printed) + 1 .. typed : Stream[me][k] # NL

\* What is printed is what was typed, in order; and the half-close loses
\* nothing: when the client ends, it has printed every complete line of its
\* input, although it shut its side down with echoes outstanding.  Only a last
\* line without '\n' is lost.
AllPrinted ==
    /\ printed = SubSeq(Stream[me], 1, Len(printed))
    /\ cpc = "ended" => EveryLinePrinted /\ eof

\* Each is in a write that the other does not read: the buffers of both
\* directions are full.
Stalled == /\ cpc = "writen" /\ Room = 0
           /\ pc = "echo" /\ Writable(me, line) = 0

\* Once its input ends, 10shutdown's client ends; the other prints all it is
\* owed, although it spins from then on; unless long lines meet the echoes of
\* short ones and both sides block in writen.
DoneUnlessStalled ==
    eof ~> (Stalled \/ IF shuts THEN cpc = "ended" ELSE EveryLinePrinted)
=============================================================================
