----------------------------- MODULE Readline -----------------------------
(***************************************************************************)
(* readline, recv_peek and readn of 6readline/helper.c (the same file in   *)
(* 9select1, 9select2, 10shutdown, 12maxconn_poll and 13epoll), call by    *)
(* call of recv and read, while the peer's bytes arrive.                   *)
(*                                                                         *)
(* The reader calls readline until it returns 0 or -1, as every caller in  *)
(* the repository does.  A read may take fewer bytes than it was asked     *)
(* for.  Calls interrupted by a signal (EINTR) are repeated by the code    *)
(* and are stuttering.                                                     *)
(*                                                                         *)
(* A definition named Bug... is the one after it with a plausible mistake; *)
(* no specification uses it, it serves to see a property fail.             *)
(***************************************************************************)
EXTENDS Integers, Sequences

CONSTANTS Streams,    \* the byte streams a peer may send
          MAXLINE     \* readline's maxline (1024 in every call)

NL == 0

ASSUME StreamsAssumption == Streams \subseteq Seq(Nat)
ASSUME MaxlineAssumption == MAXLINE \in Nat \ {0}

VARIABLES stream,     \* what the peer sends in this session
          arrived,    \* how many bytes of it have arrived
          ended,      \* the peer's end: "up", "fin" or "reset"
          taken,      \* how many bytes the reader has taken off the socket
          pc,         \* in readline: "peek", "readn"; between calls "call";
                      \* "done" after 0 or -1, "exit" after exit()
          buf,        \* what readline has put into the caller's buffer
          nread,      \* what recv_peek returned
          asked,      \* readn's count
          nleft,      \* readn's nleft
          lines,      \* the lines that calls have delivered, in order
          verdict     \* "reading" until a call returns 0 ("zero") or -1 ("error")

peer == <<stream, arrived, ended>>
vars == <<peer, taken, pc, buf, nread, asked, nleft, lines, verdict>>

Init == /\ stream \in Streams
        /\ arrived = 0
        /\ ended = "up"
        /\ taken = 0
        /\ pc = "call"
        /\ buf = << >>
        /\ nread = 0
        /\ asked = 0
        /\ nleft = 0
        /\ lines = << >>
        /\ verdict = "reading"

----------------------------------------------------------------------------
(* The peer                                                                *)

Arrive == /\ ended = "up"
          /\ arrived < Len(stream)
          /\ arrived' = arrived + 1
          /\ UNCHANGED <<stream, ended, taken, pc, buf, nread, asked, nleft, lines, verdict>>

End == /\ ended = "up"
       /\ ended' \in {"fin", "reset"}
       /\ UNCHANGED <<stream, arrived, taken, pc, buf, nread, asked, nleft, lines, verdict>>

----------------------------------------------------------------------------
(* The reader                                                              *)

Available == arrived - taken
Lesser(a, b) == IF a < b THEN a ELSE b

\* readline returns 0 or -1, and is not called again.
Stop(result) == /\ verdict' = result
                /\ pc' = "done"
                /\ buf' = << >>
                /\ UNCHANGED lines

\* readline returns with a line in the caller's buffer.
Deliver == /\ lines' = Append(lines, buf)
           /\ pc' = "call"
           /\ buf' = << >>

Call == /\ pc = "call"
        /\ pc' = "peek"
        /\ buf' = << >>
        /\ UNCHANGED <<peer, taken, nread, asked, nleft, lines, verdict>>

\* The room left in the caller's buffer: readline's nleft.  Its count is what
\* the buffer holds.
BugRoomNotReduced == MAXLINE
RoomLeft == MAXLINE - Len(buf)

\* The search for '\n' in the n bytes that were peeked: how many bytes to take.
BugTakeAll(n) == n
UpToNewline(n) == IF \E k \in 1 .. n : stream[taken + k] = NL
                  THEN CHOOSE k \in 1 .. n :
                          /\ stream[taken + k] = NL
                          /\ \A j \in 1 .. k - 1 : stream[taken + j] # NL
                  ELSE n

\* recv_peek finds bytes, and readn is asked for the ones to take.
Peek == /\ pc = "peek"
        /\ Available > 0
        /\ RoomLeft > 0
        /\ nread' = Lesser(RoomLeft, Available)
        /\ asked' = UpToNewline(nread')
        /\ nleft' = asked'
        /\ pc' = "readn"
        /\ UNCHANGED <<peer, taken, buf, lines, verdict>>

\* recv_peek returns 0: the peer closed, or there was no room left and so
\* nothing was asked for.
BugSpinAtEof == Available > 0 /\ RoomLeft = 0
PeekNothing == \/ Available = 0 /\ ended = "fin"
               \/ Available > 0 /\ RoomLeft = 0

ReturnZero == /\ pc = "peek"
              /\ PeekNothing
              /\ Stop("zero")
              /\ UNCHANGED <<peer, taken, nread, asked, nleft>>

ReturnError == /\ pc = "peek"
               /\ Available = 0
               /\ ended = "reset"
               /\ Stop("error")
               /\ UNCHANGED <<peer, taken, nread, asked, nleft>>

\* One read of readn: it takes some of the bytes it is asked for.
Read == /\ pc = "readn"
        /\ nleft > 0
        /\ \E k \in 1 .. Lesser(nleft, Available) :
              /\ taken' = taken + k
              /\ nleft' = nleft - k
              /\ buf' = buf \o SubSeq(stream, taken + 1, taken + k)
        /\ UNCHANGED <<peer, pc, nread, asked, lines, verdict>>

\* readn is done when it has all it was asked for, or at the end of the
\* stream or on an error, when it returns less.
ReadnDone == nleft = 0 \/ (Available = 0 /\ ended # "up")

\* readline compares what readn returned with what it asked for: less means
\* exit(), a last '\n' means a line, anything else another round.
ReadnReturns ==
    /\ pc = "readn"
    /\ ReadnDone
    /\ IF nleft # 0 THEN pc' = "exit" /\ UNCHANGED <<buf, lines>>
       ELSE IF buf[Len(buf)] = NL THEN Deliver
       ELSE pc' = "peek" /\ UNCHANGED <<buf, lines>>
    /\ UNCHANGED <<peer, taken, nread, asked, nleft, verdict>>

----------------------------------------------------------------------------
Reader == Call \/ Peek \/ ReturnZero \/ ReturnError \/ Read \/ ReadnReturns

Next == Reader \/ Arrive \/ End

Spec == Init /\ [][Next]_vars /\ WF_vars(Reader)

----------------------------------------------------------------------------
(* Properties                                                              *)

TypeOK == /\ stream \in Streams
          /\ arrived \in 0 .. Len(stream)
          /\ ended \in {"up", "fin", "reset"}
          /\ taken \in 0 .. arrived
          /\ pc \in {"call", "peek", "readn", "done", "exit"}
          /\ buf \in Seq(Nat) /\ Len(buf) <= MAXLINE
          /\ nread \in 0 .. MAXLINE
          /\ asked \in 0 .. nread
          /\ nleft \in 0 .. asked
          /\ lines \in Seq(Seq(Nat))
          /\ verdict \in {"reading", "zero", "error"}

Behind == IF pc \in {"peek", "readn"} THEN taken - Len(buf) ELSE taken

Abstract == INSTANCE LineReader WITH cut <- Behind

\* However the bytes arrive and however readn's reads fall short, a call of
\* readline takes one line and not a byte more: it implements LineReader.
ImplementsLineReader == Abstract!Spec

\* Once the peer has ended, the calls return: readline does not spin at the
\* end of the stream or with a full buffer, nor does it reach one of its
\* exit(EXIT_FAILURE): with one reader on the socket the bytes that were peeked
\* are still there when they are read.
CallsEnd == <>(ended # "up") => <>(pc = "done")

\* The comment before readline says that 0 means that the peer closed.
ZeroMeansClosed == verdict = "zero" => ended = "fin"
=============================================================================
