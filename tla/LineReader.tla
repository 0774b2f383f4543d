---------------------------- MODULE LineReader ----------------------------
(***************************************************************************)
(* What one reader of a TCP connection gets from readline: the stream cut  *)
(* after every '\n', in order, one piece a call, until a call reports the  *)
(* end.  A piece is a line of at most MAXLINE bytes.  The reader is told 0 *)
(* when the peer has closed, and also when MAXLINE bytes hold no '\n'; it  *)
(* is told -1 when the connection failed.  The bytes of the piece that was *)
(* being read are then lost.                                               *)
(***************************************************************************)
EXTENDS Integers, Sequences

CONSTANTS Streams,    \* the byte streams a peer may send
          MAXLINE,    \* the longest line
          NL          \* '\n'

VARIABLES stream,     \* what the peer sends in this session
          arrived,    \* how many bytes of it have arrived
          ended,      \* the peer's end: "up", "fin" or "reset"
          cut,        \* how many bytes are behind the last return
          lines,      \* what the calls returned with a line have delivered
          verdict     \* "reading" until a call returns 0 ("zero") or -1 ("error")

vars == <<stream, arrived, ended, cut, lines, verdict>>

Init == /\ stream \in Streams
        /\ arrived = 0
        /\ ended = "up"
        /\ cut = 0
        /\ lines = << >>
        /\ verdict = "reading"

\* The reader calls again until it is told 0 or -1.
Reading == verdict = "reading"

HasNoNL(from, to) == \A k \in from .. to : stream[k] # NL

Arrive == /\ ended = "up"
          /\ arrived < Len(stream)
          /\ arrived' = arrived + 1
          /\ UNCHANGED <<stream, ended, cut, lines, verdict>>

End == /\ ended = "up"
       /\ ended' \in {"fin", "reset"}
       /\ UNCHANGED <<stream, arrived, cut, lines, verdict>>

Line == \E k \in cut + 1 .. arrived :
           /\ Reading
           /\ k - cut <= MAXLINE
           /\ stream[k] = NL
           /\ HasNoNL(cut + 1, k - 1)
           /\ lines' = Append(lines, SubSeq(stream, cut + 1, k))
           /\ cut' = k
           /\ UNCHANGED <<stream, arrived, ended, verdict>>

\* The stream has ended within a line.
Eof == /\ Reading
       /\ ended = "fin"
       /\ arrived - cut <= MAXLINE
       /\ HasNoNL(cut + 1, arrived)
       /\ verdict' = "zero"
       /\ cut' = arrived
       /\ UNCHANGED <<stream, arrived, ended, lines>>

\* A line too long, once there is something more to read: the reader is told
\* the same.
TooLong == /\ Reading
           /\ arrived - cut > MAXLINE
           /\ HasNoNL(cut + 1, cut + MAXLINE)
           /\ verdict' = "zero"
           /\ cut' = cut + MAXLINE
           /\ UNCHANGED <<stream, arrived, ended, lines>>

Failure == /\ Reading
           /\ ended = "reset"
           /\ arrived - cut <= MAXLINE
           /\ HasNoNL(cut + 1, arrived)
           /\ verdict' = "error"
           /\ cut' = arrived
           /\ UNCHANGED <<stream, arrived, ended, lines>>

Next == Arrive \/ End \/ Line \/ Eof \/ TooLong \/ Failure

Spec == Init /\ [][Next]_vars
=============================================================================
