------------------------------ MODULE LineIO ------------------------------
(***************************************************************************)
(* readline and writen of helper.c as a server's steps on a blocking       *)
(* socket.  One round of readline's loop - the peek, the search for '\n'   *)
(* and the readn of what was peeked - is one step, because nobody else     *)
(* reads the socket; module Readline takes that round apart.  Interrupted  *)
(* calls (EINTR) are retried by the code and are stuttering here.          *)
(*                                                                         *)
(* A definition named Bug... is the one after it with a plausible mistake; *)
(* no specification uses it, it serves to see a property fail.             *)
(***************************************************************************)
EXTENDS Kernel

CONSTANT MAXLINE     \* the size of recvbuf (1024)
ASSUME MaxlineAssumption == MAXLINE \in Nat \ {0}

VARIABLE line        \* recvbuf: read and not yet echoed

lineio == <<kernel, line>>

\* recv_peek of the nleft bytes that recvbuf still holds.
Peeked(c) == Visible(c, MAXLINE - Len(line))

\* Where the search finds '\n' first: one position, or none.
LineEnd(bytes) ==
    {k \in 1 .. Len(bytes) : bytes[k] = NL /\ \A j \in 1 .. k - 1 : bytes[j] # NL}

\* The string that strlen(recvbuf) finds.  recvbuf is zeroed, but a line that
\* fills it leaves no NUL: strlen then runs on into whatever follows.
JUNK == 9
AsString(bytes) == IF Len(bytes) < MAXLINE THEN {bytes}
                   ELSE {bytes, Append(bytes, JUNK)}

\* A round that finds '\n' takes the bytes up to it: readline returns > 0.
BugBufferRestarts(c) == \E k \in LineEnd(Peeked(c)) :
    /\ line' \in AsString(SubSeq(Peeked(c), 1, k))
    /\ Consume(c, k)
ReadLineEnd(c) == \E k \in LineEnd(Peeked(c)) :
    /\ line' \in AsString(line \o SubSeq(Peeked(c), 1, k))
    /\ Consume(c, k)

\* A round that finds none takes all it peeked and goes on.
ReadLinePart(c) ==
    /\ Peeked(c) # << >>
    /\ LineEnd(Peeked(c)) = {}
    /\ line' = line \o Peeked(c)
    /\ Consume(c, Len(Peeked(c)))

\* readline returns 0: the end of the stream, or recvbuf full without '\n'
\* (a peek of 0 bytes, which returns once anything is readable).
ReadLineNothing(c) == /\ Readable(c)
                      /\ ~ ReadFails(c)
                      /\ Peeked(c) = << >>

\* One round of writen: as many bytes as fit; it blocks when none do.
BugWriteOnce(c) ==
    /\ line # << >>
    /\ Writable(c, line) > 0
    /\ Write(c, SubSeq(line, 1, Writable(c, line)))
    /\ line' = << >>
WritePart(c) ==
    LET k == Writable(c, line) IN
    /\ line # << >>
    /\ k > 0
    /\ Write(c, SubSeq(line, 1, k))
    /\ line' = SubSeq(line, k + 1, Len(line))

\* writen returns -1, which no server looks at: the rest of the line is lost.
WriteGivesUp(c) == /\ line # << >>
                   /\ FailWrite(c)
                   /\ line' = << >>

----------------------------------------------------------------------------
(* What the echo servers owe a client, whatever they use to multiplex.     *)

\* A line that, with its '\n', just fills recvbuf has been taken from c.
FilledBuffer(c) ==
    \E k \in 0 .. taken[c] - MAXLINE :
        /\ Stream[c][k + MAXLINE] = NL
        /\ \A j \in k + 1 .. k + MAXLINE - 1 : Stream[c][j] # NL
        /\ k > 0 => Stream[c][k] = NL

Prefix(c, k) == SubSeq(Stream[c], 1, k)

\* Everything that was read has been echoed, or is in hand.
EchoedAll(c, inhand) == echoed[c] \o inhand = Prefix(c, taken[c])

\* All but the bytes of a last line that did not end, or was too long.
EchoedLines(c) ==
    \E k \in 0 .. taken[c] :
        /\ echoed[c] = Prefix(c, k)
        /\ \A j \in k + 1 .. taken[c] : Stream[c][j] # NL
        /\ taken[c] - k = MAXLINE \/ taken[c] = sent[c]

\* Once a write has failed the echo stops where it was.
EchoedSome(c) == \E k \in 0 .. taken[c] : echoed[c] = Prefix(c, k)

\* A client that waits to be accepted, or whose line waits to be read.
Waits(c) == \/ link[c] = "queued"
            \/ link[c] = "open" /\ LineEnd(Unread(c)) # {}
=============================================================================
