---------------------------- MODULE SocketProofs ----------------------------
(***************************************************************************)
(* Proofs about four models of code around one socket, for every value of  *)
(* their constants:                                                        *)
(*                                                                         *)
(* Readline: for all streams and any maxline, however the bytes arrive and *)
(*   however the reads fall short, readline implements LineReader, and its *)
(*   buffer does not overflow.  The argument: during a call the buffer     *)
(*   holds what was taken since the call before, without a '\n' in front   *)
(*   of what readn was asked for; and what was peeked is still there, so   *)
(*   that readn never returns less.                                        *)
(*                                                                         *)
(* Timeouts: for any waits, no sequence of calls, signals and late answers *)
(*   makes a call wait too long, report a timeout too early or a refusal   *)
(*   as a connection, or leave a connection that does not block.           *)
(*                                                                         *)
(* UdpEcho: for any number of clients and lines, and any losses, refusals, *)
(*   interrupts and restarts, the echoes a client prints are its own, in   *)
(*   order and in step.  The argument: of one client's lines those printed *)
(*   come before those in its socket, these before the one the server      *)
(*   holds, and that one before those in the server's socket.              *)
(*                                                                         *)
(* Chat: for any texts, any cutting of the stream and any ends, a side     *)
(*   shows text of the other side, in order and none twice, and all of it  *)
(*   while each read takes a message.  The argument: what was read, what   *)
(*   is on the way and what the child has in hand are consecutive parts of *)
(*   one stream of messages of MESSAGE bytes, in which each text is        *)
(*   followed by a NUL.                                                    *)
(***************************************************************************)
EXTENDS Readline, Timeouts, UdpEcho, Chat, SequenceTheorems, FiniteSetTheorems, TLAPS

----------------------------------------------------------------------------
(* readline                                                                *)

InCall == pc \in {"peek", "readn"}

NoNL(from, to) == \A k \in from .. to : stream[k] # NL

\* The caller's buffer holds what the call has taken.
Buffered == /\ ~ InCall => buf = << >>
            /\ InCall => Behind >= 0 /\ buf = SubSeq(stream, Behind + 1, taken)

\* Between its rounds readline has seen no '\n'.
NotYet == pc = "peek" => NoNL(Behind + 1, taken)

\* What readn is still to read has arrived, fits, and can have a '\n' only at
\* its end.
Peeked == pc = "readn" => /\ taken + nleft <= arrived
                          /\ Len(buf) + nleft \in 1 .. MAXLINE
                          /\ NoNL(Behind + 1, (taken + nleft) - 1)

ReadlineInv == /\ TypeOK
               /\ Buffered /\ NotYet /\ Peeked
               /\ verdict = "reading" <=> pc # "done"
               /\ pc # "exit"

----------------------------------------------------------------------------
\* What the types say in numbers.
LEMMA Numbers ==
    ASSUME TypeOK
    PROVE  /\ stream \in Seq(Nat) /\ Len(stream) \in Nat
           /\ arrived \in Nat /\ arrived <= Len(stream)
           /\ taken \in Nat /\ taken <= arrived
           /\ Len(buf) \in Nat /\ MAXLINE \in Nat /\ MAXLINE > 0
           /\ nread \in Nat /\ nread <= MAXLINE
           /\ asked \in Nat /\ asked <= nread /\ nleft \in Nat /\ nleft <= asked
BY StreamsAssumption, MaxlineAssumption DEF TypeOK

\* The call before the first has taken nothing.
LEMMA ReadlineInitially == Init => ReadlineInv /\ Abstract!Init
<1> SUFFICES ASSUME Init PROVE ReadlineInv /\ Abstract!Init
    OBVIOUS
<1>1. stream \in Seq(Nat)
    BY StreamsAssumption DEF Init
<1>2. TypeOK
    BY <1>1, MaxlineAssumption DEF Init, TypeOK
<1> QED
    BY <1>2 DEF Init, ReadlineInv, Buffered, NotYet, Peeked, InCall, Behind, Abstract!Init

\* What the peer does concerns no call.
LEMMA PeerSteps ==
    ASSUME ReadlineInv, Arrive \/ End
    PROVE  ReadlineInv' /\ Abstract!Next
<1>1. TypeOK'
    BY Numbers DEF ReadlineInv, TypeOK, Arrive, End
<1>2. arrived' \in Nat /\ arrived <= arrived' /\ Behind' = Behind
    BY Numbers DEF ReadlineInv, Behind, Arrive, End
<1>3. (Buffered /\ NotYet)'
    BY <1>2 DEF ReadlineInv, Buffered, NotYet, NoNL, InCall, Arrive, End
<1>4. Peeked'
  <2>1. UNCHANGED <<stream, taken, pc, buf, nleft>>
    BY DEF Arrive, End
  <2>2. taken + nleft <= arrived => taken + nleft <= arrived'
    BY <1>2, Numbers DEF ReadlineInv
  <2> QED
    BY <1>2, <2>1, <2>2 DEF ReadlineInv, Peeked, NoNL
<1>5. ReadlineInv'
    BY <1>1, <1>3, <1>4 DEF ReadlineInv, Arrive, End
<1>6. Abstract!Arrive \/ Abstract!End
    BY <1>2 DEF Arrive, End, Abstract!Arrive, Abstract!End
<1> QED
    BY <1>5, <1>6 DEF Abstract!Next

\* A call begins where the one before has stopped.
LEMMA CallSteps ==
    ASSUME ReadlineInv, Call
    PROVE  ReadlineInv' /\ UNCHANGED Abstract!vars
<1> USE Numbers DEF ReadlineInv, Call, peer
<1>1. Behind = taken /\ Behind' = taken'
    BY DEF Behind
<1>2. TypeOK'
    BY DEF TypeOK
<1>3. SubSeq(stream, taken + 1, taken) = << >>
    OBVIOUS
<1>4. (Buffered /\ NotYet /\ Peeked)'
    BY <1>1, <1>3 DEF Buffered, NotYet, Peeked, NoNL, InCall
<1> QED
    BY <1>1, <1>2, <1>4 DEF Abstract!vars

----------------------------------------------------------------------------
(* The search                                                              *)

\* A set of numbers up to n that is not empty has a least element: of the
\* finite sets 1 .. k, ordered by inclusion, one is minimal.
LEMMA LeastUpTo ==
    ASSUME NEW n \in Nat, NEW S \in SUBSET (1 .. n), S # {}
    PROVE  \E m \in S : \A k \in S : m <= k
<1> DEFINE U == 1 .. n
           T == {X \in SUBSET U : \E k \in S : X = 1 .. k}
           R == StrictSubsetOrdering(U)
<1>1. T \subseteq SUBSET U /\ T # {}
  <2>1. PICK j \in S : TRUE
    OBVIOUS
  <2>2. 1 .. j \subseteq U
    BY <2>1
  <2>3. 1 .. j \in T
    BY <2>1, <2>2
  <2> QED
    BY <2>3
<1>2. IsFiniteSet(U)
    BY FS_Interval
<1>3. S \subseteq U
    OBVIOUS
<1> HIDE DEF T, U
<1>4. PICK X \in T : \A Y \in T : ~ (<<Y, X>> \in R)
  <2>1. IsWellFoundedOn(R, SUBSET U)
    BY <1>2, FS_StrictSubsetOrderingWellFounded, FS_FiniteSubsetsOfFinite
  <2> HIDE DEF R
  <2> QED
    BY <1>1, <2>1, WFMin
<1>5. PICK m \in S : X = 1 .. m
    BY <1>4 DEF T
<1>6. ASSUME NEW k \in S, k < m PROVE FALSE
  <2>1. k \in 1 .. n /\ m \in 1 .. n
    BY <1>3 DEF U
  <2>2. 1 .. k \subseteq 1 .. m /\ m \in 1 .. m /\ m \notin 1 .. k
    BY <1>6, <2>1
  <2>3. X \in SUBSET U /\ 1 .. k \in SUBSET U
    BY <1>1, <1>5, <2>2
  <2>4. <<1 .. k, X>> \in R
    BY <1>5, <2>2, <2>3 DEF StrictSubsetOrdering
  <2>5. 1 .. k \in T
    BY <1>6, <2>3 DEF T
  <2> QED
    BY <1>4, <2>4, <2>5
<1>7. \A k \in S : ~ (k < m) => m <= k
    OBVIOUS
<1> QED
    BY <1>6, <1>7

\* What the search returns: where the first '\n' ends, or all of what was
\* peeked.
LEMMA SearchStops ==
    ASSUME TypeOK, NEW n \in Nat, n > 0
    PROVE  /\ UpToNewline(n) \in 1 .. n
           /\ NoNL(taken + 1, taken + UpToNewline(n) - 1)
<1>0. taken \in Nat
    BY Numbers
<1> DEFINE S == {k \in 1 .. n : stream[taken + k] = NL}
<1>1. CASE S = {}
  <2>1. UpToNewline(n) = n
    BY <1>1 DEF UpToNewline
  <2>2. ASSUME NEW k \in taken + 1 .. taken + n - 1 PROVE stream[k] # NL
    <3>1. k - taken \in 1 .. n /\ taken + (k - taken) = k
      BY <1>0
    <3> QED
      BY <1>1, <3>1
  <2> QED
    BY <2>1, <2>2 DEF NoNL
<1>2. CASE S # {}
  <2>1. PICK m \in S : \A k \in S : m <= k
    BY <1>2, LeastUpTo
  <2>2. \A j \in 1 .. m - 1 : stream[taken + j] # NL
    BY <2>1
  <2>3. UpToNewline(n) \in 1 .. n
        /\ \A j \in 1 .. UpToNewline(n) - 1 : stream[taken + j] # NL
    BY <2>1, <2>2 DEF UpToNewline
  <2>4. PICK u \in 1 .. n : u = UpToNewline(n)
    BY <2>3
  <2>5. ASSUME NEW k \in taken + 1 .. taken + u - 1 PROVE stream[k] # NL
    <3>1. k - taken \in 1 .. u - 1 /\ taken + (k - taken) = k
      BY <1>0
    <3> QED
      BY <2>3, <2>4, <3>1
  <2> QED
    BY <2>4, <2>5 DEF NoNL
<1> QED
    BY <1>1, <1>2

----------------------------------------------------------------------------
(* A call's rounds                                                         *)

\* recv_peek finds bytes: readn is asked for no more than there are, nor
\* than fit.
LEMMA PeekSteps ==
    ASSUME ReadlineInv, Peek
    PROVE  ReadlineInv' /\ UNCHANGED Abstract!vars
<1>0. /\ stream \in Seq(Nat) /\ Len(stream) \in Nat
      /\ arrived \in Nat /\ arrived <= Len(stream)
      /\ taken \in Nat /\ taken <= arrived
      /\ Len(buf) \in Nat /\ MAXLINE \in Nat
    BY Numbers DEF ReadlineInv
<1>1. PICK n \in Nat :
          /\ n = Lesser(RoomLeft, Available)
          /\ n > 0 /\ n <= MAXLINE - Len(buf) /\ n <= arrived - taken
  <2>1. /\ Lesser(RoomLeft, Available) \in Nat /\ Lesser(RoomLeft, Available) > 0
        /\ Lesser(RoomLeft, Available) <= MAXLINE - Len(buf)
        /\ Lesser(RoomLeft, Available) <= arrived - taken
    BY <1>0 DEF Peek, Lesser, RoomLeft, Available
  <2> QED
    BY <2>1, Zenon
<1>2. PICK u \in 1 .. n : u = UpToNewline(n) /\ NoNL(taken + 1, taken + u - 1)
    BY <1>1, SearchStops DEF ReadlineInv
<1>3. /\ pc = "peek" /\ pc' = "readn" /\ nread' = n /\ asked' = u /\ nleft' = u
      /\ UNCHANGED <<stream, arrived, ended, taken, buf, lines, verdict>>
    BY <1>1, <1>2 DEF Peek, peer
<1>4. PICK b \in Int : b = Behind /\ b = Behind' /\ b = taken - Len(buf)
  <2>1. Behind \in Int /\ Behind = taken - Len(buf) /\ Behind' = Behind
    BY <1>0, <1>3 DEF Behind
  <2> QED
    BY <2>1
<1>5. TypeOK'
    BY <1>0, <1>1, <1>3 DEF TypeOK, ReadlineInv
<1>6. Buffered'
    BY <1>3, <1>4 DEF Buffered, InCall, ReadlineInv
<1>7. NoNL(b + 1, (taken + u) - 1)
  <2>1. NoNL(b + 1, taken)
    BY <1>3, <1>4 DEF NotYet, ReadlineInv
  <2> QED
    BY <1>0, <1>2, <2>1 DEF NoNL
<1>8. (NotYet /\ Peeked)'
  <2>1. Len(buf) + u \in 1 .. MAXLINE /\ taken + u <= arrived
    BY <1>0, <1>1
  <2> QED
    BY <1>3, <1>4, <1>7, <2>1 DEF NotYet, Peeked, NoNL
<1> QED
    BY <1>3, <1>4, <1>5, <1>6, <1>8 DEF ReadlineInv, Abstract!vars

\* One read of readn: the bytes go behind those in the buffer.
LEMMA ReadSteps ==
    ASSUME ReadlineInv, Read
    PROVE  ReadlineInv' /\ UNCHANGED Abstract!vars
<1>0. /\ stream \in Seq(Nat) /\ Len(stream) \in Nat
      /\ arrived \in Nat /\ arrived <= Len(stream)
      /\ taken \in Nat /\ taken <= arrived
      /\ Len(buf) \in Nat /\ MAXLINE \in Nat
    BY Numbers DEF ReadlineInv
<1>1. nleft \in Nat
    BY Numbers DEF ReadlineInv
<1>2. PICK k \in Nat :
         /\ k > 0 /\ k <= nleft /\ k <= arrived - taken
         /\ taken' = taken + k
         /\ nleft' = nleft - k
         /\ buf' = buf \o SubSeq(stream, taken + 1, taken + k)
    BY <1>0, <1>1 DEF Read, Lesser, Available
<1>3. /\ pc = "readn"
      /\ UNCHANGED <<stream, arrived, ended, pc, nread, asked, lines, verdict>>
    BY DEF Read, peer
<1>4. PICK b \in Nat : b = Behind /\ b = taken - Len(buf)
  <2>1. Behind = taken - Len(buf) /\ Behind >= 0
    BY <1>0, <1>3 DEF Behind, Buffered, InCall, ReadlineInv
  <2>2. Behind \in Nat
    BY <1>0, <2>1
  <2> QED
    BY <2>1, <2>2, Zenon
<1>5. b <= taken /\ buf = SubSeq(stream, b + 1, taken)
    BY <1>0, <1>3, <1>4 DEF Buffered, InCall, ReadlineInv
<1>6. /\ taken + nleft <= arrived /\ Len(buf) + nleft \in 1 .. MAXLINE
      /\ NoNL(b + 1, (taken + nleft) - 1)
    BY <1>3, <1>4 DEF Peeked, ReadlineInv
<1>7. /\ SubSeq(stream, b + 1, taken) \o SubSeq(stream, taken + 1, taken + k)
             = SubSeq(stream, b + 1, taken + k)
      /\ SubSeq(stream, b + 1, taken + k) \in Seq(Nat)
      /\ Len(SubSeq(stream, b + 1, taken + k)) = taken + k - b
  <2>1. PICK m \in Nat, t \in Nat : m = b + 1 /\ t = taken + k /\ t <= Len(stream) /\ m <= t
    BY <1>0, <1>2, <1>5
  <2>2. \A j \in m .. t : stream[j] \in Nat
    BY <1>0, <2>1
  <2>3. /\ SubSeq(stream, m, t) \in Seq(Nat)
        /\ Len(SubSeq(stream, m, t)) = t - m + 1
    BY <2>1, <2>2, SubSeqProperties
  <2>4. /\ m \in 1 .. Len(stream) + 1 /\ taken \in m - 1 .. Len(stream)
        /\ t \in taken .. Len(stream)
    <3>1. taken <= t /\ m - 1 <= taken /\ 1 <= m /\ m <= Len(stream) + 1
      BY <1>0, <1>2, <1>5, <2>1
    <3>2. taken <= Len(stream) /\ t <= Len(stream)
      BY <1>0, <2>1
    <3> QED
      BY <1>0, <3>1, <3>2
  <2>5. SubSeq(stream, m, taken) \o SubSeq(stream, taken + 1, t) = SubSeq(stream, m, t)
    BY <1>0, <2>4, ConcatAdjacentSubSeq
  <2>6. t - m + 1 = taken + k - b
    BY <1>0, <1>2, <2>1
  <2> QED
    BY <2>1, <2>3, <2>5, <2>6
<1>8. /\ buf' = SubSeq(stream, b + 1, taken')
      /\ buf' \in Seq(Nat) /\ Len(buf') = taken + k - b
    BY <1>2, <1>5, <1>7
<1>9. b = Behind'
    BY <1>0, <1>2, <1>3, <1>8 DEF Behind
<1>10. /\ taken' \in Nat /\ nleft' \in Nat /\ taken' + nleft' = taken + nleft
       /\ Len(buf') + nleft' = Len(buf) + nleft
    BY <1>0, <1>1, <1>2, <1>4, <1>8
<1>11. TypeOK'
  <2>1. Len(buf') <= MAXLINE /\ taken' \in 0 .. arrived /\ nleft' \in 0 .. asked
    BY <1>0, <1>1, <1>2, <1>4, <1>6, <1>8 DEF ReadlineInv, TypeOK
  <2> QED
    BY <1>3, <1>8, <2>1 DEF ReadlineInv, TypeOK
<1>12. (Buffered /\ NotYet)'
    BY <1>3, <1>8, <1>9 DEF Buffered, NotYet, InCall
<1>13. Peeked'
  <2>1. b + 1 .. (taken' + nleft') - 1 = b + 1 .. (taken + nleft) - 1
    BY <1>10, Zenon
  <2>2. NoNL(b + 1, (taken + nleft) - 1)'
    BY <1>3, <1>6, <1>10, <2>1, Zenon DEF NoNL
  <2> QED
    BY <1>3, <1>6, <1>9, <1>10, <2>2 DEF Peeked
<1> QED
    BY <1>3, <1>4, <1>9, <1>11, <1>12, <1>13 DEF ReadlineInv, Abstract!vars

----------------------------------------------------------------------------
(* What a call returns                                                     *)

\* readn has read what was peeked, never less.  A '\n' at its end is a line;
\* otherwise the buffer holds no '\n'.
LEMMA ReadnSteps ==
    ASSUME ReadlineInv, ReadnReturns
    PROVE  ReadlineInv' /\ (Abstract!Line \/ UNCHANGED Abstract!vars)
<1>0. /\ stream \in Seq(Nat) /\ Len(stream) \in Nat
      /\ arrived \in Nat /\ arrived <= Len(stream)
      /\ taken \in Nat /\ taken <= arrived /\ nleft \in Nat
      /\ Len(buf) \in Nat /\ MAXLINE \in Nat
    BY Numbers DEF ReadlineInv
<1>1. /\ pc = "readn" /\ verdict = "reading"
      /\ UNCHANGED <<stream, arrived, ended, taken, nread, asked, nleft, verdict>>
    BY DEF ReadnReturns, ReadlineInv, peer
<1>2. PICK b \in Nat : b = Behind /\ b = taken - Len(buf)
  <2>1. Behind = taken - Len(buf) /\ Behind >= 0
    BY <1>0, <1>1 DEF Behind, Buffered, InCall, ReadlineInv
  <2>2. Behind \in Nat
    BY <1>0, <2>1
  <2> QED
    BY <2>1, <2>2, Zenon
<1>3. nleft = 0
    BY <1>0, <1>1 DEF ReadnReturns, ReadnDone, Available, Peeked, ReadlineInv
<1>4. /\ Len(buf) \in 1 .. MAXLINE /\ NoNL(b + 1, taken - 1)
      /\ buf = SubSeq(stream, b + 1, taken)
    BY <1>0, <1>1, <1>2, <1>3 DEF Peeked, Buffered, InCall, NoNL, ReadlineInv
<1>5. b < taken /\ buf[Len(buf)] = stream[taken]
  <2>1. b < taken /\ taken - b \in 1 .. taken - (b + 1) + 1
    BY <1>0, <1>2, <1>4
  <2>2. \A j \in b + 1 .. taken : stream[j] \in Nat
    BY <1>0, <1>2
  <2>3. PICK m \in Nat, last \in Nat : m = b + 1 /\ last = taken - b
    <3>1. b + 1 \in Nat /\ taken - b \in Nat
      BY <1>0, <2>1
    <3> QED
      BY <3>1, Zenon
  <2>4. last \in 1 .. taken - m + 1 /\ m + last - 1 = taken /\ Len(buf) = last
    BY <1>0, <1>2, <2>1, <2>3
  <2>5. buf[last] = stream[m + last - 1]
    BY <1>0, <1>4, <2>2, <2>3, <2>4, SubSeqProperties
  <2> QED
    BY <2>1, <2>4, <2>5
<1>6. CASE stream[taken] = NL
  <2>1. lines' = Append(lines, buf) /\ pc' = "call" /\ buf' = << >>
    BY <1>3, <1>5, <1>6 DEF ReadnReturns, Deliver
  <2>2. Behind' = taken
    BY <1>1, <2>1 DEF Behind
  <2>3. TypeOK'
    BY <1>1, <2>1, MaxlineAssumption DEF TypeOK, ReadlineInv
  <2>4. ReadlineInv'
    BY <1>1, <2>1, <2>3 DEF ReadlineInv, Buffered, NotYet, Peeked, InCall
  <2>5. taken \in b + 1 .. arrived /\ taken - b <= MAXLINE
    BY <1>0, <1>2, <1>4, <1>5
  <2>6. Abstract!HasNoNL(b + 1, taken - 1)
    BY <1>4 DEF NoNL, Abstract!HasNoNL
  <2>7. Abstract!Line
    BY <1>1, <1>2, <1>4, <1>6, <2>1, <2>2, <2>5, <2>6 DEF Abstract!Line, Abstract!Reading
  <2> QED
    BY <2>4, <2>7
<1>7. CASE stream[taken] # NL
  <2>1. pc' = "peek" /\ UNCHANGED <<buf, lines>>
    BY <1>3, <1>5, <1>7 DEF ReadnReturns
  <2>2. b = Behind'
    BY <1>1, <1>2, <2>1 DEF Behind
  <2>3. TypeOK'
    BY <1>1, <2>1 DEF TypeOK, ReadlineInv
  <2>4. NoNL(b + 1, taken)'
    BY <1>0, <1>1, <1>2, <1>4, <1>7 DEF NoNL
  <2>5. ReadlineInv'
    BY <1>1, <1>4, <2>1, <2>2, <2>3, <2>4
    DEF ReadlineInv, Buffered, NotYet, Peeked, InCall
  <2> QED
    BY <1>1, <1>2, <2>1, <2>2, <2>5 DEF Abstract!vars
<1> QED
    BY <1>6, <1>7

\* readline returns 0 or -1: at the end of the stream, with no '\n' in the
\* buffer, or with a full buffer and more to read.
LEMMA StopSteps ==
    ASSUME ReadlineInv, ReturnZero \/ ReturnError
    PROVE  ReadlineInv' /\ (Abstract!Eof \/ Abstract!TooLong \/ Abstract!Failure)
<1>0. /\ arrived \in Nat /\ taken \in Nat /\ taken <= arrived
      /\ Len(buf) \in Nat /\ Len(buf) <= MAXLINE /\ MAXLINE \in Nat
    BY Numbers DEF ReadlineInv, TypeOK
<1>1. /\ pc = "peek" /\ verdict = "reading" /\ pc' = "done" /\ buf' = << >>
      /\ verdict' \in {"zero", "error"}
      /\ UNCHANGED <<stream, arrived, ended, taken, nread, asked, nleft, lines>>
    BY DEF ReturnZero, ReturnError, Stop, ReadlineInv, peer
<1>2. PICK b \in Nat : b = Behind /\ b = taken - Len(buf)
  <2>1. Behind = taken - Len(buf) /\ Behind >= 0
    BY <1>0, <1>1 DEF Behind, Buffered, InCall, ReadlineInv
  <2>2. Behind \in Nat
    BY <1>0, <2>1
  <2> QED
    BY <2>1, <2>2, Zenon
<1>3. Behind' = taken
    BY <1>1 DEF Behind
<1>4. TypeOK'
    BY <1>1, MaxlineAssumption DEF TypeOK, ReadlineInv
<1>5. ReadlineInv'
    BY <1>1, <1>4 DEF ReadlineInv, Buffered, NotYet, Peeked, InCall
<1>6. Abstract!HasNoNL(b + 1, taken)
    BY <1>1, <1>2 DEF NotYet, NoNL, Abstract!HasNoNL, ReadlineInv
<1>7. CASE Available = 0
  <2>1. taken = arrived /\ arrived - b <= MAXLINE
    BY <1>0, <1>2, <1>7 DEF Available
  <2>2. CASE ReturnZero
    <3>1. ended = "fin" /\ verdict' = "zero"
      BY <1>0, <1>7, <2>2 DEF ReturnZero, PeekNothing, Stop
    <3> QED
      BY <1>1, <1>2, <1>3, <1>5, <1>6, <2>1, <3>1 DEF Abstract!Eof, Abstract!Reading
  <2>3. CASE ReturnError
    <3>1. ended = "reset" /\ verdict' = "error"
      BY <2>3 DEF ReturnError, Stop
    <3> QED
      BY <1>1, <1>2, <1>3, <1>5, <1>6, <2>1, <3>1 DEF Abstract!Failure, Abstract!Reading
  <2> QED
    BY <2>2, <2>3
<1>8. CASE Available # 0
  <2>1. Available > 0 /\ RoomLeft = 0 /\ verdict' = "zero"
    BY <1>8 DEF ReturnZero, ReturnError, PeekNothing, Stop
  <2>2. taken = b + MAXLINE /\ arrived - b > MAXLINE
    BY <1>0, <1>2, <2>1 DEF Available, RoomLeft
  <2> QED
    BY <1>1, <1>2, <1>3, <1>5, <1>6, <2>1, <2>2 DEF Abstract!TooLong, Abstract!Reading
<1> QED
    BY <1>7, <1>8

----------------------------------------------------------------------------
\* Every step keeps the invariant, and is a step of LineReader or none.
LEMMA ReadlineSteps ==
    ASSUME ReadlineInv, [Next]_vars
    PROVE  ReadlineInv' /\ [Abstract!Next]_(Abstract!vars)
<1>1. CASE Next
    BY <1>1, PeerSteps, CallSteps, PeekSteps, ReadSteps, ReadnSteps, StopSteps
    DEF Next, Reader, Abstract!Next
<1>2. CASE UNCHANGED vars
  <2>1. TypeOK'
    BY <1>2 DEF vars, peer, TypeOK, ReadlineInv
  <2>2. (Buffered /\ NotYet /\ Peeked)'
    BY <1>2 DEF vars, peer, Buffered, NotYet, Peeked, NoNL, Behind, InCall, ReadlineInv
  <2>3. UNCHANGED Abstract!vars
    BY <1>2 DEF vars, peer, Behind, Abstract!vars
  <2> QED
    BY <1>2, <2>1, <2>2, <2>3 DEF vars, peer, ReadlineInv
<1> QED
    BY <1>1, <1>2

LEMMA ReadlineInvariant == Spec => []ReadlineInv
<1>1. ReadlineInv /\ [Next]_vars => ReadlineInv'
    BY ReadlineSteps
<1> QED
    BY <1>1, ReadlineInitially, PTL DEF Spec

\* readline's counts and its buffer stay within their bounds, whatever the
\* peer sends and however little a read takes.
THEOREM TypesCorrect == Spec => []TypeOK
<1>1. ReadlineInv => TypeOK
    BY DEF ReadlineInv
<1> QED
    BY <1>1, ReadlineInvariant, PTL

\* With one reader on the socket readline never calls exit(): what was peeked is
\* still there when it is read.
THEOREM NeverExits == Spec => [](pc # "exit")
<1>1. ReadlineInv => pc # "exit"
    BY DEF ReadlineInv
<1> QED
    BY <1>1, ReadlineInvariant, PTL

\* A call takes one line and not a byte more, for all streams and any maxline:
\* readline, with recv_peek and readn, implements LineReader.
THEOREM ReadlineReadsLines == Spec => ImplementsLineReader
<1>1. ReadlineInv /\ [Next]_vars => [Abstract!Next]_(Abstract!vars)
    BY ReadlineSteps
<1>2. Init => Abstract!Init
    BY ReadlineInitially
<1> QED
    BY <1>1, <1>2, ReadlineInvariant, PTL DEF Spec, ImplementsLineReader, Abstract!Spec

----------------------------------------------------------------------------
(* The calls with a timeout                                                *)

TimeoutsTypes ==
    /\ tpc \in {"idle", "select", "accept", "connecting", "getsockopt", "exit"}
    /\ call \in Calls
    /\ seconds \in Nat /\ left \in Nat /\ waited \in Nat
    /\ ret \in {"none", "ok", "error", "timeout"}
    /\ link \in {"none", "trying", "up", "refused", "done"}

\* select's timeval and the time waited make up the wait.
TimeKept == waited + left = seconds

\* Which call waits in accept, and which in a connect that blocks.
CallsKept == /\ tpc = "accept" => call = "accept"
             /\ tpc = "connecting" => seconds = 0

TimeoutsInv == TimeoutsTypes /\ TimeKept /\ CallsKept /\ ConnectedBlocks

----------------------------------------------------------------------------
\* At the start no call has been made.
LEMMA TimeoutsInitially == TimeoutsInit => TimeoutsInv
  BY DEF TimeoutsInit, TimeoutsInv, TimeoutsTypes, TimeKept, CallsKept, ConnectedBlocks, Calls

\* What connect_timeout does before it waits: it waits with the flag set or, in
\* connect, without, or returns; a socket it returns as connected blocks again.
LEMMA ConnectStarts ==
    ASSUME link \in {"none", "trying", "up", "refused", "done"},
           NEW s \in 0 .. MaxWait, ConnectTimeout(s)
    PROVE  /\ Begin("connect", s)
           /\ link' \in {"none", "trying", "up", "refused", "done"}
           /\ link' = "done" => link = "up"
           /\ \/ tpc' = "select" /\ ret' = "none" /\ nonblock'
              \/ tpc' = "connecting" /\ ret' = "none" /\ ~ nonblock' /\ ~ s > 0
              \/ tpc' = "idle" /\ ret' = "error"
              \/ tpc' = "idle" /\ ret' = "ok" /\ (s > 0 => ~ nonblock')
<1> USE DEF ConnectTimeout, FlagDuring, FlagAfter, Return
<1>1. CASE link = "none"
  <2>1. CASE tpc' = "idle" /\ ret' = "error" /\ link' = link
    BY <1>1, <2>1
  <2>2. CASE ~ (tpc' = "idle" /\ ret' = "error" /\ link' = link)
    <3>1. nonblock' = (nonblock \/ s > 0) /\ link' = "trying" /\ ret' = "none"
      BY <1>1, <2>2
    <3>2. tpc' = IF nonblock \/ s > 0 THEN "select" ELSE "connecting"
      BY <1>1, <2>2
    <3>3. Begin("connect", s)
      OBVIOUS
    <3>4. QED
      BY <3>1, <3>2, <3>3, Zenon
  <2>3. QED
    BY <2>1, <2>2
<1>2. CASE link = "trying" /\ ~ (nonblock \/ s > 0)
  <2>1. /\ tpc' = "connecting" /\ ret' = "none" /\ UNCHANGED <<link, nonblock>>
    BY <1>2
  <2>2. QED
    BY <1>2, <2>1
<1>3. CASE link = "trying" /\ (nonblock \/ s > 0)
  <2>1. tpc' = "idle" /\ ret' = "error" /\ link' = link
    BY <1>3
  <2>2. QED
    BY <1>3, <2>1
<1>4. CASE link = "up"
  <2>1. /\ tpc' = "idle" /\ ret' = "ok" /\ link' = "done"
        /\ nonblock' = IF s > 0 THEN FALSE ELSE nonblock \/ s > 0
    BY <1>4
  <2>2. s > 0 => ~ nonblock'
    BY <2>1, Zenon
  <2>3. QED
    BY <2>1, <2>2
<1>5. CASE link = "refused"
  <2>1. tpc' = "idle" /\ ret' = "error" /\ link' = "none"
    BY <1>5
  <2>2. QED
    BY <2>1
<1>6. QED
  BY <1>1, <1>2, <1>3, <1>4, <1>5

\* A call starts: what it returns at once, it returns with the flag cleared.
LEMMA StartKeeps ==
    ASSUME TimeoutsInv, NEW s \in 0 .. MaxWait,
           ReadTimeout(s) \/ AcceptTimeout(s) \/ ConnectTimeout(s)
    PROVE  TimeoutsInv'
<1> USE MaxWaitAssumption
    DEF TimeoutsInv, TimeoutsTypes, TimeKept, CallsKept, ConnectedBlocks, Calls,
        Begin, Return
<1>1. CASE ReadTimeout(s)
  BY <1>1 DEF ReadTimeout
<1>2. CASE AcceptTimeout(s)
  BY <1>2 DEF AcceptTimeout
<1>3. CASE ConnectTimeout(s)
  BY <1>3, ConnectStarts
<1>4. QED
  BY <1>1, <1>2, <1>3

\* The steps of the caller in a call.
LEMMA CallerKeeps ==
    ASSUME TimeoutsInv, Caller PROVE TimeoutsInv'
<1> USE DEF TimeoutsInv, TimeoutsTypes, TimeKept, CallsKept, ConnectedBlocks, Calls, Return
<1>1. CASE Connected
  BY <1>1 DEF Connected
<1>2. CASE SelectReady
  BY <1>2 DEF SelectReady
<1>3. CASE SelectTimesOut
  BY <1>3 DEF SelectTimesOut, TimeIsUp
<1>4. CASE Accept
  BY <1>4 DEF Accept
<1>5. CASE GetSockOpt
  BY <1>5 DEF GetSockOpt, SoError, FlagAfter
<1>6. QED
  BY <1>1, <1>2, <1>3, <1>4, <1>5 DEF Caller

\* Signals, failures, the peers and the clock.
LEMMA OthersKeep ==
    ASSUME TimeoutsInv,
           \/ ConnectInterrupted \/ Interrupted \/ SelectFails
           \/ Happens \/ Handshake \/ Second
    PROVE  TimeoutsInv'
<1> USE DEF TimeoutsInv, TimeoutsTypes, TimeKept, CallsKept, ConnectedBlocks, Calls, Return
<1>1. CASE Interrupted
  BY <1>1 DEF Interrupted, TimeLeft
<1>2. CASE SelectFails
  BY <1>2 DEF SelectFails
<1>3. CASE Happens
  BY <1>3 DEF Happens
<1>4. CASE Handshake
  BY <1>4 DEF Handshake
<1>5. CASE Second
  BY <1>5 DEF Second
<1>6. CASE ConnectInterrupted
  BY <1>6 DEF ConnectInterrupted
<1>7. QED
  BY <1>1, <1>2, <1>3, <1>4, <1>5, <1>6

\* So every step keeps the invariant, and it always holds.
LEMMA TimeoutsStep == TimeoutsInv /\ [TimeoutsNext]_timeoutsVars => TimeoutsInv'
<1> SUFFICES ASSUME TimeoutsInv, [TimeoutsNext]_timeoutsVars PROVE TimeoutsInv'
  OBVIOUS
<1>1. CASE Start
  BY <1>1, StartKeeps DEF Start
<1>2. CASE Caller
  BY <1>2, CallerKeeps
<1>3. CASE \/ ConnectInterrupted \/ Interrupted \/ SelectFails
           \/ Happens \/ Handshake \/ Second
  BY <1>3, OthersKeep
<1>4. CASE UNCHANGED timeoutsVars
  BY <1>4 DEF timeoutsVars, TimeoutsInv, TimeoutsTypes, TimeKept, CallsKept, ConnectedBlocks
<1>5. QED
  BY <1>1, <1>2, <1>3, <1>4 DEF TimeoutsNext

LEMMA TimeoutsCorrect == TimeoutsSpec => []TimeoutsInv
  BY TimeoutsInitially, TimeoutsStep, PTL DEF TimeoutsSpec

----------------------------------------------------------------------------
\* A call with a timeout waits no longer than that, however often select is
\* interrupted and called again.
THEOREM WaitsInTime == TimeoutsSpec => []WaitBounded
<1>1. TimeoutsInv => WaitBounded
  BY DEF TimeoutsInv, TimeoutsTypes, TimeKept, WaitBounded
<1>2. QED
  BY <1>1, TimeoutsCorrect, PTL

\* connect_timeout hands over a socket that blocks, also when an earlier call
\* on it timed out and left the flag.
THEOREM FlagRestored == TimeoutsSpec => []ConnectedBlocks
<1>1. TimeoutsInv => ConnectedBlocks
  BY DEF TimeoutsInv
<1>2. QED
  BY <1>1, TimeoutsCorrect, PTL

\* ETIMEDOUT is reported after the whole time, and not when the answer was there.
THEOREM TimeoutsHonest == TimeoutsSpec => TimeoutHonest
<1>1. TimeoutsInv /\ [TimeoutsNext]_timeoutsVars =>
          [tpc = "select" /\ tpc' = "idle" /\ ret' = "timeout" => waited = seconds /\ ~ Ready]_timeoutsVars
  <2> SUFFICES ASSUME TimeoutsInv, TimeoutsNext, tpc = "select", tpc' = "idle", ret' = "timeout"
               PROVE  waited = seconds /\ ~ Ready
    OBVIOUS
  <2>1. SelectTimesOut
    BY DEF TimeoutsNext, Start, Caller, ReadTimeout, AcceptTimeout, ConnectTimeout, Begin,
           Connected, ConnectInterrupted, SelectReady, Accept, GetSockOpt, Interrupted,
           SelectFails, Happens, Handshake, Second, Return, TimeoutsInv, TimeoutsTypes, Calls
  <2>2. QED
    BY <2>1 DEF SelectTimesOut, TimeIsUp, TimeoutsInv, TimeoutsTypes, TimeKept
<1>2. QED
  BY <1>1, TimeoutsCorrect, PTL DEF TimeoutsSpec, TimeoutHonest

\* A socket reported connected had completed its handshake: a refusal, which
\* makes the socket writable too, is told from it.
THEOREM RefusalsTold == TimeoutsSpec => RefusalReported
<1>1. TimeoutsInv /\ [TimeoutsNext]_timeoutsVars => [link # "done" /\ link' = "done" => link = "up"]_timeoutsVars
  <2> SUFFICES ASSUME TimeoutsInv, TimeoutsNext, link # "done", link' = "done" PROVE link = "up"
    OBVIOUS
  <2>1. CASE \E s \in 0 .. MaxWait : ConnectTimeout(s)
    BY <2>1, ConnectStarts DEF TimeoutsInv, TimeoutsTypes
  <2>2. CASE Connected \/ GetSockOpt
    BY <2>2 DEF Connected, GetSockOpt, SoError
  <2>3. QED
    BY <2>1, <2>2 DEF TimeoutsNext, Start, Caller, ReadTimeout, AcceptTimeout, SelectReady,
           SelectTimesOut, Accept, ConnectInterrupted, Interrupted, SelectFails, Happens, Handshake, Second
<1>2. QED
  BY <1>1, TimeoutsCorrect, PTL DEF TimeoutsSpec, RefusalReported

----------------------------------------------------------------------------
(* The UDP echo                                                            *)

Datagrams == UdpClients \X Nat

UdpTypes == /\ echoser \in {"recvfrom", "sendto", "down"}
            /\ echoser = "sendto" => /\ datagram \in Datagrams
                                     /\ peeraddr = datagram[1]
            /\ inbox \in Seq(Datagrams)
            /\ echocli \in [UdpClients -> {"fgets", "recvfrom", "refused", "ended"}]
            /\ lastLine \in [UdpClients -> Nat]
            /\ echoes \in [UdpClients -> Seq(Datagrams)]
            /\ answers \in [UdpClients -> Seq(Datagrams)]
            /\ interrupted \in [UdpClients -> BOOLEAN]

\* Datagram d was sent, and before e if both are one client's.
Sent(d) == d[2] \in 1 .. lastLine[d[1]]
Earlier(d, e) == d[1] = e[1] => d[2] < e[2]

Rising(s) == \A j, k \in 1 .. Len(s) : j < k => Earlier(s[j], s[k])

InServer == /\ \A k \in 1 .. Len(inbox) : Sent(inbox[k])
            /\ Rising(inbox)
            /\ echoser = "sendto" =>
                  /\ Sent(datagram)
                  /\ \A k \in 1 .. Len(inbox) : Earlier(datagram, inbox[k])

\* The datagrams of s are c's, and come before those that the server has.
FirstOf(c, s) ==
    \A j \in 1 .. Len(s) :
       /\ s[j][1] = c /\ Sent(s[j])
       /\ echoser = "sendto" => Earlier(s[j], datagram)
       /\ \A k \in 1 .. Len(inbox) : Earlier(s[j], inbox[k])

InClient == \A c \in UdpClients :
               /\ FirstOf(c, answers[c]) /\ Rising(answers[c])
               /\ FirstOf(c, echoes[c]) /\ Rising(echoes[c])
               /\ \A j \in 1 .. Len(answers[c]), k \in 1 .. Len(echoes[c]) :
                     Earlier(answers[c][j], echoes[c][k])

InStep == \A c \in UdpClients :
             ~ interrupted[c] => /\ lastLine[c] - Len(answers[c]) \in {0, 1}
                                 /\ echocli[c] = "fgets" => Len(answers[c]) = lastLine[c]
                                 /\ echocli[c] = "recvfrom" => Len(answers[c]) + 1 = lastLine[c]

UdpInv == UdpTypes /\ InServer /\ InClient /\ InStep

----------------------------------------------------------------------------
(* Queues of datagrams                                                     *)

\* What the head, the tail and an addition at the end do to an ordered queue.
LEMMA TailRises ==
    ASSUME NEW s \in Seq(Datagrams), s # << >>, Rising(s)
    PROVE  /\ Head(s) \in Datagrams /\ Head(s) = s[1] /\ Tail(s) \in Seq(Datagrams)
           /\ Len(Tail(s)) = Len(s) - 1
           /\ \A k \in 1 .. Len(Tail(s)) : Tail(s)[k] = s[k + 1]
           /\ Rising(Tail(s))
           /\ \A k \in 1 .. Len(Tail(s)) : Earlier(Head(s), Tail(s)[k])
<1>1. /\ Head(s) \in Datagrams /\ Head(s) = s[1] /\ Tail(s) \in Seq(Datagrams)
      /\ Len(Tail(s)) = Len(s) - 1
      /\ \A k \in 1 .. Len(Tail(s)) : Tail(s)[k] = s[k + 1]
  OBVIOUS
<1>2. QED
  BY <1>1 DEF Rising

LEMMA AppendRises ==
    ASSUME NEW s \in Seq(Datagrams), NEW d \in Datagrams, Rising(s),
           \A k \in 1 .. Len(s) : Earlier(s[k], d)
    PROVE  /\ Append(s, d) \in Seq(Datagrams)
           /\ Len(Append(s, d)) = Len(s) + 1
           /\ \A k \in 1 .. Len(s) : Append(s, d)[k] = s[k]
           /\ Append(s, d)[Len(s) + 1] = d
           /\ Rising(Append(s, d))
<1>1. /\ Append(s, d) \in Seq(Datagrams)
      /\ Len(Append(s, d)) = Len(s) + 1
      /\ \A k \in 1 .. Len(s) : Append(s, d)[k] = s[k]
      /\ Append(s, d)[Len(s) + 1] = d
  OBVIOUS
<1>2. QED
  BY <1>1 DEF Rising

----------------------------------------------------------------------------
\* At the start: nothing has been sent.
LEMMA UdpInitially == UdpInit => UdpInv
  BY DEF UdpInit, UdpInv, UdpTypes, InServer, InClient, InStep, FirstOf, Rising, Sent

\* The server takes the oldest datagram.
LEMMA RecvFromKeeps ==
    ASSUME UdpInv, RecvFrom PROVE UdpInv'
<1>1. /\ Head(inbox) \in Datagrams /\ Head(inbox) = inbox[1]
      /\ Tail(inbox) \in Seq(Datagrams) /\ Len(Tail(inbox)) = Len(inbox) - 1
      /\ \A k \in 1 .. Len(Tail(inbox)) : Tail(inbox)[k] = inbox[k + 1]
      /\ Rising(Tail(inbox))
      /\ \A k \in 1 .. Len(Tail(inbox)) : Earlier(Head(inbox), Tail(inbox)[k])
  BY TailRises DEF UdpInv, UdpTypes, InServer, RecvFrom
<1>2. 1 \in 1 .. Len(inbox)
  BY DEF UdpInv, UdpTypes, RecvFrom
<1>3. UdpTypes'
  BY <1>1 DEF UdpInv, UdpTypes, RecvFrom, Source, udpClients
<1>4. InServer'
  BY <1>1, <1>2 DEF UdpInv, InServer, RecvFrom, Sent, Rising, Earlier, udpClients
<1>5. InClient'
  <2>1. /\ inbox' = Tail(inbox) /\ datagram' = inbox[1]
        /\ UNCHANGED <<lastLine, answers, echoes>>
    BY <1>1 DEF RecvFrom, udpClients
  <2>2. ASSUME NEW c \in UdpClients, NEW s, FirstOf(c, s),
               NEW j \in 1 .. Len(s)
        PROVE  /\ s[j][1] = c /\ Sent(s[j])'
               /\ Earlier(s[j], inbox[1])
               /\ \A k \in 1 .. Len(Tail(inbox)) : Earlier(s[j], Tail(inbox)[k])
    <3>1. \A k \in 1 .. Len(Tail(inbox)) : k + 1 \in 1 .. Len(inbox)
      BY <1>1 DEF UdpInv, UdpTypes
    <3>2. QED
      BY <1>1, <1>2, <2>1, <2>2, <3>1 DEF FirstOf, Sent
  <2>3. ASSUME NEW c \in UdpClients
        PROVE  FirstOf(c, answers[c])' /\ FirstOf(c, echoes[c])'
    <3>1. FirstOf(c, answers[c]) /\ FirstOf(c, echoes[c])
      BY DEF UdpInv, InClient
    <3>2. FirstOf(c, answers[c])'
      <4>1. \A j \in 1 .. Len(answers[c]) :
               /\ answers[c][j][1] = c /\ Sent(answers[c][j])
               /\ Earlier(answers[c][j], inbox[1])
               /\ \A k \in 1 .. Len(Tail(inbox)) : Earlier(answers[c][j], Tail(inbox)[k])
        BY <2>2, <3>1 DEF FirstOf
      <4>2. QED
        BY <2>1, <4>1 DEF FirstOf, Earlier, Sent
    <3>3. FirstOf(c, echoes[c])'
      <4>1. \A j \in 1 .. Len(echoes[c]) :
               /\ echoes[c][j][1] = c /\ Sent(echoes[c][j])
               /\ Earlier(echoes[c][j], inbox[1])
               /\ \A k \in 1 .. Len(Tail(inbox)) : Earlier(echoes[c][j], Tail(inbox)[k])
        BY <2>2, <3>1 DEF FirstOf
      <4>2. QED
        BY <2>1, <4>1 DEF FirstOf, Earlier, Sent
    <3>4. QED
      BY <3>2, <3>3
  <2>4. QED
    BY <2>1, <2>3 DEF UdpInv, InClient, Rising
<1>6. InStep'
  BY DEF UdpInv, InStep, RecvFrom, udpClients
<1>7. QED
  BY <1>3, <1>4, <1>5, <1>6 DEF UdpInv

\* The echo goes to the client that sent the datagram, or is lost.
LEMMA SendToKeeps ==
    ASSUME UdpInv, SendTo PROVE UdpInv'
<1> DEFINE c == datagram[1]
<1>1. /\ datagram \in Datagrams /\ c \in UdpClients /\ peeraddr = c
      /\ echoes[c] \in Seq(Datagrams) /\ Rising(echoes[c])
      /\ \A k \in 1 .. Len(echoes[c]) : Earlier(echoes[c][k], datagram)
  BY DEF UdpInv, UdpTypes, InClient, FirstOf, SendTo, Datagrams
<1> DEFINE longer == Append(echoes[c], datagram)
<1>2. /\ longer \in Seq(Datagrams) /\ Len(longer) = Len(echoes[c]) + 1
      /\ \A k \in 1 .. Len(echoes[c]) : longer[k] = echoes[c][k]
      /\ longer[Len(echoes[c]) + 1] = datagram
      /\ Rising(longer)
  BY <1>1, AppendRises
<1>3. echoes' = [echoes EXCEPT ![c] = longer] \/ UNCHANGED echoes
  BY <1>1 DEF SendTo
<1> HIDE DEF longer
<1>4. UdpTypes'
  <2>1. echoes \in [UdpClients -> Seq(Datagrams)]
    BY DEF UdpInv, UdpTypes
  <2>2. echoes' \in [UdpClients -> Seq(Datagrams)]
    BY <1>1, <1>2, <1>3, <2>1
  <2>3. echoser' = "recvfrom" /\ UNCHANGED <<inbox, echocli, lastLine, answers, interrupted>>
    BY DEF SendTo, udpClients
  <2>4. QED
    BY <2>2, <2>3 DEF UdpInv, UdpTypes
<1>5. InServer'
  BY DEF UdpInv, InServer, SendTo, Sent, Rising, udpClients
<1>6. InClient'
  <2>1. \A b \in UdpClients : FirstOf(b, answers[b])' /\ Rising(answers[b])'
    BY DEF UdpInv, InClient, SendTo, Sent, Rising, FirstOf, udpClients
  <2>2. ASSUME NEW b \in UdpClients
        PROVE  /\ FirstOf(b, echoes[b])' /\ Rising(echoes[b])'
               /\ \A j \in 1 .. Len(answers[b]'), k \in 1 .. Len(echoes[b]') :
                     Earlier(answers[b]'[j], echoes[b]'[k])
    <3>1. CASE echoes[b]' = echoes[b]
      BY <3>1 DEF UdpInv, InClient, SendTo, Sent, Rising, FirstOf, udpClients
    <3>2. CASE b = c /\ echoes[b]' = longer
      <4>1. Len(echoes[b]) \in Nat
        BY <1>1, <3>2
      <4>2. \A k \in 1 .. Len(longer) :
               \/ longer[k] = datagram
               \/ \E j \in 1 .. Len(echoes[b]) : longer[k] = echoes[b][j]
        BY <1>2, <3>2, <4>1
      <4>3. FirstOf(b, echoes[b])'
        <5>1. /\ datagram[1] = b /\ Sent(datagram)
              /\ \A m \in 1 .. Len(inbox) : Earlier(datagram, inbox[m])
          BY <3>2 DEF UdpInv, InServer, SendTo
        <5>2. \A j \in 1 .. Len(echoes[b]) :
                 /\ echoes[b][j][1] = b /\ Sent(echoes[b][j])
                 /\ \A m \in 1 .. Len(inbox) : Earlier(echoes[b][j], inbox[m])
          BY DEF UdpInv, InClient, FirstOf
        <5>3. \A k \in 1 .. Len(longer) :
                 /\ longer[k][1] = b /\ Sent(longer[k])
                 /\ \A m \in 1 .. Len(inbox) : Earlier(longer[k], inbox[m])
          <6>1. SUFFICES ASSUME NEW k \in 1 .. Len(longer)
                         PROVE  /\ longer[k][1] = b /\ Sent(longer[k])
                                /\ \A m \in 1 .. Len(inbox) : Earlier(longer[k], inbox[m])
            OBVIOUS
          <6>2. CASE longer[k] = datagram
            BY <5>1, <6>2
          <6>3. CASE \E j \in 1 .. Len(echoes[b]) : longer[k] = echoes[b][j]
            BY <5>2, <6>3
          <6>4. QED
            BY <4>2, <6>2, <6>3
        <5>4. echoser' = "recvfrom" /\ UNCHANGED <<inbox, lastLine>>
          BY DEF SendTo, udpClients
        <5>5. QED
          BY <3>2, <5>3, <5>4 DEF FirstOf, Sent
      <4>4. \A j \in 1 .. Len(answers[b]'), k \in 1 .. Len(echoes[b]') :
               Earlier(answers[b]'[j], echoes[b]'[k])
        BY <3>2, <4>2 DEF UdpInv, InClient, SendTo, FirstOf, udpClients
      <4>5. QED
        BY <1>2, <3>2, <4>3, <4>4 DEF Rising
    <3>3. QED
      BY <1>3, <3>1, <3>2 DEF UdpInv, UdpTypes
  <2>3. QED
    BY <2>1, <2>2 DEF InClient
<1>7. InStep'
  BY DEF UdpInv, InStep, SendTo, udpClients
<1>8. QED
  BY <1>4, <1>5, <1>6, <1>7 DEF UdpInv

\* The server ends with what it has, and starts again with nothing.
LEMMA RestartsKeep ==
    ASSUME UdpInv, Crash \/ Restart PROVE UdpInv'
<1>1. CASE Crash
  <2>1. UdpTypes'
    BY <1>1 DEF Crash, UdpInv, UdpTypes, udpClients
  <2>2. InServer'
    BY <1>1 DEF Crash, InServer, Rising
  <2>3. InClient'
    BY <1>1 DEF Crash, UdpInv, InClient, FirstOf, Rising, Sent, udpClients
  <2>4. InStep'
    BY <1>1 DEF Crash, UdpInv, InStep, udpClients
  <2>5. QED
    BY <2>1, <2>2, <2>3, <2>4 DEF UdpInv
<1>2. CASE Restart
  BY <1>2 DEF Restart, UdpInv, UdpTypes, InServer, InClient, InStep, FirstOf, Rising, Sent, udpClients, network
<1>3. QED
  BY <1>1, <1>2

\* A client sends its next line: it comes after all before it.
LEMMA SendKeeps ==
    ASSUME UdpInv, NEW c \in UdpClients, Send(c) PROVE UdpInv'
<1>1. PICK d \in Datagrams : /\ d = <<c, lastLine[c] + 1>>
                             /\ d[1] = c /\ d[2] = lastLine[c] + 1 /\ lastLine[c] \in Nat
  <2>1. lastLine[c] \in Nat
    BY DEF UdpInv, UdpTypes
  <2>2. <<c, lastLine[c] + 1>> \in Datagrams
    BY <2>1 DEF Datagrams
  <2>3. WITNESS <<c, lastLine[c] + 1>> \in Datagrams
  <2>4. QED
    BY <2>1
<1>2. inbox' = Append(inbox, d) \/ inbox' = inbox
  BY <1>1 DEF Send, Arrives, IsLost
<1>3. /\ UNCHANGED <<echoser, peeraddr, datagram, answers, interrupted, echoes>>
      /\ lastLine' = [lastLine EXCEPT ![c] = @ + 1]
      /\ echocli[c] = "fgets"
      /\ echocli' = [echocli EXCEPT ![c] = "recvfrom"] \/ echocli' = [echocli EXCEPT ![c] = "refused"]
  BY DEF Send, Refusal, udpServer
<1>4. \A e \in Datagrams : Sent(e) => Earlier(e, d) /\ Sent(e)'
  <2> SUFFICES ASSUME NEW e \in Datagrams, Sent(e) PROVE Earlier(e, d) /\ Sent(e)'
    OBVIOUS
  <2>1. e[1] \in UdpClients /\ e[2] \in Nat /\ lastLine[e[1]] \in Nat
    BY DEF Datagrams, UdpInv, UdpTypes
  <2>2. e[2] \in 1 .. lastLine[e[1]]
    BY DEF Sent
  <2>3. lastLine'[e[1]] \in Nat /\ lastLine'[e[1]] >= lastLine[e[1]]
    BY <1>3, <2>1 DEF UdpInv, UdpTypes
  <2>4. Sent(e)'
    BY <2>1, <2>2, <2>3 DEF Sent
  <2>5. Earlier(e, d)
    BY <1>1, <2>1, <2>2 DEF Earlier
  <2>6. QED
    BY <2>4, <2>5
<1>5. Sent(d)'
  <2>1. lastLine'[c] = lastLine[c] + 1
    BY <1>3 DEF UdpInv, UdpTypes
  <2>2. QED
    BY <1>1, <2>1 DEF Sent
<1>6. /\ inbox' \in Seq(Datagrams) /\ Rising(inbox)'
      /\ \A k \in 1 .. Len(inbox') : inbox'[k] = d \/ \E j \in 1 .. Len(inbox) : inbox'[k] = inbox[j]
  <2>1. inbox \in Seq(Datagrams) /\ Rising(inbox) /\ \A k \in 1 .. Len(inbox) : Earlier(inbox[k], d)
    BY <1>4 DEF UdpInv, UdpTypes, InServer
  <2>2. CASE inbox' = inbox
    BY <2>1, <2>2 DEF Rising
  <2>3. CASE inbox' = Append(inbox, d)
    <3> DEFINE longer == Append(inbox, d)
    <3>1. /\ longer \in Seq(Datagrams) /\ Len(longer) = Len(inbox) + 1
          /\ \A k \in 1 .. Len(inbox) : longer[k] = inbox[k]
          /\ longer[Len(inbox) + 1] = d
          /\ Rising(longer)
      BY <1>1, <2>1, AppendRises
    <3>2. inbox' = longer
      BY <2>3
    <3> HIDE DEF longer
    <3>3. Len(inbox) \in Nat
      BY <2>1
    <3>4. QED
      BY <3>1, <3>2, <3>3 DEF Rising
  <2>4. QED
    BY <1>2, <2>2, <2>3
<1>7. echoser = "sendto" => Earlier(datagram, d) /\ Sent(datagram)'
  BY <1>3, <1>4 DEF UdpInv, UdpTypes, InServer, Sent
<1>8. UdpTypes'
  <2>1. lastLine' \in [UdpClients -> Nat]
    BY <1>1, <1>3 DEF UdpInv, UdpTypes
  <2>2. echocli' \in [UdpClients -> {"fgets", "recvfrom", "refused", "ended"}]
    BY <1>3 DEF UdpInv, UdpTypes
  <2>3. QED
    BY <1>3, <1>6, <2>1, <2>2 DEF UdpInv, UdpTypes
<1>9. InServer'
  <2>1. \A k \in 1 .. Len(inbox') : Sent(inbox[k])'
    <3>1. \A j \in 1 .. Len(inbox) : inbox[j] \in Datagrams /\ Sent(inbox[j])
      BY DEF UdpInv, UdpTypes, InServer
    <3>2. QED
      BY <1>4, <1>5, <1>6, <3>1 DEF Sent
  <2>2. echoser = "sendto" => \A k \in 1 .. Len(inbox') : Earlier(datagram, inbox'[k])
    BY <1>6, <1>7 DEF UdpInv, InServer
  <2>3. QED
    BY <1>3, <1>6, <1>7, <2>1, <2>2 DEF InServer, Sent, Earlier
<1>10. InClient'
  <2>1. ASSUME NEW b \in UdpClients, NEW s \in Seq(Datagrams), FirstOf(b, s)
        PROVE  /\ \A j \in 1 .. Len(s) : s[j][1] = b /\ s[j][2] \in 1 .. lastLine'[s[j][1]]
               /\ \A j \in 1 .. Len(s) : echoser = "sendto" => Earlier(s[j], datagram)
               /\ \A j \in 1 .. Len(s), k \in 1 .. Len(inbox') : Earlier(s[j], inbox'[k])
    <3>1. \A j \in 1 .. Len(s) : s[j] \in Datagrams
      OBVIOUS
    <3>2. \A j \in 1 .. Len(s) : /\ s[j][1] = b /\ s[j][2] \in 1 .. lastLine'[s[j][1]]
                                 /\ Earlier(s[j], d)
      BY <1>4, <2>1, <3>1 DEF FirstOf, Sent
    <3>3. QED
      BY <1>6, <2>1, <3>2 DEF FirstOf
  <2>2. ASSUME NEW b \in UdpClients
        PROVE  FirstOf(b, answers[b])' /\ FirstOf(b, echoes[b])'
    <3>1. /\ answers[b] \in Seq(Datagrams) /\ FirstOf(b, answers[b])
          /\ echoes[b] \in Seq(Datagrams) /\ FirstOf(b, echoes[b])
      BY DEF UdpInv, UdpTypes, InClient
    <3>2. UNCHANGED <<echoser, datagram, answers[b], echoes[b]>>
      BY <1>3
    <3>3. FirstOf(b, answers[b])'
      BY <2>1, <3>1, <3>2 DEF FirstOf, Sent
    <3>4. FirstOf(b, echoes[b])'
      BY <2>1, <3>1, <3>2 DEF FirstOf, Sent
    <3>5. QED
      BY <3>3, <3>4
  <2>3. QED
    BY <1>3, <2>2 DEF UdpInv, InClient, Rising, Earlier
<1>11. InStep'
  BY <1>3 DEF UdpInv, UdpTypes, InStep
<1>12. QED
  BY <1>8, <1>9, <1>10, <1>11 DEF UdpInv

\* A client prints the oldest echo it has.
LEMMA PrintKeeps ==
    ASSUME UdpInv, NEW c \in UdpClients, PrintEcho(c) PROVE UdpInv'
<1> DEFINE e == Head(echoes[c])
           rest == Tail(echoes[c])
           more == Append(answers[c], e)
<1>1. /\ echoes[c] \in Seq(Datagrams) /\ answers[c] \in Seq(Datagrams)
      /\ echoes[c] # << >> /\ Rising(echoes[c]) /\ Rising(answers[c])
  BY DEF UdpInv, UdpTypes, InClient, PrintEcho
<1>2. /\ e \in Datagrams /\ e = echoes[c][1] /\ rest \in Seq(Datagrams)
      /\ Len(rest) = Len(echoes[c]) - 1
      /\ \A k \in 1 .. Len(rest) : rest[k] = echoes[c][k + 1]
      /\ Rising(rest)
      /\ \A k \in 1 .. Len(rest) : Earlier(e, rest[k])
  BY <1>1, TailRises
<1>3. 1 \in 1 .. Len(echoes[c])
  BY <1>1
<1>4. \A k \in 1 .. Len(answers[c]) : Earlier(answers[c][k], e)
  BY <1>2, <1>3 DEF UdpInv, InClient
<1> HIDE DEF e, rest
<1>5. /\ more \in Seq(Datagrams) /\ Len(more) = Len(answers[c]) + 1
      /\ \A k \in 1 .. Len(answers[c]) : more[k] = answers[c][k]
      /\ more[Len(answers[c]) + 1] = e
      /\ Rising(more)
  BY <1>1, <1>2, <1>4, AppendRises
<1>6. /\ UNCHANGED <<echoser, peeraddr, datagram, inbox, lastLine, interrupted>>
      /\ answers' = [answers EXCEPT ![c] = more]
      /\ echoes' = [echoes EXCEPT ![c] = rest]
      /\ echocli[c] = "recvfrom"
      /\ echocli' = [echocli EXCEPT ![c] = "fgets"]
  BY DEF PrintEcho, udpServer, e, rest
<1> HIDE DEF more
<1>7. UdpTypes'
  BY <1>2, <1>5, <1>6 DEF UdpInv, UdpTypes
<1>8. InServer'
  BY <1>6 DEF UdpInv, InServer, Sent, Rising
<1>9. InClient'
  <2>1. \A k \in 1 .. Len(rest) : \E j \in 1 .. Len(echoes[c]) : rest[k] = echoes[c][j]
    <3> SUFFICES ASSUME NEW k \in 1 .. Len(rest)
                 PROVE  \E j \in 1 .. Len(echoes[c]) : rest[k] = echoes[c][j]
      OBVIOUS
    <3>1. Len(echoes[c]) \in Nat /\ Len(rest) = Len(echoes[c]) - 1
      BY <1>1, <1>2
    <3>2. k + 1 \in 1 .. Len(echoes[c])
      BY <3>1
    <3>3. QED
      BY <1>2, <3>2
  <2>2. \A k \in 1 .. Len(more) : more[k] = e \/ \E j \in 1 .. Len(answers[c]) : more[k] = answers[c][j]
    BY <1>1, <1>5
  <2>3. FirstOf(c, rest) /\ FirstOf(c, more)
    <3> DEFINE First(d) == /\ d[1] = c /\ Sent(d)
                           /\ echoser = "sendto" => Earlier(d, datagram)
                           /\ \A k \in 1 .. Len(inbox) : Earlier(d, inbox[k])
    <3>1. /\ \A j \in 1 .. Len(echoes[c]) : First(echoes[c][j])
          /\ \A j \in 1 .. Len(answers[c]) : First(answers[c][j])
      BY DEF UdpInv, InClient, FirstOf
    <3>2. First(e)
      BY <1>2, <1>3, <3>1
    <3> HIDE DEF First
    <3>3. /\ \A j \in 1 .. Len(rest) : First(rest[j])
          /\ \A j \in 1 .. Len(more) : First(more[j])
      BY <2>1, <2>2, <3>1, <3>2
    <3>4. QED
      BY <3>3 DEF First, FirstOf
  <2>4. \A j \in 1 .. Len(more), k \in 1 .. Len(rest) : Earlier(more[j], rest[k])
    BY <1>2, <2>1, <2>2 DEF UdpInv, InClient
  <2>5. \A b \in UdpClients :
           /\ FirstOf(b, answers'[b]) /\ Rising(answers'[b])
           /\ FirstOf(b, echoes'[b]) /\ Rising(echoes'[b])
           /\ \A j \in 1 .. Len(answers'[b]), k \in 1 .. Len(echoes'[b]) :
                 Earlier(answers'[b][j], echoes'[b][k])
    BY <1>2, <1>5, <1>6, <2>3, <2>4 DEF UdpInv, UdpTypes, InClient
  <2>6. QED
    BY <1>6, <2>5 DEF InClient, FirstOf, Rising, Sent
<1>10. InStep'
  BY <1>1, <1>5, <1>6 DEF UdpInv, UdpTypes, InStep
<1>11. QED
  BY <1>7, <1>8, <1>9, <1>10 DEF UdpInv

\* A refusal, an interrupt and the end of a client touch no datagram.
LEMMA UdpOthersKeep ==
    ASSUME UdpInv, NEW c \in UdpClients, Refused(c) \/ Eintr(c) \/ UdpLeave(c)
    PROVE  UdpInv'
<1>1. /\ UNCHANGED <<echoser, peeraddr, datagram, inbox, lastLine, answers, echoes>>
      /\ \/ echocli' = [echocli EXCEPT ![c] = "ended"] /\ UNCHANGED interrupted
         \/ /\ echocli' = [echocli EXCEPT ![c] = "fgets"]
            /\ interrupted' = [interrupted EXCEPT ![c] = TRUE]
  BY DEF Refused, Eintr, UdpLeave, udpServer, network
<1>2. UdpTypes'
  BY <1>1 DEF UdpInv, UdpTypes
<1>3. InServer' /\ InClient'
  BY <1>1 DEF UdpInv, InServer, InClient, FirstOf, Rising, Sent
<1>4. InStep'
  BY <1>1 DEF UdpInv, UdpTypes, InStep
<1>5. QED
  BY <1>2, <1>3, <1>4 DEF UdpInv

\* What a user of the UDP clients may rely on, whatever the network and the
\* server do: the printed echoes are those of the lines typed, in order and,
\* without an interrupt, in step.
THEOREM EchoesCorrect == UdpSpec => []EchoesInStep
<1>1. UdpInit => UdpInv
  BY UdpInitially
<1>2. UdpInv /\ [UdpNext]_udpVars => UdpInv'
  <2> SUFFICES ASSUME UdpInv, [UdpNext]_udpVars PROVE UdpInv'
    OBVIOUS
  <2>1. CASE UdpServer \/ Crash \/ Restart
    BY <2>1, RecvFromKeeps, SendToKeeps, RestartsKeep DEF UdpServer
  <2>2. ASSUME NEW c \in UdpClients, Send(c) \/ UdpClient(c) \/ Eintr(c) \/ UdpLeave(c)
        PROVE  UdpInv'
    BY <2>2, SendKeeps, PrintKeeps, UdpOthersKeep DEF UdpClient
  <2>3. CASE UNCHANGED udpVars
    BY <2>3 DEF udpVars, udpServer, udpClients, network, UdpInv, UdpTypes, InServer,
                InClient, InStep, FirstOf, Rising, Sent
  <2>4. QED
    BY <2>1, <2>2, <2>3 DEF UdpNext
<1>3. UdpInv => EchoesInStep
  <2> SUFFICES ASSUME UdpInv, NEW c \in UdpClients
               PROVE  /\ \A k \in 1 .. Len(answers[c]) :
                            /\ answers[c][k] \in {c} \X (1 .. lastLine[c])
                            /\ k > 1 => answers[c][k - 1][2] < answers[c][k][2]
                      /\ ~ interrupted[c] =>
                            /\ lastLine[c] - Len(answers[c]) \in {0, 1}
                            /\ echocli[c] = "fgets" => Len(answers[c]) = lastLine[c]
    BY DEF EchoesInStep
  <2>1. ASSUME NEW k \in 1 .. Len(answers[c])
        PROVE  answers[c][k] \in {c} \X (1 .. lastLine[c])
    <3>1. answers[c][k] \in Datagrams /\ answers[c][k][1] = c /\ answers[c][k][2] \in 1 .. lastLine[c]
      BY DEF UdpInv, UdpTypes, InClient, FirstOf, Sent
    <3>2. QED
      BY <3>1 DEF Datagrams
  <2>2. ASSUME NEW k \in 1 .. Len(answers[c]), k > 1
        PROVE  answers[c][k - 1][2] < answers[c][k][2]
    <3>1. Len(answers[c]) \in Nat
      BY DEF UdpInv, UdpTypes
    <3>2. k - 1 \in 1 .. Len(answers[c]) /\ k - 1 < k
      BY <2>2, <3>1
    <3>3. Earlier(answers[c][k - 1], answers[c][k])
      BY <3>2 DEF UdpInv, InClient, Rising
    <3>4. QED
      BY <2>1, <3>2, <3>3 DEF Earlier, UdpInv, InClient, FirstOf
  <2>3. QED
    BY <2>1, <2>2 DEF UdpInv, InStep
<1>4. QED
  BY <1>1, <1>2, <1>3, PTL DEF UdpSpec

----------------------------------------------------------------------------
(* The chat                                                                *)

\* What one side sends is one stream: message after message, each of MESSAGE
\* bytes.  Position p of it, from 0, is a byte of a line's text, or a NUL.
LineOf(p) == (p \div MESSAGE) + 1
ColumnOf(p) == (p % MESSAGE) + 1
IsText(s, p) == ColumnOf(p) <= Len(Texts[s][LineOf(p)])
ByteAt(s, p) == IF IsText(s, p) THEN Texts[s][LineOf(p)][ColumnOf(p)] ELSE NUL

\* These bytes are the part of the stream of s that starts at p.
Carries(s, bytes, p) == \A k \in 1 .. Len(bytes) : bytes[k] = ByteAt(s, (p + k) - 1)

\* The first p bytes of o's stream have been read by s.  Those behind them are
\* on their way and, while s may get more, in o's hand.
OnTheWay(s, o, p) ==
    LET n == Len(wire[s]) IN
    /\ Carries(o, wire[s], p)
    /\ p + n <= MESSAGE * typed[o]
    /\ told[o] = "up" /\ sender[o] = "fgets" => p + n = MESSAGE * typed[o]
    /\ told[o] = "up" /\ sender[o] = "write" =>
          /\ Carries(o, sendbuf[o], p + n)
          /\ (p + n) + Len(sendbuf[o]) = MESSAGE * typed[o]

\* What s has shown are bytes of text among the first p; all of them if each
\* read has taken a message.
FullReads(s) == \A k \in 1 .. Len(reads[s]) : reads[s][k] = MESSAGE
ShowsBytes(s, o, p) ==
    \E d \in [1 .. Len(shown[s]) -> Nat] :
       /\ \A k \in DOMAIN d : d[k] < p /\ IsText(o, d[k]) /\ shown[s][k] = ByteAt(o, d[k])
       /\ \A j, k \in DOMAIN d : j < k => d[j] < d[k]
       /\ FullReads(s) => /\ p = MESSAGE * Len(reads[s])
                          /\ \A q \in Nat : q < p /\ IsText(o, q) => \E k \in DOMAIN d : d[k] = q

ChatTypes ==
    /\ sender \in [Sides -> {"fgets", "write", "ended"}]
    /\ sendbuf \in [Sides -> Seq(Nat)]
    /\ typed \in [Sides -> Nat]
    /\ \A s \in Sides : typed[s] <= Len(Texts[s])
    /\ receiver \in [Sides -> {"read", "kill", "close", "ended", "dead"}]
    /\ shown \in [Sides -> Seq(Int)]
    /\ reads \in [Sides -> Seq(Nat)]
    /\ wire \in [Sides -> Seq(Nat)]
    /\ told \in [Sides -> {"up", "fin", "reset"}]

Follows(s, o) == \E p \in Nat : OnTheWay(s, o, p) /\ ShowsBytes(s, o, p)

ChatInv == ChatTypes /\ \A s \in Sides : Follows(s, Other(s))

----------------------------------------------------------------------------
(* Positions in the stream                                                 *)

\* Messages do not overlap.
LEMMA Multiples ==
    ASSUME NEW a \in Nat, NEW b \in Nat, a < b
    PROVE  MESSAGE * a + MESSAGE <= MESSAGE * b
<1>1. PICK c \in Nat : b = (a + 1) + c
  <2>1. (b - a) - 1 \in Nat /\ b = (a + 1) + ((b - a) - 1)
    OBVIOUS
  <2> QED
    BY <2>1
<1>2. MESSAGE * b = (MESSAGE * a + MESSAGE) + MESSAGE * c
  BY <1>1, ChatAssumption
<1>3. MESSAGE * c >= 0 /\ MESSAGE * c \in Nat /\ MESSAGE * a \in Nat
  BY ChatAssumption
<1> QED
  BY <1>2, <1>3, ChatAssumption

\* The message and the place in it of a position.
LEMMA Division ==
    ASSUME NEW p \in Nat
    PROVE  /\ LineOf(p) \in Nat /\ LineOf(p) >= 1
           /\ ColumnOf(p) \in 1 .. MESSAGE
           /\ p = (MESSAGE * (LineOf(p) - 1) + ColumnOf(p)) - 1
BY ChatAssumption DEF LineOf, ColumnOf

LEMMA PlaceOf ==
    ASSUME NEW p \in Nat
    PROVE  \E m \in Nat, j \in 1 .. MESSAGE :
              LineOf(p) = m + 1 /\ ColumnOf(p) = j /\ p = (MESSAGE * m + j) - 1
<1>1. PICK m \in Nat : m = LineOf(p) - 1
  BY Division
<1>2. PICK j \in 1 .. MESSAGE : j = ColumnOf(p)
  BY Division
<1>3. LineOf(p) = m + 1 /\ p = (MESSAGE * m + j) - 1
  BY <1>1, <1>2, Division
<1> QED
  BY <1>2, <1>3

\* And the other way round.
LEMMA Placed ==
    ASSUME NEW m \in Nat, NEW j \in 1 .. MESSAGE, NEW p \in Nat,
           p = (MESSAGE * m + j) - 1
    PROVE  LineOf(p) = m + 1 /\ ColumnOf(p) = j
<1>1. PICK a \in Nat : a = LineOf(p) - 1
  BY Division
<1>2. PICK b \in 1 .. MESSAGE : b = ColumnOf(p)
  BY Division
<1>3. p = (MESSAGE * a + b) - 1
  BY <1>1, <1>2, Division
<1>4. MESSAGE * a \in Nat /\ MESSAGE * m \in Nat /\ MESSAGE \in Nat
  BY ChatAssumption
<1>5. CASE a < m
  BY <1>3, <1>4, <1>5, Multiples
<1>6. CASE m < a
  BY <1>3, <1>4, <1>6, Multiples
<1>7. CASE a = m
  <2>1. b = j
    BY <1>3, <1>4, <1>7
  <2> QED
    BY <1>1, <1>2, <1>7, <2>1, Division
<1> QED
  BY <1>5, <1>6, <1>7

\* The positions of the first t messages.
LEMMA InFirst ==
    ASSUME NEW p \in Nat, NEW t \in Nat
    PROVE  p < MESSAGE * t <=> LineOf(p) <= t
<1>1. PICK a \in Nat, b \in 1 .. MESSAGE :
          a + 1 = LineOf(p) /\ b = ColumnOf(p) /\ p = (MESSAGE * a + b) - 1
  BY PlaceOf
<1>2. MESSAGE * a \in Nat /\ MESSAGE * t \in Nat /\ MESSAGE \in Nat
  BY ChatAssumption
<1>3. CASE a < t
  BY <1>1, <1>2, <1>3, Multiples
<1>4. CASE t = a
  BY <1>1, <1>2, <1>4
<1>5. CASE t < a
  BY <1>1, <1>2, <1>5, Multiples
<1> QED
  BY <1>3, <1>4, <1>5

\* A later position is a later byte.
LEMMA LaterIsAfter ==
    ASSUME NEW p \in Nat, NEW q \in Nat, p < q
    PROVE  Before(<<LineOf(p), ColumnOf(p)>>, <<LineOf(q), ColumnOf(q)>>)
<1>1. PICK a \in Nat, b \in 1 .. MESSAGE :
          a + 1 = LineOf(p) /\ b = ColumnOf(p) /\ p = (MESSAGE * a + b) - 1
  BY PlaceOf
<1>2. PICK c \in Nat, e \in 1 .. MESSAGE :
          c + 1 = LineOf(q) /\ e = ColumnOf(q) /\ q = (MESSAGE * c + e) - 1
  BY PlaceOf
<1>3. MESSAGE * a \in Nat /\ MESSAGE * c \in Nat /\ MESSAGE \in Nat
  BY ChatAssumption
<1>4. CASE a < c
  BY <1>1, <1>2, <1>4 DEF Before
<1>5. CASE a = c
  <2>1. b < e
    BY <1>1, <1>2, <1>3, <1>5
  <2> QED
    BY <1>1, <1>2, <1>5, <2>1 DEF Before
<1>6. CASE c < a
  BY <1>1, <1>2, <1>3, <1>6, Multiples
<1> QED
  BY <1>4, <1>5, <1>6

\* What is typed: text without NUL that leaves room for one in its message.
LEMMA TextFacts ==
    ASSUME NEW s \in Sides, NEW m \in 1 .. Len(Texts[s])
    PROVE  /\ Texts[s][m] \in Seq(Nat) /\ Len(Texts[s][m]) \in Nat
           /\ Len(Texts[s][m]) < MESSAGE
           /\ \A j \in 1 .. Len(Texts[s][m]) : Texts[s][m][j] # NUL
<1>1. Texts[s] \in Seq(Seq(Nat \ {NUL}) \ {<< >>})
  BY ChatAssumption
<1>2. Texts[s][m] \in Seq(Nat \ {NUL})
  BY <1>1
<1>3. Texts[s][m] \in Seq(Nat)
  BY <1>2
<1>4. Len(Texts[s][m]) < MESSAGE
  BY ChatAssumption
<1>5. \A j \in 1 .. Len(Texts[s][m]) : Texts[s][m][j] # NUL
  BY <1>2
<1> QED
  BY <1>3, <1>4, <1>5

LEMMA SidesAre ==
    /\ \A s \in Sides : Other(s) \in Sides /\ Other(Other(s)) = s /\ Other(s) # s
    /\ \A s, x \in Sides : x = s \/ x = Other(s)
BY DEF Sides, Other

\* The invariant says more than the property.
LEMMA ShownFollows == ChatInv => ShownInOrder
<1> SUFFICES ASSUME ChatInv, NEW s \in Sides
             PROVE  \E at \in [1 .. Len(shown[s]) -> TypedBytes(Other(s), typed[Other(s)])] :
            /\ \A k \in DOMAIN at : shown[s][k] = Texts[Other(s)][at[k][1]][at[k][2]]
            /\ \A j, k \in DOMAIN at : j < k => Before(at[j], at[k])
            /\ FullReads(s)
                  => {at[k] : k \in DOMAIN at} = TypedBytes(Other(s), Len(reads[s]))
  BY DEF ShownInOrder, FullReads
<1>1. PICK o \in Sides : o = Other(s)
  BY SidesAre
<1>2. PICK p \in Nat : OnTheWay(s, o, p) /\ ShowsBytes(s, o, p)
  BY <1>1 DEF ChatInv, Follows
<1>3. /\ typed[o] \in Nat /\ typed[o] <= Len(Texts[o]) /\ Len(Texts[o]) \in Nat
      /\ Len(reads[s]) \in Nat /\ Len(wire[s]) \in Nat
      /\ MESSAGE \in Nat /\ MESSAGE >= 1 /\ MESSAGE * typed[o] \in Nat
  BY ChatAssumption DEF ChatInv, ChatTypes
<1>4. p <= MESSAGE * typed[o]
  BY <1>2, <1>3 DEF OnTheWay
<1>5. PICK d \in [1 .. Len(shown[s]) -> Nat] :
       /\ \A k \in DOMAIN d : d[k] < p /\ IsText(o, d[k]) /\ shown[s][k] = ByteAt(o, d[k])
       /\ \A j, k \in DOMAIN d : j < k => d[j] < d[k]
       /\ FullReads(s) => /\ p = MESSAGE * Len(reads[s])
                          /\ \A q \in Nat : q < p /\ IsText(o, q) => \E k \in DOMAIN d : d[k] = q
  BY <1>2 DEF ShowsBytes
<1> DEFINE at == [k \in 1 .. Len(shown[s]) |-> <<LineOf(d[k]), ColumnOf(d[k])>>]
<1>6. ASSUME NEW k \in 1 .. Len(shown[s]), NEW n \in Nat, d[k] < MESSAGE * n
      PROVE  at[k] \in TypedBytes(o, n)
  <2> PICK e \in Nat : e = d[k]
    BY <1>5
  <2>1. LineOf(e) \in 1 .. n
    BY <1>6, InFirst, Division
  <2>2. ColumnOf(e) \in 1 .. Len(Texts[o][LineOf(e)])
    <3>1. LineOf(e) \in 1 .. Len(Texts[o])
      <4>1. e < MESSAGE * typed[o]
        BY <1>3, <1>4, <1>5
      <4> QED
        <5> PICK n1 \in Nat : n1 = typed[o]
          BY <1>3
        <5>1. LineOf(e) <= n1
          BY <4>1, InFirst
        <5>2. LineOf(e) \in Nat /\ LineOf(e) >= 1 /\ n1 <= Len(Texts[o])
          BY <1>3, Division
        <5> QED
          BY <1>3, <5>1, <5>2
    <3> QED
      <4>1. IsText(o, e) /\ ColumnOf(e) \in 1 .. MESSAGE
        BY <1>5, Division
      <4> QED
        BY <3>1, <4>1, TextFacts DEF IsText
  <2>3. at[k] \in {LineOf(e)} \X (1 .. Len(Texts[o][LineOf(e)]))
    BY <2>2
  <2> QED
    BY <2>1, <2>3 DEF TypedBytes
<1>7. at \in [1 .. Len(shown[s]) -> TypedBytes(o, typed[o])]
  <2>1. \A k \in 1 .. Len(shown[s]) : d[k] < MESSAGE * typed[o]
    BY <1>3, <1>4, <1>5
  <2> QED
    BY <1>3, <1>6, <2>1
<1>8. \A k \in DOMAIN at : shown[s][k] = Texts[o][at[k][1]][at[k][2]]
  BY <1>5 DEF ByteAt
<1>9. \A j, k \in DOMAIN at : j < k => Before(at[j], at[k])
  BY <1>5, LaterIsAfter
<1>10. ASSUME FullReads(s)
       PROVE  {at[k] : k \in DOMAIN at} = TypedBytes(o, Len(reads[s]))
  <2>1. \A k \in DOMAIN at : at[k] \in TypedBytes(o, Len(reads[s]))
    BY <1>3, <1>5, <1>6, <1>10
  <2>2. ASSUME NEW b \in TypedBytes(o, Len(reads[s])) PROVE \E k \in DOMAIN at : at[k] = b
    <3>1. PICK m \in 1 .. Len(reads[s]) : b \in {m} \X (1 .. Len(Texts[o][m]))
      BY <2>2 DEF TypedBytes
    <3>2. PICK j \in 1 .. Len(Texts[o][m]) : b = <<m, j>>
      BY <3>1
    <3>3. PICK l \in Nat : m = l + 1
      <4>1. m - 1 \in Nat /\ m = (m - 1) + 1
        BY <1>3
      <4> QED
        BY <4>1
    <3>4. m \in 1 .. Len(Texts[o])
      <4>1. PICK q \in Nat : q = (MESSAGE * l + 1) - 1
        BY <1>3, <3>3
      <4>2. LineOf(q) = m
        <5>1. 1 \in 1 .. MESSAGE
          BY <1>3
        <5> QED
          BY <3>3, <4>1, <5>1, Placed
      <4>3. q < MESSAGE * Len(reads[s])
        BY <1>3, <4>2, InFirst
      <4>4. q < MESSAGE * typed[o]
        BY <1>3, <1>4, <1>5, <1>10, <4>3
      <4> QED
        BY <1>3, <4>2, <4>4, InFirst
    <3>5. j \in 1 .. MESSAGE /\ j <= Len(Texts[o][m])
      <4>1. Len(Texts[o][m]) \in Nat /\ Len(Texts[o][m]) < MESSAGE
        BY <3>4, TextFacts
      <4> QED
        BY <1>3, <4>1
    <3>6. PICK q \in Nat : q = (MESSAGE * l + j) - 1
      BY <1>3, <3>5
    <3>7. LineOf(q) = m /\ ColumnOf(q) = j
      BY <3>3, <3>5, <3>6, Placed
    <3>8. q < p /\ IsText(o, q)
      BY <1>3, <1>5, <1>10, <3>5, <3>7, InFirst DEF IsText
    <3>9. PICK k \in DOMAIN d : d[k] = q
      BY <1>5, <1>10, <3>8
    <3> QED
      BY <3>2, <3>7, <3>9
  <2> QED
    BY <2>1, <2>2
<1> QED
  BY <1>1, <1>7, <1>8, <1>9, <1>10

\* Nothing has been typed, sent or shown.
LEMMA ChatInitially == ChatInit => ChatInv
<1> SUFFICES ASSUME ChatInit PROVE ChatInv
  OBVIOUS
<1>1. ChatTypes
  <2>1. \A s \in Sides : Len(Texts[s]) \in Nat
    BY ChatAssumption
  <2> QED
    BY <2>1 DEF ChatInit, ChatTypes
<1>2. ASSUME NEW s \in Sides PROVE Follows(s, Other(s))
  <2>1. OnTheWay(s, Other(s), 0)
    BY SidesAre, ChatAssumption DEF ChatInit, OnTheWay, Carries
  <2>2. ShowsBytes(s, Other(s), 0)
    <3>1. shown[s] = << >> /\ reads[s] = << >>
      BY DEF ChatInit
    <3>2. MESSAGE * 0 = 0
      BY ChatAssumption
    <3>3. Len(shown[s]) = 0 /\ Len(reads[s]) = 0
      BY <3>1
    <3>4. << >> \in [1 .. Len(shown[s]) -> Nat] /\ \A k \in DOMAIN << >> : FALSE
      BY <3>3
    <3>5. \A q \in Nat : ~ q < 0
      OBVIOUS
    <3> QED
      BY <3>2, <3>3, <3>4, <3>5 DEF ShowsBytes
  <2> QED
    BY <2>1, <2>2 DEF Follows
<1> QED
  BY <1>1, <1>2 DEF ChatInv

----------------------------------------------------------------------------
(* Parts of a stream                                                       *)

\* A sequence of bytes in two parts.
LEMMA InTwo ==
    ASSUME NEW b \in Seq(Nat), NEW k \in 0 .. Len(b)
    PROVE  /\ SubSeq(b, 1, k) \in Seq(Nat) /\ Len(SubSeq(b, 1, k)) = k
           /\ \A j \in 1 .. k : SubSeq(b, 1, k)[j] = b[j]
           /\ SubSeq(b, k + 1, Len(b)) \in Seq(Nat)
           /\ Len(SubSeq(b, k + 1, Len(b))) = Len(b) - k
           /\ \A j \in 1 .. Len(b) - k : SubSeq(b, k + 1, Len(b))[j] = b[k + j]
<1>1. \A j \in 1 .. Len(b) : b[j] \in Nat
  OBVIOUS
<1>2. /\ SubSeq(b, 1, k) \in Seq(Nat)
      /\ Len(SubSeq(b, 1, k)) = IF 1 <= k THEN (k - 1) + 1 ELSE 0
      /\ \A j \in 1 .. (k - 1) + 1 : SubSeq(b, 1, k)[j] = b[(1 + j) - 1]
  <2>1. \A j \in 1 .. k : b[j] \in Nat
    BY <1>1
  <2> QED
    BY <2>1, SubSeqProperties
<1>3. /\ SubSeq(b, k + 1, Len(b)) \in Seq(Nat)
      /\ Len(SubSeq(b, k + 1, Len(b))) = IF k + 1 <= Len(b) THEN (Len(b) - (k + 1)) + 1 ELSE 0
      /\ \A j \in 1 .. (Len(b) - (k + 1)) + 1 :
            SubSeq(b, k + 1, Len(b))[j] = b[((k + 1) + j) - 1]
  <2>1. \A j \in k + 1 .. Len(b) : b[j] \in Nat
    BY <1>1
  <2> QED
    BY <2>1, SubSeqProperties
<1> QED
  BY <1>2, <1>3

\* The parts of a part, and two parts in a row.
LEMMA CarriesParts ==
    ASSUME NEW o \in Sides, NEW b \in Seq(Nat), NEW k \in 0 .. Len(b), NEW p \in Nat,
           Carries(o, b, p)
    PROVE  /\ Carries(o, SubSeq(b, 1, k), p)
           /\ Carries(o, SubSeq(b, k + 1, Len(b)), p + k)
<1>1. Carries(o, SubSeq(b, 1, k), p)
  BY InTwo DEF Carries
<1>2. ASSUME NEW j \in 1 .. Len(b) - k
      PROVE  SubSeq(b, k + 1, Len(b))[j] = ByteAt(o, ((p + k) + j) - 1)
  <2>1. PICK i \in 1 .. Len(b) : i = k + j
    OBVIOUS
  <2>2. (p + i) - 1 = ((p + k) + j) - 1
    BY <2>1
  <2>3. b[i] = ByteAt(o, (p + i) - 1)
    BY DEF Carries
  <2> QED
    BY <2>1, <2>2, <2>3, InTwo
<1>3. Len(SubSeq(b, k + 1, Len(b))) = Len(b) - k
  BY InTwo
<1> QED
  BY <1>1, <1>2, <1>3 DEF Carries

LEMMA CarriesBoth ==
    ASSUME NEW o \in Sides, NEW a \in Seq(Nat), NEW b \in Seq(Nat), NEW p \in Nat,
           Carries(o, a, p), Carries(o, b, p + Len(a))
    PROVE  Carries(o, a \o b, p)
<1>1. ASSUME NEW j \in 1 .. Len(a) + Len(b)
      PROVE  (a \o b)[j] = ByteAt(o, (p + j) - 1)
  <2>1. CASE j <= Len(a)
    BY <2>1, ConcatProperties DEF Carries
  <2>2. CASE j > Len(a)
    <3>1. PICK i \in 1 .. Len(b) : j = Len(a) + i
      <4>1. j - Len(a) \in 1 .. Len(b) /\ j = Len(a) + (j - Len(a))
        BY <2>2
      <4> QED
        BY <4>1
    <3>2. (a \o b)[j] = b[i]
      BY <2>2, <3>1, ConcatProperties
    <3>3. b[i] = ByteAt(o, ((p + Len(a)) + i) - 1)
      BY DEF Carries
    <3>4. ((p + Len(a)) + i) - 1 = (p + j) - 1
      BY <3>1
    <3> QED
      BY <3>2, <3>3, <3>4
  <2> QED
    BY <2>1, <2>2
<1> QED
  BY <1>1, ConcatProperties DEF Carries

\* A message is a line's part of the stream.
LEMMA MessageCarried ==
    ASSUME NEW o \in Sides, NEW n \in Nat, n + 1 <= Len(Texts[o])
    PROVE  /\ ChatMessage(Texts[o][n + 1]) \in Seq(Nat)
           /\ Len(ChatMessage(Texts[o][n + 1])) = MESSAGE
           /\ Carries(o, ChatMessage(Texts[o][n + 1]), MESSAGE * n)
<1>1. PICK m \in 1 .. Len(Texts[o]) : m = n + 1
  OBVIOUS
<1>2. Texts[o][m] \in Seq(Nat) /\ Len(Texts[o][m]) \in Nat /\ MESSAGE \in Nat
  BY TextFacts, ChatAssumption
<1>3. \A j \in 1 .. MESSAGE :
         ChatMessage(Texts[o][m])[j] = IF j <= Len(Texts[o][m]) THEN Texts[o][m][j] ELSE NUL
  BY DEF ChatMessage
<1>4. \A j \in 1 .. MESSAGE : ChatMessage(Texts[o][m])[j] \in Nat
  BY <1>2, <1>3 DEF NUL
<1>5. ChatMessage(Texts[o][m]) \in Seq(Nat) /\ Len(ChatMessage(Texts[o][m])) = MESSAGE
  <2>1. ChatMessage(Texts[o][m]) \in [1 .. MESSAGE -> Nat]
    BY <1>4 DEF ChatMessage
  <2> QED
    BY <1>2, <2>1
<1>6. ASSUME NEW j \in 1 .. MESSAGE
      PROVE  ChatMessage(Texts[o][m])[j] = ByteAt(o, (MESSAGE * n + j) - 1)
  <2>1. PICK q \in Nat : q = (MESSAGE * n + j) - 1
    <3>1. MESSAGE * n \in Nat
      BY <1>2
    <3> QED
      BY <3>1
  <2>2. LineOf(q) = m /\ ColumnOf(q) = j
    BY <1>1, <2>1, Placed
  <2> QED
    BY <1>3, <2>1, <2>2 DEF ByteAt, IsText
<1> QED
  BY <1>1, <1>5, <1>6 DEF Carries

\* What fputs shows of a part of the stream: some bytes of text; all there are,
\* if the part is a message.
LEMMA ShowsText ==
    ASSUME NEW o \in Sides, NEW b \in Seq(Nat), NEW p \in Nat,
           Carries(o, b, p), Len(b) \in 1 .. MESSAGE,
           p + Len(b) <= MESSAGE * Len(Texts[o])
    PROVE  \E n \in 0 .. Len(b) :
              /\ Shows(b) = SubSeq(b, 1, n)
              /\ \A j \in 1 .. n : IsText(o, (p + j) - 1)
              /\ \A l \in Nat : Len(b) = MESSAGE /\ p = MESSAGE * l =>
                    \A j \in n + 1 .. MESSAGE : ~ IsText(o, (p + j) - 1)
<1>1. MESSAGE \in Nat /\ Len(Texts[o]) \in Nat /\ MESSAGE * Len(Texts[o]) \in Nat
  BY ChatAssumption
<1>2. ASSUME NEW j \in 1 .. Len(b)
      PROVE  b[j] # NUL <=> IsText(o, (p + j) - 1)
  <2>1. PICK q \in Nat : q = (p + j) - 1
    OBVIOUS
  <2>2. q < MESSAGE * Len(Texts[o])
    BY <1>1, <2>1
  <2>3. LineOf(q) \in 1 .. Len(Texts[o])
    <3>1. LineOf(q) <= Len(Texts[o])
      BY <1>1, <2>2, InFirst
    <3>2. LineOf(q) \in Nat /\ LineOf(q) >= 1
      BY Division
    <3> QED
      BY <1>1, <3>1, <3>2
  <2>4. b[j] = ByteAt(o, q)
    BY <2>1 DEF Carries
  <2>5. PICK c \in Nat : c = ColumnOf(q) /\ c >= 1
    BY <1>1, PlaceOf
  <2>6. IsText(o, q) => ByteAt(o, q) # NUL
    <3>1. PICK m \in 1 .. Len(Texts[o]) : m = LineOf(q)
      BY <2>3
    <3>2. Len(Texts[o][m]) \in Nat /\ \A k \in 1 .. Len(Texts[o][m]) : Texts[o][m][k] # NUL
      BY TextFacts
    <3>3. IsText(o, q) => c \in 1 .. Len(Texts[o][m])
      BY <2>5, <3>1, <3>2 DEF IsText
    <3> QED
      BY <2>5, <3>1, <3>2, <3>3 DEF ByteAt
  <2> QED
    BY <2>1, <2>4, <2>6 DEF ByteAt
<1>3. CASE \E k \in 1 .. Len(b) : b[k] = NUL
  <2> DEFINE S == {k \in 1 .. Len(b) : b[k] = NUL}
  <2>1. \E z \in 1 .. Len(b) : b[z] = NUL /\ \A j \in 1 .. z - 1 : b[j] # NUL
    <3>1. PICK z \in S : \A k \in S : z <= k
      <4>1. S \in SUBSET (1 .. Len(b)) /\ S # {} /\ Len(b) \in Nat
        BY <1>3
      <4> HIDE DEF S
      <4> QED
        BY <4>1, LeastUpTo
    <3>2. \A j \in 1 .. z - 1 : j \notin S
      BY <3>1
    <3> QED
      BY <3>1, <3>2
  <2>2. PICK z \in 1 .. Len(b) : /\ Shows(b) = SubSeq(b, 1, z - 1)
                                 /\ b[z] = NUL /\ \A j \in 1 .. z - 1 : b[j] # NUL
    BY <1>3, <2>1 DEF Shows
  <2>3. PICK n \in 0 .. Len(b) : n = z - 1
    OBVIOUS
  <2>4. \A j \in 1 .. n : IsText(o, (p + j) - 1)
    <3>1. \A j \in 1 .. n : j \in 1 .. Len(b) /\ j \in 1 .. z - 1
      BY <2>3
    <3> QED
      BY <1>2, <2>2, <3>1
  <2>5. ASSUME NEW l \in Nat, Len(b) = MESSAGE, p = MESSAGE * l, NEW j \in n + 1 .. MESSAGE
        PROVE  ~ IsText(o, (p + j) - 1)
    <3>1. PICK x \in Nat, q \in Nat : x = (p + z) - 1 /\ q = (p + j) - 1
      OBVIOUS
    <3>2. LineOf(x) = l + 1 /\ ColumnOf(x) = z
      BY <2>5, <3>1, Placed
    <3>3. j \in 1 .. MESSAGE /\ z <= j
      BY <2>3, <2>5
    <3>4. LineOf(q) = l + 1 /\ ColumnOf(q) = j
      BY <2>5, <3>1, <3>3, Placed
    <3>5. ~ IsText(o, x)
      BY <1>2, <2>2, <3>1
    <3>6. l + 1 \in 1 .. Len(Texts[o])
      <4>1. x < MESSAGE * Len(Texts[o])
        BY <1>1, <3>1
      <4> QED
        BY <1>1, <3>2, <4>1, InFirst
    <3>7. Len(Texts[o][l + 1]) \in Nat
      BY <3>6, TextFacts
    <3>8. Len(Texts[o][l + 1]) < z
      BY <3>2, <3>5, <3>7 DEF IsText
    <3>9. Len(Texts[o][l + 1]) < j
      BY <1>1, <3>3, <3>7, <3>8
    <3>10. ~ IsText(o, q)
      BY <3>4, <3>3, <3>7, <3>9 DEF IsText
    <3> QED
      BY <3>1, <3>10
  <2> QED
    BY <2>2, <2>3, <2>4, <2>5
<1>4. CASE ~ \E k \in 1 .. Len(b) : b[k] = NUL
  <2>1. Len(b) # MESSAGE
    <3> SUFFICES ASSUME Len(b) = MESSAGE PROVE FALSE
      OBVIOUS
    <3>1. PICK a \in Nat, c \in 1 .. MESSAGE : p = (MESSAGE * a + c) - 1
      BY PlaceOf
    <3>2. PICK j \in 1 .. Len(b) : j = (MESSAGE - c) + 1
      BY <1>1
    <3>3. PICK q \in Nat : q = (p + j) - 1
      OBVIOUS
    <3>4. q = (MESSAGE * a + MESSAGE) - 1 /\ MESSAGE \in 1 .. MESSAGE
      <4>1. MESSAGE * a \in Nat
        BY <1>1
      <4> QED
        BY <1>1, <3>1, <3>2, <3>3, <4>1
    <3>5. LineOf(q) = a + 1 /\ ColumnOf(q) = MESSAGE
      BY <3>4, Placed
    <3>6. a + 1 \in 1 .. Len(Texts[o])
      <4>1. q < MESSAGE * Len(Texts[o])
        BY <1>1, <3>3
      <4> QED
        BY <1>1, <3>5, <4>1, InFirst
    <3>7. ~ IsText(o, q)
      <4>1. Len(Texts[o][a + 1]) \in Nat /\ Len(Texts[o][a + 1]) < MESSAGE
        BY <3>6, TextFacts
      <4> QED
        BY <1>1, <3>5, <4>1 DEF IsText
    <3> QED
      BY <1>2, <1>4, <3>3, <3>7
  <2>2. Shows(b) = b
    BY <1>1, <1>4, <2>1 DEF Shows
  <2>3. b = SubSeq(b, 1, Len(b))
    BY SubSeqFull
  <2>4. \A j \in 1 .. Len(b) : IsText(o, (p + j) - 1)
    BY <1>2, <1>4
  <2> WITNESS Len(b) \in 0 .. Len(b)
  <2> QED
    BY <2>1, <2>2, <2>3, <2>4
<1> QED
  BY <1>3, <1>4

----------------------------------------------------------------------------
(* The steps of the chat                                                   *)

\* What was shown stays so.
LEMMA ShownStays ==
    ASSUME NEW s \in Sides, NEW o \in Sides, NEW p \in Nat, ShowsBytes(s, o, p),
           UNCHANGED <<shown[s], reads[s]>>
    PROVE  ShowsBytes(s, o, p)'
<1>1. FullReads(s)' <=> FullReads(s)
  BY DEF FullReads
<1>2. PICK d \in [1 .. Len(shown[s]) -> Nat] :
       /\ \A k \in DOMAIN d : d[k] < p /\ IsText(o, d[k]) /\ shown[s][k] = ByteAt(o, d[k])
       /\ \A j, k \in DOMAIN d : j < k => d[j] < d[k]
       /\ FullReads(s) => /\ p = MESSAGE * Len(reads[s])
                          /\ \A q \in Nat : q < p /\ IsText(o, q) => \E k \in DOMAIN d : d[k] = q
  BY DEF ShowsBytes
<1>3. d \in [1 .. Len(shown[s])' -> Nat]
  OBVIOUS
<1>4. \A k \in DOMAIN d : d[k] < p /\ IsText(o, d[k]) /\ shown'[s][k] = ByteAt(o, d[k])
  BY <1>2
<1>5. FullReads(s)' => /\ p = MESSAGE * Len(reads'[s])
                       /\ \A q \in Nat : q < p /\ IsText(o, q) => \E k \in DOMAIN d : d[k] = q
  BY <1>1, <1>2
<1> QED
  BY <1>2, <1>3, <1>4, <1>5, Zenon DEF ShowsBytes

\* A step that leaves a stream alone, and one that ends its sending.
LEMMA WireStays ==
    ASSUME NEW s \in Sides, NEW o \in Sides, Follows(s, o),
           UNCHANGED <<shown[s], reads[s], wire[s], typed[o], told[o], sender[o], sendbuf[o]>>
    PROVE  Follows(s, o)'
<1>1. PICK p \in Nat : OnTheWay(s, o, p) /\ ShowsBytes(s, o, p)
  BY DEF Follows
<1>2. OnTheWay(s, o, p)'
  BY <1>1 DEF OnTheWay
<1>3. ShowsBytes(s, o, p)'
  BY <1>1, ShownStays
<1> QED
  BY <1>2, <1>3 DEF Follows

LEMMA WireCut ==
    ASSUME ChatTypes, NEW s \in Sides, NEW o \in Sides, Follows(s, o),
           UNCHANGED <<shown[s], reads[s], typed[o]>>,
           NEW k \in 0 .. Len(wire[s]), wire'[s] = SubSeq(wire[s], 1, k),
           told'[o] # "up" \/ sender'[o] = "ended"
    PROVE  Follows(s, o)'
<1>1. PICK p \in Nat : OnTheWay(s, o, p) /\ ShowsBytes(s, o, p)
  BY DEF Follows
<1>2. wire[s] \in Seq(Nat) /\ typed[o] \in Nat /\ MESSAGE * typed[o] \in Nat
  BY ChatAssumption DEF ChatTypes
<1>3. Len(wire'[s]) = k /\ Carries(o, wire'[s], p)
  BY <1>1, <1>2, InTwo, CarriesParts DEF OnTheWay
<1>4. p + k <= MESSAGE * typed[o]
  BY <1>1, <1>2 DEF OnTheWay
<1>5. OnTheWay(s, o, p)'
  BY <1>3, <1>4 DEF OnTheWay
<1>6. ShowsBytes(s, o, p)'
  BY <1>1, ShownStays
<1> QED
  BY <1>5, <1>6 DEF Follows

\* What a process that ends does to the connection.
LEMMA HangsUp ==
    ASSUME ChatTypes, NEW s \in Sides, HangUp(s)
    PROVE  \/ UNCHANGED <<wire, told>>
           \/ /\ sender'[s] = "ended"
              /\ wire' \in [Sides -> Seq(Nat)] /\ told' \in [Sides -> {"up", "fin", "reset"}]
              /\ wire'[s] = << >> /\ told'[Other(s)] # "up"
              /\ \E k \in 0 .. Len(wire[Other(s)]) : wire'[Other(s)] = SubSeq(wire[Other(s)], 1, k)
<1> DEFINE o == Other(s)
<1>1. o \in Sides /\ o # s
  BY SidesAre
<1>2. wire \in [Sides -> Seq(Nat)] /\ told \in [Sides -> {"up", "fin", "reset"}]
  BY DEF ChatTypes
<1> HIDE DEF o
<1>3. CASE Over(s)' /\ Fin(s)
  <2>1. wire[o] \in Seq(Nat) /\ Len(wire[o]) \in 0 .. Len(wire[o])
    BY <1>1, <1>2
  <2>2. wire[o] = SubSeq(wire[o], 1, Len(wire[o]))
    BY <2>1, SubSeqFull
  <2>3. wire' = [wire EXCEPT ![s] = << >>] /\ told' = [told EXCEPT ![o] = "fin"]
    BY <1>3 DEF Fin, o
  <2>4. /\ wire' \in [Sides -> Seq(Nat)] /\ told' \in [Sides -> {"up", "fin", "reset"}]
        /\ wire'[s] = << >> /\ told'[o] = "fin" /\ wire'[o] = wire[o]
    BY <1>1, <1>2, <2>3
  <2> QED
    BY <1>3, <2>1, <2>2, <2>4 DEF Over, o
<1>4. CASE Over(s)' /\ Reset(s)
  <2>1. PICK k \in 0 .. Len(wire[o]) :
            wire' = [wire EXCEPT ![s] = << >>, ![o] = SubSeq(@, 1, k)]
    BY <1>4 DEF Reset, o
  <2>2. wire'[s] = << >> /\ wire'[o] = SubSeq(wire[o], 1, k)
    BY <1>1, <1>2, <2>1
  <2>3. SubSeq(wire[o], 1, k) \in Seq(Nat)
    BY <1>1, <1>2, InTwo
  <2>4. wire' \in [Sides -> Seq(Nat)]
    <3>1. \A x \in Sides : wire'[x] = IF x = o THEN SubSeq(wire[o], 1, k) ELSE
                                        IF x = s THEN << >> ELSE wire[x]
      BY <1>1, <1>2, <2>1
    <3>2. \A x \in Sides : wire'[x] \in Seq(Nat)
      <4>1. << >> \in Seq(Nat) /\ \A x \in Sides : wire[x] \in Seq(Nat)
        BY <1>2
      <4> QED
        BY <2>3, <3>1, <4>1, Zenon
    <3>3. wire' = [x \in Sides |-> wire'[x]]
      BY <1>2, <2>1
    <3> QED
      BY <3>2, <3>3
  <2>5. told' = [told EXCEPT ![o] = "reset"]
    BY <1>4 DEF Reset, o
  <2>6. told' \in [Sides -> {"up", "fin", "reset"}] /\ told'[o] = "reset"
    BY <1>1, <1>2, <2>5
  <2> QED
    BY <1>4, <2>2, <2>4, <2>6 DEF Over, o
<1> QED
  BY <1>3, <1>4 DEF HangUp, connection

\* A process of s ends.
LEMMA EndKeeps ==
    ASSUME ChatInv, NEW s \in Sides, HangUp(s), UNCHANGED <<typed, shown, reads>>,
           sender' \in [Sides -> {"fgets", "write", "ended"}],
           sendbuf' \in [Sides -> Seq(Nat)],
           receiver' \in [Sides -> {"read", "kill", "close", "ended", "dead"}],
           UNCHANGED <<sender[Other(s)], sendbuf[Other(s)]>>,
           sender'[s] = "ended" \/ UNCHANGED <<sender, sendbuf>>
    PROVE  ChatInv'
<1> DEFINE o == Other(s)
<1>1. o \in Sides /\ o # s /\ Other(o) = s /\ \A x \in Sides : x = s \/ x = o
  BY SidesAre
<1>2. wire \in [Sides -> Seq(Nat)] /\ told \in [Sides -> {"up", "fin", "reset"}]
  BY DEF ChatInv, ChatTypes
<1>3. Follows(s, o) /\ Follows(o, s)
  BY <1>1 DEF ChatInv
<1>4. ChatTypes'
  <2>1. wire' \in [Sides -> Seq(Nat)] /\ told' \in [Sides -> {"up", "fin", "reset"}]
    BY <1>2, HangsUp DEF ChatInv
  <2> QED
    BY <2>1 DEF ChatInv, ChatTypes
<1>5. wire[o] = SubSeq(wire[o], 1, Len(wire[o])) /\ Len(wire[o]) \in 0 .. Len(wire[o])
  BY <1>1, <1>2, SubSeqFull
<1>6. << >> = SubSeq(wire[s], 1, 0) /\ 0 \in 0 .. Len(wire[s])
  BY <1>2, SubSeqEmpty
<1>7. Follows(s, o)'
  <2>1. CASE UNCHANGED <<wire, told>>
    BY <1>1, <1>3, <2>1, WireStays DEF o
  <2>2. CASE wire'[s] = << >> /\ told'[o] # "up"
    BY <1>1, <1>3, <1>6, <2>2, WireCut DEF ChatInv
  <2> QED
    BY <2>1, <2>2, HangsUp DEF ChatInv, o
<1>8. Follows(o, s)'
  <2>1. CASE UNCHANGED <<wire, told>> /\ UNCHANGED <<sender, sendbuf>>
    BY <1>1, <1>3, <2>1, WireStays
  <2>2. CASE UNCHANGED <<wire, told>> /\ sender'[s] = "ended"
    BY <1>1, <1>3, <1>5, <2>2, WireCut DEF ChatInv
  <2>3. CASE /\ sender'[s] = "ended"
             /\ \E k \in 0 .. Len(wire[o]) : wire'[o] = SubSeq(wire[o], 1, k)
    BY <1>1, <1>3, <2>3, WireCut DEF ChatInv
  <2> QED
    BY <2>1, <2>2, <2>3, HangsUp DEF ChatInv, o
<1> QED
  BY <1>1, <1>4, <1>7, <1>8 DEF ChatInv

\* The steps that end a process, and those that only lead to it.
LEMMA EndsKeep ==
    ASSUME ChatInv, NEW s \in Sides,
           SenderEnds(s) \/ \E how \in {"ended", "dead"} : ReceiverGoes(s, how)
    PROVE  ChatInv'
<1>1. Other(s) \in Sides /\ Other(s) # s
  BY SidesAre
<1>2. CASE SenderEnds(s)
  <2>1. /\ sender' = [sender EXCEPT ![s] = "ended"]
        /\ sendbuf' = [sendbuf EXCEPT ![s] = << >>]
        /\ UNCHANGED <<typed, receiver, shown, reads>> /\ HangUp(s)
    BY <1>2 DEF SenderEnds, receivers
  <2>2. /\ sender' \in [Sides -> {"fgets", "write", "ended"}] /\ sender'[s] = "ended"
        /\ sendbuf' \in [Sides -> Seq(Nat)]
        /\ UNCHANGED <<sender[Other(s)], sendbuf[Other(s)]>>
    BY <1>1, <2>1 DEF ChatInv, ChatTypes
  <2>3. receiver' \in [Sides -> {"read", "kill", "close", "ended", "dead"}]
    BY <2>1 DEF ChatInv, ChatTypes
  <2> QED
    BY <2>1, <2>2, <2>3, EndKeeps
<1>3. ASSUME NEW how \in {"ended", "dead"}, ReceiverGoes(s, how) PROVE ChatInv'
  <2>1. /\ receiver' = [receiver EXCEPT ![s] = how]
        /\ UNCHANGED <<sender, sendbuf, typed, shown, reads>> /\ HangUp(s)
    BY <1>3 DEF ReceiverGoes, senders
  <2>2. /\ receiver' \in [Sides -> {"read", "kill", "close", "ended", "dead"}]
        /\ sender' \in [Sides -> {"fgets", "write", "ended"}]
        /\ sendbuf' \in [Sides -> Seq(Nat)]
    BY <2>1 DEF ChatInv, ChatTypes
  <2> QED
    BY <2>1, <2>2, EndKeeps
<1> QED
  BY <1>2, <1>3

LEMMA QuietKeeps ==
    ASSUME ChatInv, NEW s \in Sides, ReceiverEof(s) \/ Kill(s)
    PROVE  ChatInv'
<1>1. /\ UNCHANGED <<sender, sendbuf, typed, shown, reads, wire, told>>
      /\ receiver' \in [Sides -> {"read", "kill", "close", "ended", "dead"}]
  BY DEF ChatInv, ChatTypes, ReceiverEof, Kill, senders, connection
<1>2. ChatTypes'
  BY <1>1 DEF ChatInv, ChatTypes
<1>3. ASSUME NEW x \in Sides PROVE Follows(x, Other(x))'
  <2>1. Other(x) \in Sides /\ Follows(x, Other(x))
    BY SidesAre DEF ChatInv
  <2> QED
    BY <1>1, <2>1, WireStays
<1> QED
  BY <1>2, <1>3 DEF ChatInv

\* fgets gets a line, and its message is behind all those before.
LEMMA FgetsKeeps ==
    ASSUME ChatInv, NEW s \in Sides, FgetsLine(s)
    PROVE  ChatInv'
<1>1. PICK x \in Sides : x = Other(s) /\ s = Other(x) /\ x # s /\ \A y \in Sides : y = s \/ y = x
  BY SidesAre
<1>2. PICK n \in Nat : n = typed[s] /\ n + 1 <= Len(Texts[s])
  BY ChatAssumption DEF ChatInv, ChatTypes, FgetsLine
<1>3. /\ UNCHANGED <<receiver, shown, reads, wire, told>>
      /\ typed' = [typed EXCEPT ![s] = n + 1]
      /\ sender[s] = "fgets" /\ sender' = [sender EXCEPT ![s] = "write"]
      /\ sendbuf' = [sendbuf EXCEPT ![s] = ChatMessage(Texts[s][typed'[s]])]
  BY <1>2 DEF FgetsLine, receivers, connection
<1>4. typed'[s] = n + 1 /\ sender'[s] = "write" /\ sendbuf'[s] = ChatMessage(Texts[s][n + 1])
  BY <1>3 DEF ChatInv, ChatTypes
<1> DEFINE m == ChatMessage(Texts[s][n + 1])
<1>5. m \in Seq(Nat) /\ Len(m) = MESSAGE /\ Carries(s, m, MESSAGE * n)
  BY <1>2, MessageCarried
<1> HIDE DEF m
<1>6. ChatTypes'
  <2>1. typed' \in [Sides -> Nat] /\ \A y \in Sides : typed'[y] <= Len(Texts[y])
    <3>1. \A y \in Sides : typed'[y] = IF y = s THEN n + 1 ELSE typed[y]
      BY <1>3 DEF ChatInv, ChatTypes
    <3>2. typed' \in [Sides -> Nat]
      <4>1. typed \in [Sides -> Nat] /\ typed' = [typed EXCEPT ![s] = n + 1] /\ n + 1 \in Nat
        BY <1>3 DEF ChatInv, ChatTypes
      <4> QED
        BY <4>1
    <3> QED
      BY <1>2, <3>1, <3>2 DEF ChatInv, ChatTypes
  <2>2. sendbuf' \in [Sides -> Seq(Nat)]
    BY <1>3, <1>4, <1>5 DEF ChatInv, ChatTypes, m
  <2>3. sender' \in [Sides -> {"fgets", "write", "ended"}]
    BY <1>3 DEF ChatInv, ChatTypes
  <2> QED
    BY <1>3, <2>1, <2>2, <2>3 DEF ChatInv, ChatTypes
<1>7. Follows(s, x)'
  <2>1. UNCHANGED <<typed[x], sender[x], sendbuf[x]>>
    BY <1>1, <1>3 DEF ChatInv, ChatTypes
  <2>2. Follows(s, x)
    BY <1>1 DEF ChatInv
  <2> QED
    BY <1>3, <2>1, <2>2, WireStays
<1>8. Follows(x, s)'
  <2>1. PICK p \in Nat : OnTheWay(x, s, p) /\ ShowsBytes(x, s, p)
    BY <1>1 DEF ChatInv, Follows
  <2>2. PICK w \in Nat : w = Len(wire[x])
    BY DEF ChatInv, ChatTypes
  <2>3. PICK a \in Nat : a = MESSAGE * n
    BY ChatAssumption
  <2>4. MESSAGE * (n + 1) = a + MESSAGE /\ MESSAGE \in Nat
    BY <2>3, ChatAssumption
  <2>5. Carries(s, wire'[x], p) /\ p + w <= MESSAGE * typed'[s]
    BY <1>2, <1>3, <1>4, <2>1, <2>2, <2>3, <2>4 DEF OnTheWay
  <2>6. told'[s] = "up" => p + w = a
    BY <1>2, <1>3, <2>1, <2>2, <2>3 DEF OnTheWay
  <2>7. told'[s] = "up" => /\ Carries(s, sendbuf'[s], p + w)
                           /\ (p + w) + Len(sendbuf'[s]) = MESSAGE * typed'[s]
    BY <1>4, <1>5, <2>3, <2>4, <2>6 DEF m
  <2>8. OnTheWay(x, s, p)'
    BY <1>3, <1>4, <2>2, <2>5, <2>7 DEF OnTheWay
  <2>9. ShowsBytes(x, s, p)'
    BY <1>3, <2>1, ShownStays
  <2> QED
    BY <2>8, <2>9 DEF Follows
<1> QED
  BY <1>1, <1>6, <1>7, <1>8 DEF ChatInv

\* write sends a part of what is left.
LEMMA WriteKeeps ==
    ASSUME ChatInv, NEW s \in Sides, SenderWrites(s)
    PROVE  ChatInv'
<1>1. PICK x \in Sides : x = Other(s) /\ s = Other(x) /\ x # s /\ \A y \in Sides : y = s \/ y = x
  BY SidesAre
<1>2. /\ sendbuf[s] \in Seq(Nat) /\ wire[x] \in Seq(Nat) /\ typed[s] \in Nat
      /\ wire \in [Sides -> Seq(Nat)] /\ sendbuf \in [Sides -> Seq(Nat)]
      /\ MESSAGE * typed[s] \in Nat /\ SOCKBUF \in Nat
  BY ChatAssumption DEF ChatInv, ChatTypes
<1>3. PICK k \in 0 .. Len(sendbuf[s]) :
         /\ wire' = [wire EXCEPT ![x] = @ \o SubSeq(sendbuf[s], 1, k)]
         /\ sendbuf' = [sendbuf EXCEPT ![s] = SubSeq(@, k + 1, Len(@))]
  <2> DEFINE room == SOCKBUF - Len(wire[x])
             k == IF room < Len(sendbuf[s]) THEN room ELSE Len(sendbuf[s])
  <2>1. k \in 0 .. Len(sendbuf[s])
    BY <1>1, <1>2 DEF SenderWrites
  <2> QED
    BY <1>1, <2>1 DEF SenderWrites
<1>4. /\ sender[s] = "write" /\ told[s] = "up"
      /\ UNCHANGED <<typed, receiver, shown, reads, told>>
      /\ sender' = [sender EXCEPT ![s] = IF sendbuf'[s] = << >> THEN "fgets" ELSE "write"]
  BY DEF SenderWrites, receivers
<1> DEFINE a == SubSeq(sendbuf[s], 1, k)
           b == SubSeq(sendbuf[s], k + 1, Len(sendbuf[s]))
<1>5. a \in Seq(Nat) /\ Len(a) = k /\ b \in Seq(Nat) /\ Len(b) = Len(sendbuf[s]) - k
  BY <1>2, InTwo
<1>6. /\ wire'[x] = wire[x] \o a /\ wire'[s] = wire[s]
      /\ sendbuf'[s] = b /\ sendbuf'[x] = sendbuf[x]
  BY <1>1, <1>2, <1>3
<1> HIDE DEF a, b
<1>7. /\ sender'[s] = IF b = << >> THEN "fgets" ELSE "write"
      /\ sender'[x] = sender[x]
      /\ sender' \in [Sides -> {"fgets", "write", "ended"}]
  BY <1>1, <1>4, <1>6 DEF ChatInv, ChatTypes
<1>8. wire[x] \o a \in Seq(Nat) /\ Len(wire[x] \o a) = Len(wire[x]) + k
  BY <1>2, <1>5, ConcatProperties
<1>9. ChatTypes'
  <2>1. wire' \in [Sides -> Seq(Nat)]
    BY <1>2, <1>3, <1>8 DEF a
  <2>2. sendbuf' \in [Sides -> Seq(Nat)]
    BY <1>2, <1>3, <1>5 DEF b
  <2> QED
    BY <1>4, <1>7, <2>1, <2>2 DEF ChatInv, ChatTypes
<1>10. Follows(s, x)'
  <2>1. Follows(s, x)
    BY <1>1 DEF ChatInv
  <2> QED
    BY <1>4, <1>6, <1>7, <2>1, WireStays
<1>11. Follows(x, s)'
  <2>1. PICK p \in Nat : OnTheWay(x, s, p) /\ ShowsBytes(x, s, p)
    BY <1>1 DEF ChatInv, Follows
  <2>2. PICK w \in Nat : w = Len(wire[x])
    BY <1>2
  <2>3. PICK l \in Nat : l = Len(sendbuf[s])
    BY <1>2
  <2>4. /\ Carries(s, wire[x], p) /\ Carries(s, sendbuf[s], p + w)
        /\ (p + w) + l = MESSAGE * typed[s]
    BY <1>4, <2>1, <2>2, <2>3 DEF OnTheWay
  <2>5. Carries(s, a, p + w) /\ Carries(s, b, (p + w) + k)
    BY <1>2, <2>4, CarriesParts DEF a, b
  <2>6. Carries(s, wire'[x], p)
    BY <1>2, <1>5, <1>6, <2>2, <2>4, <2>5, CarriesBoth
  <2>7. PICK v \in Nat : v = Len(wire'[x]) /\ v = w + k
    BY <1>6, <1>8, <2>2
  <2>8. Carries(s, sendbuf'[s], p + v) /\ (p + v) + Len(sendbuf'[s]) = MESSAGE * typed'[s]
    <3>1. (p + w) + k = p + v
      BY <2>7
    <3>2. Len(sendbuf'[s]) = l - k
      BY <1>5, <1>6, <2>3
    <3>3. (p + v) + (l - k) = (p + w) + l
      BY <2>7
    <3> QED
      BY <1>4, <1>6, <2>4, <2>5, <3>1, <3>2, <3>3
  <2>9. PICK r \in Nat, t \in Nat : r = Len(sendbuf'[s]) /\ t = MESSAGE * typed'[s]
    BY <1>2, <1>4, <1>5, <1>6
  <2>10. (p + v) + r = t
    BY <2>8, <2>9
  <2>11. sender'[s] = "fgets" => p + v = MESSAGE * typed'[s]
    <3>1. sender'[s] = "fgets" => Len(sendbuf'[s]) = 0
      BY <1>6, <1>7
    <3>2. r = 0 => p + v = t
      BY <2>10
    <3> QED
      BY <2>9, <3>1, <3>2
  <2>12. OnTheWay(x, s, p)'
    <3>1. p + v <= t
      BY <2>10
    <3>2. p + v <= MESSAGE * typed'[s]
      BY <2>9, <3>1
    <3> QED
      BY <2>6, <2>7, <2>8, <2>11, <3>2 DEF OnTheWay
  <2>13. ShowsBytes(x, s, p)'
    BY <1>4, <2>1, ShownStays
  <2> QED
    BY <2>12, <2>13 DEF Follows
<1> QED
  BY <1>1, <1>9, <1>10, <1>11 DEF ChatInv

\* A write in vain: what it should have sent is gone.
LEMMA VainKeeps ==
    ASSUME ChatInv, NEW s \in Sides, SenderInVain(s)
    PROVE  ChatInv'
<1>1. PICK x \in Sides : x = Other(s) /\ s = Other(x) /\ x # s /\ \A y \in Sides : y = s \/ y = x
  BY SidesAre
<1>2. CASE SenderEnds(s)
  BY <1>2, EndsKeep
<1>3. CASE /\ sender' = [sender EXCEPT ![s] = "fgets"]
           /\ sendbuf' = [sendbuf EXCEPT ![s] = << >>]
           /\ UNCHANGED <<typed, receivers, connection>>
  <2>1. /\ UNCHANGED <<typed, receiver, shown, reads, wire, told>>
        /\ told[s] # "up" /\ UNCHANGED <<sender[x], sendbuf[x]>>
        /\ sender' \in [Sides -> {"fgets", "write", "ended"}]
        /\ sendbuf' \in [Sides -> Seq(Nat)]
    BY <1>1, <1>3 DEF SenderInVain, ChatInv, ChatTypes, receivers, connection
  <2>2. ChatTypes'
    BY <2>1 DEF ChatInv, ChatTypes
  <2>3. Follows(s, x) /\ Follows(x, s)
    BY <1>1 DEF ChatInv
  <2>4. Follows(s, x)'
    BY <2>1, <2>3, WireStays
  <2>5. wire[x] = SubSeq(wire[x], 1, Len(wire[x])) /\ Len(wire[x]) \in 0 .. Len(wire[x])
    BY SubSeqFull DEF ChatInv, ChatTypes
  <2>6. Follows(x, s)'
    BY <2>1, <2>3, <2>5, WireCut DEF ChatInv
  <2> QED
    BY <1>1, <2>2, <2>4, <2>6 DEF ChatInv
<1> QED
  BY <1>2, <1>3 DEF SenderInVain

\* What a read shows is text behind all that was shown before.
LEMMA ReadShows ==
    ASSUME ChatTypes, NEW s \in Sides, NEW o \in Sides, NEW p \in Nat,
           ShowsBytes(s, o, p),
           NEW c \in Seq(Nat), Len(c) \in 1 .. MESSAGE, Carries(o, c, p),
           p + Len(c) <= MESSAGE * Len(Texts[o]),
           shown'[s] = shown[s] \o Shows(c), reads'[s] = Append(reads[s], Len(c))
    PROVE  ShowsBytes(s, o, p + Len(c))' /\ shown'[s] \in Seq(Int)
<1>1. PICK k \in Nat : k = Len(c) /\ k >= 1 /\ k <= MESSAGE /\ MESSAGE \in Nat
  BY ChatAssumption
<1>2. PICK n \in 0 .. k :
         /\ Shows(c) = SubSeq(c, 1, n)
         /\ \A j \in 1 .. n : IsText(o, (p + j) - 1)
         /\ \A l \in Nat : k = MESSAGE /\ p = MESSAGE * l =>
               \A j \in n + 1 .. MESSAGE : ~ IsText(o, (p + j) - 1)
  <2>1. \E n \in 0 .. Len(c) :
              /\ Shows(c) = SubSeq(c, 1, n)
              /\ \A j \in 1 .. n : IsText(o, (p + j) - 1)
              /\ \A l \in Nat : Len(c) = MESSAGE /\ p = MESSAGE * l =>
                    \A j \in n + 1 .. MESSAGE : ~ IsText(o, (p + j) - 1)
    BY ShowsText
  <2>2. Len(c) = k
    BY <1>1
  <2> QED
    BY <2>1, <2>2
<1>3. PICK d \in [1 .. Len(shown[s]) -> Nat] :
       /\ \A j \in DOMAIN d : d[j] < p /\ IsText(o, d[j]) /\ shown[s][j] = ByteAt(o, d[j])
       /\ \A i, j \in DOMAIN d : i < j => d[i] < d[j]
       /\ FullReads(s) => /\ p = MESSAGE * Len(reads[s])
                          /\ \A q \in Nat : q < p /\ IsText(o, q) => \E j \in DOMAIN d : d[j] = q
  BY DEF ShowsBytes
<1>4. PICK h \in Nat : h = Len(shown[s])
  BY DEF ChatTypes
<1>5. PICK r \in Nat : r = Len(reads[s])
  BY DEF ChatTypes
<1> DEFINE e == [j \in 1 .. h + n |-> IF j <= h THEN d[j] ELSE (p + (j - h)) - 1]
<1>6. /\ SubSeq(c, 1, n) \in Seq(Int) /\ Len(SubSeq(c, 1, n)) = n
      /\ \A j \in 1 .. n : SubSeq(c, 1, n)[j] = ByteAt(o, (p + j) - 1)
  <2>1. n \in 0 .. Len(c)
    BY <1>1, <1>2
  <2>2. /\ SubSeq(c, 1, n) \in Seq(Nat) /\ Len(SubSeq(c, 1, n)) = n
        /\ \A j \in 1 .. n : SubSeq(c, 1, n)[j] = c[j]
    BY <2>1, InTwo
  <2>3. \A j \in 1 .. n : c[j] = ByteAt(o, (p + j) - 1)
    BY <2>1 DEF Carries
  <2>4. SubSeq(c, 1, n) \in Seq(Int)
    BY <2>2
  <2> QED
    BY <2>2, <2>3, <2>4
<1>7. /\ shown'[s] \in Seq(Int) /\ Len(shown'[s]) = h + n
      /\ \A j \in 1 .. h + n :
            shown'[s][j] = IF j <= h THEN shown[s][j] ELSE SubSeq(c, 1, n)[j - h]
  <2>1. shown[s] \in Seq(Int)
    BY DEF ChatTypes
  <2> DEFINE a == SubSeq(c, 1, n)
  <2>2. shown'[s] = shown[s] \o a
    BY <1>2
  <2>3. a \in Seq(Int) /\ Len(a) = n
    BY <1>6
  <2> HIDE DEF a
  <2>4. /\ shown[s] \o a \in Seq(Int) /\ Len(shown[s] \o a) = Len(shown[s]) + Len(a)
        /\ \A j \in 1 .. Len(shown[s]) + Len(a) :
              (shown[s] \o a)[j] = IF j <= Len(shown[s]) THEN shown[s][j] ELSE a[j - Len(shown[s])]
    BY <2>1, <2>3, ConcatProperties
  <2> QED
    BY <1>4, <2>2, <2>3, <2>4 DEF a
<1>8. ASSUME NEW j \in 1 .. h + n
      PROVE  /\ e[j] \in Nat /\ e[j] < p + k /\ IsText(o, e[j])
             /\ shown'[s][j] = ByteAt(o, e[j])
             /\ j <= h => e[j] = d[j] /\ e[j] < p
             /\ j > h => e[j] = (p + (j - h)) - 1
  <2>1. CASE j <= h
    <3>1. j \in DOMAIN d /\ e[j] = d[j] /\ d[j] \in Nat
      <4>1. j \in 1 .. h
        BY <2>1
      <4>2. j \in 1 .. Len(shown[s])
        BY <1>4, <4>1
      <4>3. e[j] = d[j]
        BY <2>1
      <4> HIDE DEF e
      <4> QED
        BY <4>2, <4>3
    <3>2. d[j] < p /\ IsText(o, d[j]) /\ shown[s][j] = ByteAt(o, d[j])
      BY <1>3, <3>1
    <3>3. shown'[s][j] = shown[s][j]
      BY <1>7, <2>1
    <3>4. d[j] < p + k
      BY <1>1, <3>1, <3>2
    <3> HIDE DEF e
    <3>5. ~ (j > h)
      BY <1>4, <2>1
    <3> QED
      BY <2>1, <3>1, <3>2, <3>3, <3>4, <3>5
  <2>2. CASE j > h
    <3>1. PICK i \in 1 .. n : i = j - h
      <4>1. j - h \in 1 .. n
        BY <2>2
      <4> QED
        BY <4>1
    <3>2. ~ (j <= h) /\ h \in Nat /\ n \in Nat /\ i \in Nat /\ i <= k /\ i >= 1
      <4>1. ~ (j <= h) /\ n \in Nat /\ i \in Nat /\ i <= k /\ i >= 1
        BY <2>2
      <4> QED
        BY <4>1
    <3>3. e[j] = (p + i) - 1 /\ e[j] = (p + (j - h)) - 1
      BY <3>1, <3>2
    <3> HIDE DEF e
    <3>4. e[j] \in Nat /\ e[j] < p + k
      <4>1. (p + i) - 1 \in Nat /\ (p + i) - 1 < p + k
        BY <3>2
      <4> QED
        BY <3>3, <4>1
    <3>5. IsText(o, e[j])
      BY <1>2, <3>1, <3>3
    <3>6. shown'[s][j] = SubSeq(c, 1, n)[i]
      BY <1>7, <3>1, <3>2
    <3>7. shown'[s][j] = ByteAt(o, e[j])
      BY <1>6, <3>1, <3>3, <3>6
    <3> QED
      BY <3>2, <3>3, <3>4, <3>5, <3>7
  <2>3. j <= h \/ j > h
    OBVIOUS
  <2> HIDE DEF e
  <2> QED
    BY <2>1, <2>2, <2>3
<1>9. e \in [1 .. h + n -> Nat] /\ DOMAIN e = 1 .. h + n
  BY <1>8
<1> HIDE DEF e
<1>10. ASSUME NEW i \in 1 .. h + n, NEW j \in 1 .. h + n, i < j
       PROVE  e[i] < e[j]
  <2>1. CASE j <= h
    <3>1. i \in DOMAIN d /\ j \in DOMAIN d
      BY <1>4, <1>10, <2>1
    <3>2. d[i] < d[j]
      BY <1>3, <1>10, <3>1
    <3>3. i <= h
      BY <1>10, <2>1
    <3>4. e[i] = d[i] /\ e[j] = d[j]
      BY <1>8, <2>1, <3>3
    <3> QED
      BY <3>2, <3>4
  <2>2. CASE i <= h /\ j > h
    BY <1>8, <2>2
  <2>3. CASE i > h
    BY <1>8, <1>10, <2>3
  <2> QED
    BY <2>1, <2>2, <2>3
<1>11. /\ Len(reads'[s]) = r + 1
       /\ \A j \in 1 .. r : reads'[s][j] = reads[s][j]
       /\ reads'[s][r + 1] = k
  BY <1>1, <1>5, AppendProperties DEF ChatTypes
<1>12. ASSUME FullReads(s)'
       PROVE  /\ p + k = MESSAGE * (r + 1)
              /\ \A q \in Nat : q < p + k /\ IsText(o, q) => \E j \in 1 .. h + n : e[j] = q
  <2>1. FullReads(s) /\ k = MESSAGE
    BY <1>5, <1>11, <1>12 DEF FullReads
  <2>2. p = MESSAGE * r
    BY <1>3, <1>5, <2>1
  <2>3. p + k = MESSAGE * (r + 1)
    BY <1>1, <2>1, <2>2
  <2>4. ASSUME NEW q \in Nat, q < p + k, IsText(o, q)
        PROVE  \E j \in 1 .. h + n : e[j] = q
    <3>1. CASE q < p
      <4>1. PICK j \in DOMAIN d : d[j] = q
        BY <1>3, <2>1, <2>4, <3>1
      <4>2. j \in 1 .. h + n /\ j <= h
        BY <1>4, <4>1
      <4> QED
        BY <1>8, <4>1, <4>2
    <3>2. CASE q >= p
      <4>1. PICK i \in 1 .. MESSAGE : i = (q - p) + 1
        BY <1>1, <2>1, <2>4, <3>2
      <4>2. q = (p + i) - 1
        BY <4>1
      <4>3. i \in 1 .. n
        <5>1. i \in n + 1 .. MESSAGE => ~ IsText(o, q)
          BY <1>2, <2>1, <2>2, <4>2
        <5> QED
          BY <1>1, <2>4, <5>1
      <4>4. PICK j \in 1 .. h + n : j = h + i
        BY <4>3
      <4>5. e[j] = (p + (j - h)) - 1
        BY <1>8, <4>3, <4>4
      <4> QED
        BY <4>2, <4>4, <4>5
    <3> QED
      BY <3>1, <3>2
  <2> QED
    BY <2>3, <2>4
<1>13. ShowsBytes(s, o, p + k)'
  <2>1. e \in [1 .. Len(shown[s])' -> Nat]
    BY <1>7, <1>9
  <2>2. \A j \in DOMAIN e : e[j] < p + k /\ IsText(o, e[j]) /\ shown'[s][j] = ByteAt(o, e[j])
    BY <1>8, <1>9
  <2>3. \A i, j \in DOMAIN e : i < j => e[i] < e[j]
    BY <1>9, <1>10
  <2>4. FullReads(s)' => /\ p + k = MESSAGE * Len(reads'[s])
                         /\ \A q \in Nat : q < p + k /\ IsText(o, q) => \E j \in DOMAIN e : e[j] = q
    BY <1>9, <1>11, <1>12
  <2> QED
    BY <2>1, <2>2, <2>3, <2>4, Zenon DEF ShowsBytes
<1> QED
  BY <1>1, <1>7, <1>13

\* A read takes a part of what has arrived.
LEMMA ReadKeeps ==
    ASSUME ChatInv, NEW s \in Sides, ReceiverReads(s)
    PROVE  ChatInv'
<1>1. PICK o \in Sides : o = Other(s) /\ s = Other(o) /\ o # s /\ \A y \in Sides : y = s \/ y = o
  BY SidesAre
<1>2. PICK k \in 1 .. Len(wire[s]) :
         /\ k <= MESSAGE
         /\ shown' = [shown EXCEPT ![s] = @ \o Shows(SubSeq(wire[s], 1, k))]
         /\ reads' = [reads EXCEPT ![s] = Append(@, k)]
         /\ wire' = [wire EXCEPT ![s] = SubSeq(@, k + 1, Len(@))]
  BY DEF ReceiverReads
<1>3. UNCHANGED <<sender, sendbuf, typed, receiver, told>>
  BY DEF ReceiverReads, senders
<1>4. /\ wire[s] \in Seq(Nat) /\ wire \in [Sides -> Seq(Nat)]
      /\ shown \in [Sides -> Seq(Int)] /\ reads \in [Sides -> Seq(Nat)]
      /\ typed[o] \in Nat /\ typed[o] <= Len(Texts[o]) /\ Len(Texts[o]) \in Nat
      /\ MESSAGE \in Nat
  BY ChatAssumption DEF ChatInv, ChatTypes
<1> DEFINE b == SubSeq(wire[s], k + 1, Len(wire[s]))
<1>5. PICK c \in Seq(Nat) : c = SubSeq(wire[s], 1, k)
  <2>1. k \in 0 .. Len(wire[s])
    BY <1>2, <1>4
  <2> QED
    BY <1>4, <2>1, InTwo
<1>6. Len(c) = k /\ b \in Seq(Nat) /\ Len(b) = Len(wire[s]) - k
  <2>1. k \in 0 .. Len(wire[s])
    BY <1>2, <1>4
  <2> QED
    BY <1>4, <1>5, <2>1, InTwo
<1>7. /\ shown'[s] = shown[s] \o Shows(c) /\ shown'[o] = shown[o]
      /\ reads'[s] = Append(reads[s], k) /\ reads'[o] = reads[o]
      /\ wire'[s] = b /\ wire'[o] = wire[o]
  BY <1>1, <1>2, <1>4, <1>5
<1> HIDE DEF b
<1>8. PICK p \in Nat : OnTheWay(s, o, p) /\ ShowsBytes(s, o, p)
  BY <1>1 DEF ChatInv, Follows
<1>9. Carries(o, c, p) /\ Carries(o, b, p + k)
  <2>1. k \in 0 .. Len(wire[s])
    BY <1>2, <1>4
  <2>2. Carries(o, wire[s], p)
    BY <1>8 DEF OnTheWay
  <2> QED
    BY <1>4, <1>5, <2>1, <2>2, CarriesParts DEF b
<1>10. PICK w \in Nat, t \in Nat : w = Len(wire[s]) /\ t = MESSAGE * typed[o]
  BY <1>4
<1>11. p + w <= t
  BY <1>8, <1>10 DEF OnTheWay
<1>12. ShowsBytes(s, o, p + k)' /\ shown'[s] \in Seq(Int)
  <2>1. t <= MESSAGE * Len(Texts[o]) /\ MESSAGE * Len(Texts[o]) \in Nat
    <3>1. PICK f \in Nat : Len(Texts[o]) = typed[o] + f
      <4>1. Len(Texts[o]) - typed[o] \in Nat
        BY <1>4
      <4>2. Len(Texts[o]) = typed[o] + (Len(Texts[o]) - typed[o])
        BY <1>4
      <4> QED
        BY <4>1, <4>2
    <3>2. PICK a \in Nat : a = typed[o]
      BY <1>4
    <3>3. MESSAGE * Len(Texts[o]) = MESSAGE * a + MESSAGE * f
      BY <1>4, <3>1, <3>2
    <3>4. MESSAGE * a \in Nat /\ MESSAGE * f \in Nat /\ t = MESSAGE * a
      BY <1>4, <1>10, <3>1, <3>2
    <3> QED
      BY <3>3, <3>4
  <2>2. p + k <= MESSAGE * Len(Texts[o])
    <3>1. k <= w
      BY <1>4, <1>10
    <3>2. p + k <= t
      BY <1>11, <3>1
    <3> QED
      BY <2>1, <3>2
  <2>3. Len(c) = k /\ k \in 1 .. MESSAGE
    BY <1>2, <1>4, <1>6
  <2>4. c \in Seq(Nat) /\ Len(c) \in 1 .. MESSAGE /\ p + Len(c) <= MESSAGE * Len(Texts[o])
    BY <1>6, <2>2, <2>3
  <2>5. shown'[s] = shown[s] \o Shows(c) /\ reads'[s] = Append(reads[s], Len(c))
    BY <1>7, <2>3
  <2>6. ShowsBytes(s, o, p + Len(c))' /\ shown'[s] \in Seq(Int)
    <3>1. ChatTypes /\ ShowsBytes(s, o, p) /\ Carries(o, c, p)
      BY <1>8, <1>9 DEF ChatInv
    <3>2. shown'[s] = shown[s] \o Shows(c)
      BY <2>5
    <3>3. reads'[s] = Append(reads[s], Len(c))
      BY <2>5
    <3>4. Len(c) \in 1 .. MESSAGE /\ p + Len(c) <= MESSAGE * Len(Texts[o])
      BY <2>4
    <3> QED
      BY <2>4, <3>1, <3>2, <3>3, <3>4, ReadShows
  <2> QED
    BY <2>3, <2>6
<1>13. OnTheWay(s, o, p + k)'
  <2>1. PICK v \in Nat : v = Len(wire'[s]) /\ w = v + k
    <3>1. Len(b) + k = w /\ Len(b) \in Nat
      BY <1>2, <1>4, <1>6, <1>10
    <3> QED
      BY <1>7, <3>1
  <2>2. (p + k) + v = p + w
    <3>1. w = v + k
      BY <2>1
    <3> QED
      BY <3>1
  <2> QED
    BY <1>3, <1>7, <1>8, <1>9, <1>10, <1>11, <2>1, <2>2 DEF OnTheWay
<1>14. Follows(s, o)'
  BY <1>12, <1>13 DEF Follows
<1>15. Follows(o, s)'
  <2>1. Follows(o, s)
    BY <1>1 DEF ChatInv
  <2> QED
    BY <1>3, <1>7, <2>1, WireStays
<1>16. ChatTypes'
  <2>1. wire' \in [Sides -> Seq(Nat)]
    BY <1>2, <1>4, <1>6 DEF b
  <2>2. shown' \in [Sides -> Seq(Int)]
    BY <1>2, <1>4, <1>7, <1>12, <1>5
  <2>3. reads' \in [Sides -> Seq(Nat)]
    BY <1>2, <1>4
  <2> QED
    BY <1>3, <2>1, <2>2, <2>3 DEF ChatInv, ChatTypes
<1> QED
  BY <1>1, <1>14, <1>15, <1>16 DEF ChatInv

\* Every step.
LEMMA ChatStep == ChatInv /\ [ChatNext]_chatVars => ChatInv'
<1> SUFFICES ASSUME ChatInv, [ChatNext]_chatVars PROVE ChatInv'
  OBVIOUS
<1>1. CASE UNCHANGED chatVars
  <2>1. UNCHANGED <<sender, sendbuf, typed, receiver, shown, reads, wire, told>>
    BY <1>1 DEF chatVars, senders, receivers, connection
  <2>2. ChatTypes'
    BY <2>1 DEF ChatInv, ChatTypes
  <2>3. ASSUME NEW x \in Sides PROVE Follows(x, Other(x))'
    <3>1. Other(x) \in Sides /\ Follows(x, Other(x))
      BY SidesAre DEF ChatInv
    <3> QED
      BY <2>1, <3>1, WireStays
  <2> QED
    BY <2>2, <2>3 DEF ChatInv
<1>2. ASSUME NEW s \in Sides, FgetsLine(s) \/ SenderWrites(s) \/ SenderInVain(s)
      PROVE  ChatInv'
  BY <1>2, FgetsKeeps, WriteKeeps, VainKeeps
<1>3. ASSUME NEW s \in Sides, Handler(s) \/ SenderLeaves(s) PROVE ChatInv'
  BY <1>3, EndsKeep DEF Handler, SenderLeaves
<1>4. ASSUME NEW s \in Sides, ReceiverReads(s) PROVE ChatInv'
  BY <1>4, ReadKeeps
<1>5. ASSUME NEW s \in Sides, ReceiverEof(s) \/ Kill(s) PROVE ChatInv'
  BY <1>5, QuietKeeps
<1>6. ASSUME NEW s \in Sides, ReceiverCloses(s) \/ ReadError(s) \/ ReceiverKilled(s)
      PROVE  ChatInv'
  BY <1>6, EndsKeep DEF ReceiverCloses, ReadError, ReceiverKilled
<1> QED
  BY <1>1, <1>2, <1>3, <1>4, <1>5, <1>6 DEF ChatNext, Sender, Receiver

\* What a side shows was typed on the other side, in order and none twice,
\* however the connection cuts it, and whoever ends when; and nothing is
\* missing as long as each read takes a message.
THEOREM ChatShows == ChatSpec => []ShownInOrder
<1>1. ChatInit => ChatInv
  BY ChatInitially
<1>2. ChatInv /\ [ChatNext]_chatVars => ChatInv'
  BY ChatStep
<1>3. ChatInv => ShownInOrder
  BY ShownFollows
<1> QED
  BY <1>1, <1>2, <1>3, PTL DEF ChatSpec
=============================================================================
