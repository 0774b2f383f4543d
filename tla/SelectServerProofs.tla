------------------------- MODULE SelectServerProofs -------------------------
(***************************************************************************)
(* The safety of the select server's table and rounds, for any number of   *)
(* clients, whatever they send, and any limits with OPEN_MAX <= FD_SETSIZE:*)
(* types, agreement of the kernel's table with `client` and `allset`, the  *)
(* count nready, readiness that still holds when it is used, a slot for    *)
(* every connection that is accepted, and faithful echoes.                 *)
(***************************************************************************)
EXTENDS SelectServer, LineIOProofs, FiniteSetTheorems

\* The types of the server's own variables; with KernelInv and LineTypeOK
\* they make up TypeOK.
ServerTypeOK ==
    /\ pc \in {"select", "accept", "scan", "read", "echo", "dead"}
    /\ client \in [Slots -> ConnFds \cup {-1}]
    /\ maxi \in Slots
    /\ maxfd \in ConnFds \cup {LISTENFD}
    /\ allset \in SUBSET (ConnFds \cup {LISTENFD})
    /\ rset \in SUBSET (ConnFds \cup {LISTENFD})
    /\ nready \in Nat
    /\ i \in Nat

InRound == pc \in {"accept", "scan", "read", "echo"}
InSession == pc \in {"read", "echo"}

\* The slot that is looked at in a session is one that select found ready.
SessionHits == InSession => i \in Slots /\ client[i] \in rset /\ client[i] # -1

\* recvbuf is empty between sessions, and not while something is echoed.
LineInSession == /\ InRound \/ pc = "select" => (line # << >> => InSession)
                 /\ pc = "echo" => line # << >>

\* What select found is still so, but for the connection being served once
\* readline has taken bytes from it.
StillReady ==
    /\ pc = "accept" => /\ LISTENFD \in rset
                        /\ rset \subseteq {LISTENFD} \cup OpenFds
                        /\ backlog # << >>
    /\ InRound => \A f \in Pending \ {LISTENFD} :
          Readable(fds[f]) \/ (InSession /\ f = client[i] /\ line # << >>)

\* The inductive invariant.
Inv == /\ KernelInv /\ LineTypeOK /\ ServerTypeOK
       /\ TableAgrees /\ NreadyExact
       /\ SessionHits /\ LineInSession /\ StillReady

----------------------------------------------------------------------------
(* Facts about the table                                                   *)

\* The descriptors are natural numbers, finitely many, LISTENFD not one of
\* the connections', and fewer than the slots.
LEMMA Sizes ==
    /\ ConnFds \subseteq Nat /\ IsFiniteSet(ConnFds)
    /\ LISTENFD \notin ConnFds /\ -1 \notin ConnFds
    /\ IsFiniteSet(Slots) /\ 0 \in Slots
    /\ Cardinality(ConnFds) < Cardinality(Slots)
<1>1. /\ LISTENFD + 1 \in Int /\ OPEN_MAX - 1 \in Int
      /\ 0 \in Int /\ FD_SETSIZE - 1 \in Int
    BY KernelAssumption, SetsizeAssumption DEF LISTENFD
<1>2. /\ IsFiniteSet(ConnFds)
      /\ Cardinality(ConnFds) = (OPEN_MAX - 1) - (LISTENFD + 1) + 1
    BY <1>1, FS_Interval, KernelAssumption DEF ConnFds, LISTENFD
<1>3. /\ IsFiniteSet(Slots)
      /\ Cardinality(Slots) = FD_SETSIZE
    BY <1>1, FS_Interval, KernelAssumption, SetsizeAssumption DEF Slots, LISTENFD
<1> QED
    BY <1>2, <1>3, KernelAssumption, SetsizeAssumption DEF ConnFds, Slots, LISTENFD

\* Connections are fewer than slots and no two slots share one.
LEMMA SlotIsFree == ServerTypeOK /\ TableAgrees => FreeSlots # {}
<1> SUFFICES ASSUME ServerTypeOK, TableAgrees, FreeSlots = {} PROVE FALSE
    OBVIOUS
<1>1. client \in [Slots -> ConnFds]
    BY DEF ServerTypeOK, FreeSlots
<1>2. \E s, t \in Slots : s # t /\ client[s] = client[t]
    BY <1>1, Sizes, FS_PigeonHole
<1>3. \A s \in Slots : client[s] # -1
    BY <1>1, Sizes
<1> QED
    BY <1>2, <1>3 DEF TableAgrees

\* What is pending is finite, and but for the listening socket open.
LEMMA PendingFacts ==
    ASSUME ServerTypeOK, TableAgrees, StillReady, InRound
    PROVE  /\ IsFiniteSet(Pending)
           /\ \A f \in Pending : f # LISTENFD => f \in OpenFds
           /\ pc # "accept" => LISTENFD \notin Pending
<1>1. IsFiniteSet(ConnFds \cup {LISTENFD})
    BY Sizes, FS_AddElement
<1>2. Pending \in SUBSET (ConnFds \cup {LISTENFD})
    BY DEF Pending, ServerTypeOK
<1>3. IsFiniteSet(Pending)
    BY <1>1, <1>2, FS_Subset
<1>4. CASE pc = "accept"
    BY <1>3, <1>4 DEF Pending, StillReady
<1>5. CASE pc # "accept"
  <2>1. \A f \in Pending : \E s \in Slots : client[s] = f
    BY <1>5 DEF Pending
  <2>2. \A s \in Slots : client[s] # LISTENFD
    BY Sizes DEF ServerTypeOK, LISTENFD
  <2>3. \A f \in Pending : f # -1
    BY <1>2, Sizes DEF LISTENFD
  <2> QED
    BY <1>3, <1>5, <2>1, <2>2, <2>3 DEF TableAgrees
<1> QED
    BY <1>4, <1>5

\* The connection that is served is open, and pending.
LEMMA SessionFacts ==
    ASSUME Inv, InSession
    PROVE  /\ client[i] \in OpenFds
           /\ client[i] \in ConnFds
           /\ client[i] \in Pending
           /\ Served \in Clients
<1>1. i \in Slots /\ client[i] \in rset /\ client[i] # -1
    BY DEF Inv, SessionHits
<1>2. client[i] \in OpenFds
    BY <1>1 DEF Inv, TableAgrees
<1>3. i >= i
    BY DEF Inv, ServerTypeOK
<1>4. client[i] \in Pending
    BY <1>1, <1>3 DEF Pending, InSession
<1> QED
    BY <1>2, <1>4 DEF OpenFds, Served, Inv, KernelInv, KernelTypeOK

\* Who else is pending is another client.
LEMMA OthersApart ==
    ASSUME Inv, InSession, NEW f \in Pending, f # client[i]
    PROVE  f \in OpenFds /\ fds[f] \in Clients \ {Served}
<1>1. f # LISTENFD /\ f \in OpenFds
    BY PendingFacts DEF Inv, InRound, InSession
<1> QED
    BY <1>1, SessionFacts DEF OpenFds, Served, Inv, KernelInv, KernelTypeOK, FdsAgree

\* One descriptor handled: the round ends, or the count is that of the rest.
LEMMA HandledCounts ==
    ASSUME NreadyExact, InRound, IsFiniteSet(Pending), nready \in Nat,
           NEW x \in Pending, NEW s, OneHandled(s)
    PROVE  \/ EndRound
           \/ /\ pc' = "scan" /\ i' = s /\ rset' = rset
              /\ nready' \in Nat /\ nready' > 0
              /\ nready' = Cardinality(Pending \ {x})
<1>1. nready = Cardinality(Pending) /\ nready > 0
    BY DEF NreadyExact, InRound
<1>2. Cardinality(Pending \ {x}) = nready - 1
    BY <1>1, FS_RemoveElement
<1> QED
    BY <1>1, <1>2 DEF OneHandled

\* The end of a round needs no more than the table.
LEMMA RoundEnds ==
    ASSUME EndRound, line' = << >>
    PROVE  NreadyExact' /\ SessionHits' /\ LineInSession' /\ StillReady'
BY DEF EndRound, NreadyExact, SessionHits, LineInSession, StillReady, InRound, InSession

----------------------------------------------------------------------------
(* The initial state and the steps                                         *)

\* The server starts with an empty table and no session.
LEMMA InvInit == Init => Inv
<1> SUFFICES ASSUME Init PROVE Inv
    OBVIOUS
<1>1. KernelInv /\ LineTypeOK
    BY KernelInvInit DEF Init, LineTypeOK
<1>2. ServerTypeOK
    BY Sizes DEF Init, ServerTypeOK
<1>3. OpenFds = {}
    BY DEF Init, KernelInit, OpenFds
<1>4. TableAgrees
    BY <1>3 DEF Init, TableAgrees
<1>5. NreadyExact /\ SessionHits /\ LineInSession /\ StillReady
    BY DEF Init, NreadyExact, SessionHits, LineInSession, StillReady, InRound, InSession
<1> QED
    BY <1>1, <1>2, <1>4, <1>5 DEF Inv

\* A client's step.
LEMMA InvEnvironment == Inv /\ Environment => Inv'
<1> SUFFICES ASSUME Inv, Environment PROVE Inv'
    OBVIOUS
<1>1. PICK c \in Clients : ClientStep(c)
    BY DEF Environment
<1>2. UNCHANGED <<line, pc, client, maxi, maxfd, allset, rset, nready, i>>
    BY DEF Environment, table, round
<1>3. /\ KernelInv'
      /\ UNCHANGED fds
      /\ backlog # << >> => backlog' # << >>
      /\ \A d \in Clients : Readable(d) => Readable(d)'
    BY <1>1, ClientKeeps DEF Inv
<1>4. OpenFds' = OpenFds /\ Pending' = Pending
    BY <1>2, <1>3 DEF OpenFds, Pending
<1>5. TableAgrees' /\ ServerTypeOK' /\ LineTypeOK'
    BY <1>2, <1>4 DEF Inv, TableAgrees, ServerTypeOK, LineTypeOK
<1>6. NreadyExact' /\ SessionHits' /\ LineInSession'
    BY <1>2, <1>4 DEF Inv, NreadyExact, SessionHits, LineInSession, InRound, InSession
<1>7. StillReady'
  <2>1. pc = "accept" => /\ LISTENFD \in rset'
                         /\ rset' \subseteq {LISTENFD} \cup OpenFds'
                         /\ backlog' # << >>
    BY <1>2, <1>3, <1>4 DEF Inv, StillReady
  <2>2. ASSUME InRound, NEW f \in Pending \ {LISTENFD}
        PROVE  Readable(fds[f])' \/ (InSession /\ f = client[i] /\ line # << >>)
    <3>1. f \in OpenFds
      BY <2>2, PendingFacts DEF Inv
    <3>2. fds[f] \in Clients
      BY <3>1 DEF OpenFds, Inv, KernelInv, KernelTypeOK
    <3>3. Readable(fds[f]) => Readable(fds[f])'
      BY <1>3, <3>2 DEF Readable
    <3> QED
      BY <2>2, <3>3 DEF Inv, StillReady
  <2>3. InRound' = InRound /\ InSession' = InSession
    BY <1>2 DEF InRound, InSession
  <2>4. InRound => \A f \in Pending \ {LISTENFD} :
            Readable(fds[f])' \/ (InSession /\ f = client[i] /\ line # << >>)
    BY <2>2
  <2> QED
    BY <1>2, <1>4, <2>1, <2>3, <2>4 DEF StillReady
<1> QED
    BY <1>3, <1>5, <1>6, <1>7 DEF Inv

\* select returns: the round is that of the descriptors it found.
LEMMA InvSelect == Inv /\ Select => Inv'
<1> SUFFICES ASSUME Inv, Select PROVE Inv'
    OBVIOUS
<1>1. /\ UNCHANGED <<link, backlog, fds, sent, away, taken, echoed, got, line>>
      /\ UNCHANGED <<client, maxi, maxfd, allset>>
      /\ rset' = {f \in Watched : Ready(f)} /\ rset' # {}
      /\ nready' = Cardinality(rset')
      /\ pc' = IF LISTENFD \in rset' THEN "accept" ELSE "scan"
      /\ i' = 0 /\ pc = "select"
    BY DEF Select, lineio, kernel, table
<1>2. KernelInv' /\ LineTypeOK'
    BY <1>1 DEF Inv, KernelInv, KernelTypeOK, StreamsInBounds, QueueAgrees, FdsAgree,
                LineTypeOK
<1>3. OpenFds' = OpenFds
    BY <1>1 DEF OpenFds
<1>4. TableAgrees'
    BY <1>1, <1>3 DEF Inv, TableAgrees
<1>5. rset' \subseteq allset /\ allset = {LISTENFD} \cup OpenFds
    BY <1>1 DEF Inv, TableAgrees, Watched
<1>6. IsFiniteSet(rset') /\ rset' \in SUBSET (ConnFds \cup {LISTENFD})
  <2>1. IsFiniteSet(ConnFds \cup {LISTENFD})
    BY Sizes, FS_AddElement
  <2> QED
    BY <1>5, <2>1, FS_Subset DEF Inv, ServerTypeOK
<1>7. nready' \in Nat /\ nready' > 0
    BY <1>1, <1>6, FS_CardinalityType, FS_EmptySet
<1>8. ServerTypeOK'
    BY <1>1, <1>6, <1>7 DEF Inv, ServerTypeOK
<1>9. Pending' = rset'
  <2>1. CASE LISTENFD \in rset'
    BY <1>1, <2>1 DEF Pending
  <2>2. CASE LISTENFD \notin rset'
    <3>1. \A f \in rset' : \E s \in Slots : client[s] = f
      <4>1. 0 .. maxi \subseteq Slots
        BY SetsizeAssumption DEF Inv, ServerTypeOK, Slots
      <4> QED
        BY <1>5, <2>2, <4>1 DEF Inv, TableAgrees
    <3>2. \A s \in Slots : s >= 0
      BY DEF Slots
    <3> QED
      BY <1>1, <2>2, <3>1, <3>2 DEF Pending
  <2> QED
    BY <2>1, <2>2
<1>10. NreadyExact'
    BY <1>1, <1>7, <1>9 DEF NreadyExact
<1>11. SessionHits' /\ LineInSession'
    BY <1>1 DEF Inv, SessionHits, LineInSession, InSession, InRound
<1>12. StillReady'
  <2>1. LISTENFD \in rset' => backlog # << >>
    BY <1>1 DEF Ready
  <2>2. \A f \in rset' \ {LISTENFD} : Readable(fds[f])
    BY <1>1 DEF Ready
  <2>3. \A f \in rset' \ {LISTENFD} : Readable(fds[f])'
    BY <1>1, <2>2 DEF Readable
  <2> QED
    BY <1>1, <1>3, <1>5, <1>9, <2>1, <2>3 DEF StillReady
<1> QED
    BY <1>2, <1>4, <1>8, <1>10, <1>11, <1>12 DEF Inv

\* Without a free descriptor the server exits and keeps its table.
LEMMA InvDie ==
    ASSUME Inv, Die, UNCHANGED lineio
    PROVE  Inv'
<1>1. /\ UNCHANGED <<link, backlog, fds, sent, away, taken, echoed, got, line>>
      /\ UNCHANGED <<client, maxi, maxfd, allset, rset, nready, i>>
      /\ pc' = "dead"
    BY DEF Die, lineio, kernel, table, round
<1>2. KernelInv' /\ LineTypeOK' /\ ServerTypeOK'
    BY <1>1 DEF Inv, KernelInv, KernelTypeOK, StreamsInBounds, QueueAgrees, FdsAgree,
                LineTypeOK, ServerTypeOK
<1>3. TableAgrees'
    BY <1>1 DEF Inv, TableAgrees, OpenFds
<1> QED
    BY <1>1, <1>2, <1>3 DEF Inv, NreadyExact, SessionHits, LineInSession, StillReady,
                            InRound, InSession

\* accept gives the connection a slot or ends the server.
LEMMA InvAccept == Inv /\ Accept => Inv'
<1> SUFFICES ASSUME Inv, Accept PROVE Inv'
    OBVIOUS
<1>1. PICK conn \in ConnFds : /\ AcceptAs(conn)
                              /\ IF FreeSlots = {} THEN Die
                                 ELSE Store(conn) /\ OneHandled(0)
    BY DEF Accept
<1>2. pc = "accept" /\ line' = line
    BY DEF Accept
<1>3. FreeSlots # {}
    BY SlotIsFree DEF Inv
<1>4. PICK s \in FreeSlots :
          /\ client' = [client EXCEPT ![s] = conn]
          /\ maxi' = IF s > maxi THEN s ELSE maxi
          /\ allset' = allset \cup {conn}
          /\ maxfd' = NewMaxfd(conn)
    BY <1>1, <1>3 DEF Store
<1>5. s \in Slots /\ client[s] = -1
  <2>1. s \in FreeSlots
    BY <1>4
  <2>2. s \in Slots /\ client[s] < 0
    BY <2>1 DEF FreeSlots
  <2>3. client[s] \in ConnFds \cup {-1}
    BY <2>2 DEF Inv, ServerTypeOK
  <2>4. client[s] \in ConnFds => client[s] \in Nat
    BY Sizes
  <2>5. client[s] \notin ConnFds
    BY <2>2, <2>4
  <2> QED
    BY <2>2, <2>3, <2>5
<1>6. /\ KernelInv'
      /\ fds[conn] = None /\ fds'[conn] \in Clients
      /\ \A g \in ConnFds \ {conn} : fds'[g] = fds[g]
      /\ UNCHANGED <<sent, away, taken>>
    BY <1>1, AcceptKeeps DEF Inv
<1>7. OpenFds' = OpenFds \cup {conn} /\ conn \notin OpenFds
    BY <1>6, KernelAssumption DEF OpenFds
<1>8. \A t \in Slots : client'[t] = IF t = s THEN conn ELSE client[t]
    BY <1>4, <1>5 DEF Inv, ServerTypeOK
<1>9. maxi' \in Slots /\ s <= maxi' /\ maxi <= maxi'
    BY <1>4, <1>5, SetsizeAssumption DEF Inv, ServerTypeOK, Slots
<1>10. /\ maxfd' \in ConnFds \cup {LISTENFD}
       /\ conn <= maxfd' /\ maxfd <= maxfd'
  <2>1. conn \in Nat /\ maxfd \in Nat
    BY Sizes DEF Inv, ServerTypeOK, LISTENFD
  <2>2. maxfd \in ConnFds \cup {LISTENFD}
    BY DEF Inv, ServerTypeOK
  <2> QED
    BY <1>4, <2>1, <2>2 DEF NewMaxfd
<1>11. TableAgrees'
  <2>1. allset' = {LISTENFD} \cup OpenFds'
    BY <1>4, <1>7 DEF Inv, TableAgrees
  <2>2. \A f \in OpenFds' : \E t \in 0 .. maxi' : client'[t] = f
    <3>1. s \in 0 .. maxi' /\ client'[s] = conn
      BY <1>5, <1>8, <1>9 DEF Slots
    <3>2. \A f \in OpenFds : \E t \in 0 .. maxi' : client'[t] = f
      <4> SUFFICES ASSUME NEW f \in OpenFds PROVE \E t \in 0 .. maxi' : client'[t] = f
          OBVIOUS
      <4>1. PICK t \in 0 .. maxi : client[t] = f
        BY DEF Inv, TableAgrees
      <4>2. t \in Slots /\ t \in 0 .. maxi'
        BY <1>9, SetsizeAssumption DEF Inv, ServerTypeOK, Slots
      <4>3. f # -1
        BY Sizes DEF OpenFds
      <4> QED
        BY <1>5, <1>8, <4>1, <4>2, <4>3
    <3> QED
      BY <1>7, <3>1, <3>2
  <2>3. \A t \in Slots : client'[t] # -1 => client'[t] \in OpenFds' /\ t <= maxi'
    <3>1. \A t \in Slots : t <= maxi => t <= maxi'
      BY <1>9 DEF Slots, Inv, ServerTypeOK
    <3> QED
      BY <1>5, <1>7, <1>8, <1>9, <3>1 DEF Inv, TableAgrees
  <2>4. \A t, u \in Slots : client'[t] = client'[u] /\ client'[t] # -1 => t = u
    BY <1>7, <1>8 DEF Inv, TableAgrees
  <2>5. \A f \in OpenFds' : f <= maxfd'
    <3>1. \A f \in OpenFds : f <= maxfd'
      BY <1>10, Sizes DEF Inv, TableAgrees, OpenFds, ServerTypeOK, LISTENFD
    <3> QED
      BY <1>7, <1>10, <3>1
  <2> QED
    BY <2>1, <2>2, <2>3, <2>4, <2>5 DEF TableAgrees
<1>12. LISTENFD \in rset /\ rset \subseteq {LISTENFD} \cup OpenFds
    BY <1>2 DEF Inv, StillReady
<1>13. InRound /\ ~ InSession /\ line = << >> /\ Pending = rset
    BY <1>2 DEF Inv, InRound, InSession, LineInSession, Pending
<1>14. OneHandled(0)
    BY <1>1, <1>3
<1>15. \/ EndRound
       \/ /\ pc' = "scan" /\ i' = 0 /\ rset' = rset
          /\ nready' \in Nat /\ nready' > 0
          /\ nready' = Cardinality(Pending \ {LISTENFD})
    BY <1>12, <1>13, <1>14, PendingFacts, HandledCounts DEF Inv, ServerTypeOK
<1>16. /\ pc' \in {"select", "scan"}
       /\ rset' \in SUBSET (ConnFds \cup {LISTENFD})
       /\ nready' \in Nat /\ i' = 0
    BY <1>15 DEF EndRound, Inv, ServerTypeOK
<1>17. ServerTypeOK' /\ LineTypeOK'
  <2>1. client' \in [Slots -> ConnFds \cup {-1}]
    BY <1>4, <1>5 DEF Inv, ServerTypeOK
  <2>2. allset' \in SUBSET (ConnFds \cup {LISTENFD})
    BY <1>4 DEF Inv, ServerTypeOK
  <2> QED
    BY <1>2, <1>9, <1>10, <1>16, <2>1, <2>2 DEF Inv, ServerTypeOK, LineTypeOK
<1>18. NreadyExact' /\ SessionHits' /\ LineInSession' /\ StillReady'
  <2>1. CASE EndRound
    BY <1>2, <1>13, <2>1, RoundEnds
  <2>2. CASE pc' = "scan" /\ i' = 0 /\ rset' = rset /\ nready' > 0
             /\ nready' = Cardinality(Pending \ {LISTENFD})
    <3>1. \A f \in OpenFds : \E t \in Slots : t >= 0 /\ client'[t] = f
      <4> SUFFICES ASSUME NEW f \in OpenFds
                   PROVE  \E t \in Slots : t >= 0 /\ client'[t] = f
          OBVIOUS
      <4>1. PICK t \in 0 .. maxi' : client'[t] = f
        BY <1>7, <1>11 DEF TableAgrees
      <4> QED
        BY <1>9, <4>1, SetsizeAssumption DEF Slots
    <3>2. \A t \in Slots : client'[t] # LISTENFD
      BY <1>8, Sizes DEF Inv, ServerTypeOK, LISTENFD
    <3>3. Pending' = {f \in rset : \E t \in Slots : t >= 0 /\ client'[t] = f}
      BY <2>2 DEF Pending
    <3>4. Pending' = Pending \ {LISTENFD}
      BY <1>12, <1>13, <3>1, <3>2, <3>3
    <3>5. \A f \in Pending' : f \in OpenFds /\ Readable(fds[f])
      BY <1>2, <1>12, <1>13, <3>4 DEF Inv, StillReady
    <3>6. \A f \in Pending' : Readable(fds[f])'
      <4> SUFFICES ASSUME NEW f \in Pending' PROVE Readable(fds[f])'
          OBVIOUS
      <4>1. fds'[f] = fds[f]
        BY <1>6, <1>7, <3>5 DEF OpenFds
      <4> QED
        BY <1>6, <3>5, <4>1 DEF Readable
    <3> QED
      BY <1>2, <1>13, <2>2, <3>4, <3>6
         DEF NreadyExact, SessionHits, LineInSession, StillReady, InRound, InSession
  <2> QED
    BY <1>15, <2>1, <2>2
<1> QED
    BY <1>6, <1>11, <1>17, <1>18 DEF Inv

\* The scan finds a ready slot: something is pending, and what is pending has
\* a slot from i on.
LEMMA InvScan == Inv /\ Scan => Inv'
<1> SUFFICES ASSUME Inv, Scan PROVE Inv'
    OBVIOUS
<1>1. /\ UNCHANGED <<link, backlog, fds, sent, away, taken, echoed, got, line>>
      /\ UNCHANGED <<client, maxi, maxfd, allset>>
      /\ pc = "scan"
    BY DEF Scan, lineio, kernel, table
<1>2. InRound /\ ~ InSession /\ line = << >>
    BY <1>1 DEF Inv, InRound, InSession, LineInSession
<1>3. Pending # {}
    BY <1>2, FS_EmptySet DEF Inv, NreadyExact, InRound
<1>4. Hits # {}
  <2>1. PICK f \in Pending : TRUE
    BY <1>3
  <2>2. PICK s \in Slots : s >= i /\ client[s] = f /\ f \in rset
    BY <1>1, <2>1 DEF Pending
  <2>3. f # -1
    BY <2>2, Sizes DEF Inv, ServerTypeOK, LISTENFD
  <2>4. s \in i .. maxi
    BY <2>2, <2>3 DEF Inv, TableAgrees, ServerTypeOK, Slots
  <2> QED
    BY <2>2, <2>3, <2>4 DEF Hits
<1>5. /\ i' \in Hits /\ \A s \in Hits : i' <= s
      /\ pc' = "read" /\ UNCHANGED <<rset, nready>>
    BY <1>4 DEF Scan
<1>6. /\ i' \in i .. maxi /\ i' \in Slots
      /\ client[i'] # -1 /\ client[i'] \in rset
    BY <1>5, SetsizeAssumption DEF Hits, Inv, ServerTypeOK, Slots
<1>7. KernelInv' /\ LineTypeOK' /\ ServerTypeOK'
    BY <1>1, <1>5, <1>6
       DEF Inv, KernelInv, KernelTypeOK, StreamsInBounds, QueueAgrees, FdsAgree,
           LineTypeOK, ServerTypeOK, Slots
<1>8. OpenFds' = OpenFds /\ TableAgrees'
    BY <1>1 DEF Inv, TableAgrees, OpenFds
<1>9. Pending' = Pending
  <2>1. Pending = {f \in rset : \E s \in Slots : s >= i /\ client[s] = f}
    BY <1>1 DEF Pending
  <2>2. Pending' = {f \in rset : \E s \in Slots : s >= i' /\ client[s] = f}
    BY <1>1, <1>5 DEF Pending
  <2>3. ASSUME NEW s \in Slots, client[s] \in rset
        PROVE  s >= i <=> s >= i'
    <3>1. i' >= i
      BY <1>6 DEF Inv, ServerTypeOK
    <3>2. s >= i => s \in Hits
      <4>1. client[s] # -1
        BY <2>3, Sizes DEF Inv, ServerTypeOK, LISTENFD
      <4>2. s <= maxi
        BY <4>1 DEF Inv, TableAgrees
      <4> QED
        BY <2>3, <4>1, <4>2 DEF Hits, Inv, ServerTypeOK, Slots
    <3> QED
      BY <1>5, <1>6, <3>1, <3>2 DEF Inv, ServerTypeOK, Slots
  <2> QED
    BY <2>1, <2>2, <2>3
<1>10. NreadyExact' /\ SessionHits' /\ LineInSession'
    BY <1>1, <1>2, <1>5, <1>6, <1>9
       DEF Inv, NreadyExact, SessionHits, LineInSession, InRound, InSession
<1>11. StillReady'
  <2>1. \A f \in Pending \ {LISTENFD} : Readable(fds[f])
    BY <1>2 DEF Inv, StillReady
  <2>2. \A f \in Pending \ {LISTENFD} : Readable(fds[f])'
    BY <1>1, <2>1 DEF Readable
  <2> QED
    BY <1>5, <1>9, <2>2 DEF StillReady
<1> QED
    BY <1>7, <1>8, <1>10, <1>11 DEF Inv

----------------------------------------------------------------------------
(* The steps of a session                                                  *)

\* A step that leaves the session with something in recvbuf.
LEMMA SessionGoesOn ==
    ASSUME Inv, InSession, KernelInv', LineTypeOK', line' # << >>,
           pc' \in {"read", "echo"},
           UNCHANGED <<fds, client, maxi, maxfd, allset, rset, nready, i>>,
           \A d \in Clients \ {Served} : Readable(d) => Readable(d)'
    PROVE  Inv'
<1>1. InSession' /\ InRound' /\ InRound /\ pc # "accept" /\ pc' # "accept"
    BY DEF InSession, InRound
<1>2. OpenFds' = OpenFds /\ Pending' = Pending
    BY <1>1 DEF OpenFds, Pending
<1>3. ServerTypeOK' /\ TableAgrees'
    BY <1>2 DEF Inv, ServerTypeOK, TableAgrees
<1>4. NreadyExact' /\ SessionHits' /\ LineInSession'
    BY <1>1, <1>2 DEF Inv, NreadyExact, SessionHits, LineInSession, InRound
<1>5. \A f \in Pending \ {LISTENFD} : f # client[i] => Readable(fds[f])'
  <2> SUFFICES ASSUME NEW f \in Pending \ {LISTENFD}, f # client[i]
               PROVE  Readable(fds[f])'
      OBVIOUS
  <2>1. fds[f] \in Clients \ {Served}
    BY OthersApart
  <2>2. Readable(fds[f])
    BY <1>1 DEF Inv, StillReady
  <2> QED
    BY <2>1, <2>2 DEF Readable
<1>6. StillReady'
    BY <1>1, <1>2, <1>5 DEF StillReady
<1> QED
    BY <1>3, <1>4, <1>6 DEF Inv

\* The step that handles the slot: the others keep their connections.
LEMMA SessionEnds ==
    ASSUME Inv, InSession, KernelInv', LineTypeOK', line' = << >>,
           TableAgrees', OneHandled(i + 1),
           client' \in [Slots -> ConnFds \cup {-1}],
           allset' \in SUBSET (ConnFds \cup {LISTENFD}),
           UNCHANGED <<maxi, maxfd>>,
           \A t \in Slots \ {i} : client'[t] = client[t],
           \A f \in ConnFds \ {client[i]} : fds'[f] = fds[f],
           \A d \in Clients \ {Served} : Readable(d) => Readable(d)'
    PROVE  Inv'
<1>1. /\ InRound /\ pc # "accept" /\ nready \in Nat /\ i \in Nat
      /\ rset \in SUBSET (ConnFds \cup {LISTENFD})
    BY DEF InSession, InRound, Inv, ServerTypeOK
<1>2. i \in Slots /\ client[i] # -1 /\ client[i] \in Pending
    BY SessionFacts DEF Inv, SessionHits
<1>3. IsFiniteSet(Pending)
    BY <1>1, PendingFacts DEF Inv
<1>4. \/ EndRound
      \/ /\ pc' = "scan" /\ i' = i + 1 /\ rset' = rset
         /\ nready' \in Nat /\ nready' > 0
         /\ nready' = Cardinality(Pending \ {client[i]})
    BY <1>1, <1>2, <1>3, HandledCounts DEF Inv
<1>5. ServerTypeOK'
    BY <1>1, <1>4 DEF EndRound, Inv, ServerTypeOK
<1>6. NreadyExact' /\ SessionHits' /\ LineInSession' /\ StillReady'
  <2>1. CASE EndRound
    BY <2>1, RoundEnds
  <2>2. CASE /\ pc' = "scan" /\ i' = i + 1 /\ rset' = rset /\ nready' > 0
             /\ nready' = Cardinality(Pending \ {client[i]})
    <3>1. Pending = {f \in rset : \E t \in Slots : t >= i /\ client[t] = f}
      BY <1>1 DEF Pending
    <3>2. Pending' = {f \in rset : \E t \in Slots : t >= i + 1 /\ client'[t] = f}
      BY <2>2 DEF Pending
    <3>3. \A t \in Slots : t >= i + 1 <=> t >= i /\ t # i
      BY <1>1 DEF Slots
    <3>4. \A t \in Slots : t # i => client[t] # client[i]
      BY <1>2 DEF Inv, TableAgrees
    <3>5. Pending' = Pending \ {client[i]}
      BY <1>2, <3>1, <3>2, <3>3, <3>4
    <3>6. \A f \in Pending' : f # LISTENFD => Readable(fds[f])'
      <4> SUFFICES ASSUME NEW f \in Pending', f # LISTENFD PROVE Readable(fds[f])'
          OBVIOUS
      <4>1. f \in Pending /\ f # client[i]
        BY <3>5
      <4>2. fds[f] \in Clients \ {Served} /\ f \in ConnFds
        BY <4>1, OthersApart DEF OpenFds
      <4>3. Readable(fds[f])
        BY <1>1, <4>1 DEF Inv, StillReady
      <4>4. fds'[f] = fds[f]
        BY <4>1, <4>2
      <4> QED
        BY <4>2, <4>3, <4>4 DEF Readable
    <3> QED
      BY <2>2, <3>5, <3>6
         DEF NreadyExact, SessionHits, LineInSession, StillReady, InRound, InSession
  <2> QED
    BY <1>4, <2>1, <2>2
<1> QED
    BY <1>5, <1>6 DEF Inv

\* readline takes part of a line.
LEMMA InvReadMore == Inv /\ ReadMore => Inv'
<1> SUFFICES ASSUME Inv, ReadMore PROVE Inv'
    OBVIOUS
<1>1. InSession /\ ReadLinePart(Served) /\ pc' = "read"
      /\ UNCHANGED <<client, maxi, maxfd, allset, rset, nready, i>>
    BY DEF ReadMore, InSession, table, round
<1>2. Served \in Clients /\ KernelInv /\ LineTypeOK
    BY <1>1, SessionFacts DEF Inv
<1>3. /\ KernelInv' /\ LineTypeOK' /\ line' # << >> /\ UNCHANGED fds
      /\ \A d \in Clients \ {Served} : Readable(d) => Readable(d)'
    BY <1>1, <1>2, ReadLinePartKeeps
<1> QED
    BY <1>1, <1>3, SessionGoesOn

\* readline ends with a line in hand.
LEMMA InvReadDone == Inv /\ ReadDone => Inv'
<1> SUFFICES ASSUME Inv, ReadDone PROVE Inv'
    OBVIOUS
<1>1. InSession /\ ReadLineEnd(Served) /\ pc' = "echo"
      /\ UNCHANGED <<client, maxi, maxfd, allset, rset, nready, i>>
    BY DEF ReadDone, InSession, table, round
<1>2. Served \in Clients /\ KernelInv /\ LineTypeOK
    BY <1>1, SessionFacts DEF Inv
<1>3. /\ KernelInv' /\ LineTypeOK' /\ line' # << >> /\ UNCHANGED fds
      /\ \A d \in Clients \ {Served} : Readable(d) => Readable(d)'
    BY <1>1, <1>2, ReadLineEndKeeps
<1> QED
    BY <1>1, <1>3, SessionGoesOn

\* readline meets the end of the stream or an error: the session is closed.
LEMMA InvClose == Inv /\ Close => Inv'
<1> SUFFICES ASSUME Inv, Close PROVE Inv'
    OBVIOUS
<1>1. /\ InSession /\ CloseFd(client[i]) /\ OneHandled(i + 1) /\ line' = << >>
      /\ allset' = allset \ {client[i]}
      /\ client' = [client EXCEPT ![i] = -1]
      /\ UNCHANGED <<maxi, maxfd>>
    BY DEF Close, Forget, InSession
<1>2. /\ i \in Slots /\ client[i] # -1 /\ client[i] \in ConnFds
      /\ fds[client[i]] # None
    BY <1>1, SessionFacts DEF Inv, SessionHits, OpenFds
<1>3. /\ KernelInv'
      /\ fds'[client[i]] = None
      /\ \A g \in ConnFds \ {client[i]} : fds'[g] = fds[g]
      /\ UNCHANGED <<backlog, sent, away, taken>>
    BY <1>1, <1>2, CloseKeeps DEF Inv
<1>4. \A d \in Clients \ {Served} : Readable(d) => Readable(d)'
    BY <1>3 DEF Readable
<1>5. OpenFds' = OpenFds \ {client[i]}
    BY <1>2, <1>3 DEF OpenFds
<1>6. \A t \in Slots : client'[t] = IF t = i THEN -1 ELSE client[t]
    BY <1>1, <1>2 DEF Inv, ServerTypeOK
<1>7. TableAgrees'
  <2>1. allset' = {LISTENFD} \cup OpenFds'
    BY <1>1, <1>2, <1>5, Sizes DEF Inv, TableAgrees
  <2>2. 0 .. maxi \subseteq Slots
    BY SetsizeAssumption DEF Inv, ServerTypeOK, Slots
  <2>3. \A f \in OpenFds' : \E t \in 0 .. maxi : client'[t] = f
    BY <1>5, <1>6, <2>2 DEF Inv, TableAgrees
  <2>4. \A t \in Slots : client'[t] # -1 => t # i /\ client'[t] = client[t]
    BY <1>6
  <2>5. \A t \in Slots : client'[t] # -1 => client'[t] \in OpenFds' /\ t <= maxi
    BY <1>2, <1>5, <2>4 DEF Inv, TableAgrees
  <2>6. \A t, u \in Slots : client'[t] = client'[u] /\ client'[t] # -1 => t = u
    BY <2>4 DEF Inv, TableAgrees
  <2>7. \A f \in OpenFds' : f <= maxfd
    BY <1>5 DEF Inv, TableAgrees
  <2> QED
    BY <1>1, <2>1, <2>3, <2>5, <2>6, <2>7 DEF TableAgrees
<1>8. client' \in [Slots -> ConnFds \cup {-1}]
    BY <1>1 DEF Inv, ServerTypeOK
<1>9. allset' \in SUBSET (ConnFds \cup {LISTENFD})
    BY <1>1 DEF Inv, ServerTypeOK
<1>10. LineTypeOK'
    BY <1>1 DEF LineTypeOK
<1> QED
    BY <1>1, <1>3, <1>4, <1>6, <1>7, <1>8, <1>9, <1>10, SessionEnds

\* Both ways of echoing: what is left decides.
LEMMA SessionEchoes ==
    ASSUME Inv, pc = "echo", EchoDone, UNCHANGED table,
           KernelInv', LineTypeOK', UNCHANGED fds,
           \A d \in Clients : Readable(d) => Readable(d)'
    PROVE  Inv'
<1>1. InSession /\ UNCHANGED <<client, maxi, maxfd, allset>>
    BY DEF InSession, table
<1>2. TableAgrees'
    BY <1>1 DEF Inv, TableAgrees, OpenFds
<1>3. CASE line' = << >>
  <2>1. OneHandled(i + 1)
    BY <1>3 DEF EchoDone
  <2>2. /\ client' \in [Slots -> ConnFds \cup {-1}]
        /\ allset' \in SUBSET (ConnFds \cup {LISTENFD})
    BY <1>1 DEF Inv, ServerTypeOK
  <2> QED
    BY <1>1, <1>2, <1>3, <2>1, <2>2, SessionEnds
<1>4. CASE line' # << >>
  <2>1. pc' = "echo" /\ UNCHANGED <<rset, nready, i>>
    BY <1>4 DEF EchoDone, round
  <2> QED
    BY <1>1, <1>4, <2>1, SessionGoesOn
<1> QED
    BY <1>3, <1>4

\* writen sends the line back, or fails.
LEMMA InvEcho == Inv /\ (Echo \/ EchoFails) => Inv'
<1> SUFFICES ASSUME Inv, Echo \/ EchoFails PROVE Inv'
    OBVIOUS
<1>1. pc = "echo" /\ EchoDone /\ UNCHANGED table
    BY DEF Echo, EchoFails
<1>2. Served \in Clients /\ KernelInv /\ LineTypeOK
    BY <1>1, SessionFacts DEF Inv, InSession
<1>3. CASE WritePart(Served)
  <2>1. KernelInv' /\ LineTypeOK' /\ UNCHANGED <<fds, backlog, sent, taken, away>>
    BY <1>2, <1>3, WritePartKeeps
  <2>2. \A d \in Clients : Readable(d) => Readable(d)'
    BY <2>1 DEF Readable
  <2> QED
    BY <1>1, <2>1, <2>2, SessionEchoes
<1>4. CASE WriteGivesUp(Served)
  <2>1. /\ KernelInv' /\ LineTypeOK' /\ UNCHANGED fds
        /\ \A d \in Clients : Readable(d) => Readable(d)'
    BY <1>2, <1>4, WriteGivesUpKeeps
  <2> QED
    BY <1>1, <2>1, SessionEchoes
<1> QED
    BY <1>3, <1>4 DEF Echo, EchoFails

----------------------------------------------------------------------------
(* The theorems                                                            *)

\* Every step keeps the invariant.
LEMMA InvStep == Inv /\ [Next]_vars => Inv'
<1> SUFFICES ASSUME Inv, [Next]_vars PROVE Inv'
    OBVIOUS
<1>1. CASE UNCHANGED vars
  <2>1. /\ UNCHANGED <<link, backlog, fds, sent, away, taken, echoed, got, line>>
        /\ UNCHANGED <<pc, client, maxi, maxfd, allset, rset, nready, i>>
    BY <1>1 DEF vars, lineio, kernel, table, round
  <2>2. KernelInv' /\ LineTypeOK' /\ ServerTypeOK' /\ TableAgrees'
    BY <2>1 DEF Inv, KernelInv, KernelTypeOK, StreamsInBounds, QueueAgrees, FdsAgree,
                LineTypeOK, ServerTypeOK, TableAgrees, OpenFds
  <2>3. NreadyExact' /\ SessionHits' /\ LineInSession'
    BY <2>1 DEF Inv, NreadyExact, SessionHits, LineInSession, Pending, InRound, InSession
  <2>4. StillReady'
    BY <2>1 DEF Inv, StillReady, Pending, InRound, InSession, OpenFds, Readable
  <2> QED
    BY <2>2, <2>3, <2>4 DEF Inv
<1>2. CASE AcceptFails \/ ReadError
    BY <1>2, InvDie DEF AcceptFails, ReadError
<1>3. CASE Select \/ Accept \/ Scan \/ Environment
    BY <1>3, InvSelect, InvAccept, InvScan, InvEnvironment
<1>4. CASE ReadMore \/ ReadDone \/ Close \/ Echo \/ EchoFails
    BY <1>4, InvReadMore, InvReadDone, InvClose, InvEcho
<1> QED
    BY <1>1, <1>2, <1>3, <1>4 DEF Next, Server

\* The inductive invariant holds in every reachable state.
LEMMA SpecInv == Spec => []Inv
<1>1. Init => Inv
    BY InvInit
<1>2. Inv /\ [Next]_vars => Inv'
    BY InvStep
<1> QED
    BY <1>1, <1>2, PTL DEF Spec, SafeSpec

\* Every variable of the server and of its connections keeps its type: table
\* indices within `client`, descriptors within the limit, a count that is
\* never negative.
THEOREM ServerTypes == Spec => []TypeOK
<1>1. Inv => TypeOK
    BY DEF Inv, TypeOK, KernelInv, LineTypeOK, ServerTypeOK
<1> QED
    BY <1>1, SpecInv, PTL

\* The kernel's descriptor table, `client` and `allset` agree after any
\* history of arrivals and departures, and maxi and maxfd bound them.
THEOREM TableCorrect == Spec => []TableAgrees
<1>1. Inv => TableAgrees
    BY DEF Inv
<1> QED
    BY <1>1, SpecInv, PTL

\* `if (--nready <= 0)` leaves the round exactly when every descriptor that
\* select found ready has been handled.
THEOREM NreadyCorrect == Spec => []NreadyExact
<1>1. Inv => NreadyExact
    BY DEF Inv
<1> QED
    BY <1>1, SpecInv, PTL

\* The accept of a round, and the first read of a session, do not block:
\* no other client's session undoes what select found.
THEOREM ReadinessCorrect == Spec => []ReadinessHolds
<1>1. Inv => ReadinessHolds
  <2> SUFFICES ASSUME Inv PROVE ReadinessHolds
      OBVIOUS
  <2>1. pc = "accept" => backlog # << >>
    BY DEF Inv, StillReady
  <2>2. ASSUME pc = "read", line = << >> PROVE Readable(Served)
    <3>1. InSession /\ InRound
      BY <2>2 DEF InSession, InRound
    <3>2. client[i] \in Pending \ {LISTENFD}
      BY <3>1, SessionFacts, Sizes
    <3> QED
      BY <2>2, <3>1, <3>2 DEF Inv, StillReady, Served
  <2> QED
    BY <2>1, <2>2 DEF ReadinessHolds
<1> QED
    BY <1>1, SpecInv, PTL

\* A connection that is accepted always finds a slot: with OPEN_MAX no more
\* than FD_SETSIZE, "too many clients" is never reached.
THEOREM SlotForEveryClient == Spec => []SlotAlwaysFree
<1>1. Inv => SlotAlwaysFree
    BY SlotIsFree DEF Inv, SlotAlwaysFree
<1> QED
    BY <1>1, SpecInv, PTL

-----------------------------------------------------------------------------
(* Echoes *)

\* What every client is owed: its bytes echoed or in hand.  Between sessions
\* every connection is at the start of a line.
EchoInv == /\ \A c \in Clients : Owed(c, InHand(c))
           /\ pc # "dead" => \A c \in Clients : (pc = "read" /\ Served = c) \/ Settled(c)
           /\ pc = "read" => InLine(Served)

\* Steps outside sessions.
LEMMA EchoQuiet ==
    ASSUME EchoInv, pc \in {"select", "accept", "scan"}, line = << >>, line' = << >>, pc' # "read",
           \A c \in Clients : Settled(c) => /\ Settled(c)'
                                            /\ Owed(c, << >>) => Owed(c, << >>)'
    PROVE  EchoInv'
<1>1. \A c \in Clients : Settled(c)
    BY DEF EchoInv
<1>2. ASSUME NEW c \in Clients PROVE Owed(c, InHand(c))'
  <2>1. Owed(c, << >>)
    BY DEF EchoInv, InHand
  <2>2. Owed(c, << >>)'
    BY <1>1, <2>1
  <2>3. InHand(c)' = << >>
    BY DEF InHand
  <2> QED
    BY <2>2, <2>3
<1>3. \A c \in Clients : Settled(c)'
    BY <1>1
<1> QED
    BY <1>2, <1>3 DEF EchoInv

\* Steps of a session leave the other clients alone.
LEMMA SessionOwes ==
    ASSUME EchoInv, InSession, NEW s \in Clients, s = Served,
           \A d \in Clients \ {s} : Untouched(d),
           Owed(s, line) => Owed(s, line)',
           line' = << >> \/ UNCHANGED Served
    PROVE  /\ \A c \in Clients : Owed(c, InHand(c))'
           /\ \A c \in Clients \ {s} : Settled(c)'
<1>1. ASSUME NEW c \in Clients PROVE Owed(c, InHand(c))'
  <2>1. Owed(c, InHand(c))
    BY DEF EchoInv
  <2>2. CASE c = s
    <3>1. InHand(c) = line /\ InHand(c)' = line'
      BY <2>2 DEF InHand
    <3>2. Owed(s, line)'
      BY <2>1, <2>2, <3>1
    <3> QED
      BY <2>2, <3>1, <3>2
  <2>3. CASE c # s
    <3>1. InHand(c) = << >> /\ InHand(c)' = << >>
      BY <2>3 DEF InHand
    <3>2. PICK h : h = << >>
      OBVIOUS
    <3>3. Owed(c, h)'
      BY <2>1, <2>3, <3>1, <3>2, OwedStays
    <3> QED
      BY <3>1, <3>2, <3>3
  <2> QED
    BY <2>2, <2>3
<1>2. ASSUME NEW c \in Clients \ {s} PROVE Settled(c)'
  <2>1. Settled(c)
    BY DEF EchoInv, InSession
  <2>2. PICK h : h = << >>
    OBVIOUS
  <2> QED
    BY <2>1, OwedStays
<1> QED
    BY <1>1, <1>2

\* Nothing is owed at the start.
LEMMA EchoInit == Init => EchoInv
<1> SUFFICES ASSUME Init PROVE EchoInv
    OBVIOUS
<1>1. ASSUME NEW c \in Clients PROVE Owed(c, InHand(c)) /\ Settled(c)
  <2>1. /\ taken[c] = 0 /\ echoed[c] = << >> /\ link[c] = "none" /\ InHand(c) = << >>
    BY DEF Init, KernelInit, InHand
  <2>2. 0 \in 0 .. taken[c] /\ EchoedUpTo(c, 0)
    BY <2>1 DEF EchoedUpTo
  <2>3. \E k \in 0 .. taken[c] : EchoedUpTo(c, k)
    BY <2>2
  <2>4. Owed(c, InHand(c))
    BY <2>1, <2>3 DEF Owed
  <2> QED
    BY <2>1, <2>4 DEF Settled
<1> QED
    BY <1>1 DEF EchoInv, Init

\* A client's step.
LEMMA EchoEnvironment == Inv /\ EchoInv /\ Environment => EchoInv'
<1> SUFFICES ASSUME Inv, EchoInv, Environment PROVE EchoInv'
    OBVIOUS
<1>1. PICK d \in Clients : ClientStep(d)
    BY DEF Environment
<1>2. UNCHANGED <<line, pc, client, maxi, maxfd, allset, rset, nready, i>> /\ pc # "dead"
    BY DEF Environment, table, round
<1>3. UNCHANGED fds /\ KernelInv
    BY <1>1, ClientKeeps DEF Inv
<1>4. ASSUME NEW c \in Clients PROVE InHand(c)' = InHand(c)
    BY <1>2, <1>3 DEF InHand, Served
<1>5. ASSUME NEW c \in Clients PROVE Owed(c, InHand(c))'
  <2>1. PICK h : h = InHand(c)
    OBVIOUS
  <2>2. Owed(c, h)
    BY <2>1 DEF EchoInv
  <2>3. Owed(c, h)'
    BY <1>1, <1>3, <2>2, OwedClient
  <2> QED
    BY <1>4, <2>1, <2>3
<1>6. ASSUME NEW c \in Clients, Settled(c) PROVE Settled(c)'
  <2>1. PICK h : h = << >>
    OBVIOUS
  <2> QED
    BY <1>1, <1>3, <1>6, OwedClient
<1>7. ASSUME pc = "read" PROVE InLine(Served)'
  <2>1. PICK s \in Clients : s = Served
    BY <1>7, SessionFacts DEF InSession
  <2>2. InLine(s) /\ Served' = s
    BY <1>2, <1>3, <1>7, <2>1 DEF EchoInv, Served
  <2>3. PICK h : h = << >>
    OBVIOUS
  <2>4. InLine(s)'
    BY <1>1, <1>2, <1>3, <2>2, OwedClient
  <2> QED
    BY <2>2, <2>4
<1>8. Served' = Served
    BY <1>2, <1>3 DEF Served
<1> QED
    BY <1>2, <1>5, <1>6, <1>7, <1>8 DEF EchoInv

\* Waiting and accepting owe nobody anything new.
LEMMA EchoAccept == Inv /\ EchoInv /\ (Select \/ Accept) => EchoInv'
<1> SUFFICES ASSUME Inv, EchoInv, Select \/ Accept PROVE EchoInv'
    OBVIOUS
<1>1. /\ pc \in {"select", "accept"} /\ line = << >> /\ line' = << >>
      /\ pc' # "read"
      /\ \/ UNCHANGED kernel
         \/ \E f \in ConnFds : AcceptAs(f)
    BY DEF Select, Accept, Store, OneHandled, EndRound, Die, Inv, LineInSession, InRound,
           InSession, lineio
<1>2. ASSUME NEW c \in Clients, Settled(c)
      PROVE  Settled(c)' /\ (Owed(c, << >>) => Owed(c, << >>)')
  <2>1. CASE UNCHANGED kernel
    <3>1. Untouched(c)
      BY <2>1 DEF kernel, Untouched
    <3>2. PICK h : h = << >>
      OBVIOUS
    <3>3. Settled(c)' /\ (Owed(c, h) => Owed(c, h)')
      BY <1>2, <3>1, OwedStays
    <3> QED
      BY <3>2, <3>3
  <2>2. CASE \E f \in ConnFds : AcceptAs(f)
    BY <1>2, <2>2, OwedAccept DEF Inv
  <2> QED
    BY <1>1, <2>1, <2>2
<1> QED
    BY <1>1, <1>2, EchoQuiet

\* A session starts at the start of a line.
LEMMA EchoScan == Inv /\ EchoInv /\ Scan => EchoInv'
<1> SUFFICES ASSUME Inv, EchoInv, Scan PROVE EchoInv'
    OBVIOUS
<1>1. /\ UNCHANGED <<link, backlog, fds, sent, away, taken, echoed, got, line, client>>
      /\ line = << >> /\ pc = "scan"
    BY DEF Scan, lineio, kernel, table, Inv, LineInSession, InRound, InSession
<1>2. ASSUME NEW c \in Clients
      PROVE  Settled(c)' /\ (Owed(c, << >>) => Owed(c, << >>)')
  <2>1. Untouched(c)
    BY <1>1 DEF Untouched
  <2>2. Settled(c)
    BY <1>1 DEF EchoInv
  <2>3. PICK h : h = << >>
    OBVIOUS
  <2>4. Settled(c)' /\ (Owed(c, h) => Owed(c, h)')
    BY <2>1, <2>2, OwedStays
  <2> QED
    BY <2>3, <2>4
<1>3. CASE pc' # "read"
    BY <1>1, <1>2, <1>3, EchoQuiet
<1>4. CASE pc' = "read"
  <2>1. i' \in Slots /\ client[i'] # -1
    <3>1. i' \in 0 .. maxi /\ client[i'] # -1
      BY <1>1, <1>4 DEF Scan, EndRound, Hits, Inv, ServerTypeOK
    <3> QED
      BY <3>1, SetsizeAssumption DEF Inv, ServerTypeOK, Slots
  <2>2. PICK s \in Clients : s = fds[client[i']] /\ link[s] = "open"
    <3>1. client[i'] \in OpenFds
      BY <2>1 DEF Inv, TableAgrees
    <3> QED
      BY <3>1 DEF OpenFds, Inv, KernelInv, KernelTypeOK, FdsAgree
  <2>3. ASSUME NEW c \in Clients PROVE Owed(c, InHand(c))'
    <3>1. InHand(c) = << >> /\ InHand(c)' = << >>
      BY <1>1 DEF InHand
    <3> QED
      BY <1>2, <3>1 DEF EchoInv
  <2>4. InLine(s)'
    <3>1. AtLineStart(s, taken[s]) /\ taken[s] \in Nat
      BY <1>1, <2>2, StreamFacts DEF EchoInv, Settled, Inv
    <3>2. taken[s] - 0 = taken[s] /\ 0 <= taken[s] /\ 0 <= MAXLINE /\ Len(line) = 0
      BY <1>1, <3>1, MaxlineAssumption
    <3> QED
      BY <1>1, <3>1, <3>2 DEF InLine, AtLineStart
  <2>5. Served' = s
    BY <1>1, <2>2 DEF Served
  <2> QED
    BY <1>2, <1>4, <2>3, <2>4, <2>5 DEF EchoInv
<1> QED
    BY <1>3, <1>4

\* What readline takes from the socket is in hand.
LEMMA EchoRead == Inv /\ EchoInv /\ (ReadMore \/ ReadDone) => EchoInv'
<1> SUFFICES ASSUME Inv, EchoInv, ReadMore \/ ReadDone PROVE EchoInv'
    OBVIOUS
<1>1. /\ InSession /\ pc = "read" /\ UNCHANGED <<client, i>>
    BY DEF ReadMore, ReadDone, InSession, table, round
<1>2. PICK s \in Clients : s = Served
    BY <1>1, SessionFacts
<1>3. /\ link[s] = "open" /\ KernelInv /\ LineTypeOK /\ InLine(s)
  <2>1. link[s] = "open"
    BY <1>1, <1>2, SessionFacts, KernelAssumption DEF Served, Inv, KernelInv, FdsAgree
  <2> QED
    BY <1>1, <1>2, <2>1 DEF Inv, EchoInv
<1>4. /\ Owed(s, line) => Owed(s, line)'
      /\ \A d \in Clients \ {s} : Untouched(d)
      /\ \/ pc' = "read" /\ InLine(s)'
         \/ pc' = "echo" /\ AtLineStart(s, taken'[s])
      /\ UNCHANGED <<fds, link>>
  <2>1. CASE ReadMore
    <3>1. ReadLinePart(s) /\ pc' = "read"
      BY <1>2, <2>1 DEF ReadMore
    <3> QED
      BY <1>3, <3>1, PartFlows, ReadLinePartKeeps
  <2>2. CASE ReadDone
    <3>1. ReadLineEnd(s) /\ pc' = "echo"
      BY <1>2, <2>2 DEF ReadDone
    <3> QED
      BY <1>3, <3>1, EndFlows, ReadLineEndKeeps
  <2> QED
    BY <2>1, <2>2
<1>5. Served' = s
    BY <1>1, <1>2, <1>4 DEF Served
<1>6. /\ \A c \in Clients : Owed(c, InHand(c))'
      /\ \A c \in Clients \ {s} : Settled(c)'
  <2>1. UNCHANGED Served
    BY <1>2, <1>5
  <2> QED
    BY <1>1, <1>2, <1>4, <2>1, SessionOwes
<1>7. CASE pc' = "read" /\ InLine(s)'
  <2>1. InLine(Served)'
    BY <1>5, <1>7
  <2> QED
    BY <1>5, <1>6, <1>7, <2>1 DEF EchoInv
<1>8. CASE pc' = "echo" /\ AtLineStart(s, taken'[s])
  <2>1. Settled(s)'
    BY <1>3, <1>4, <1>8 DEF Settled, AtLineStart
  <2> QED
    BY <1>6, <1>8, <2>1 DEF EchoInv
<1> QED
    BY <1>4, <1>7, <1>8

\* The exit within a session.
LEMMA EchoError == Inv /\ EchoInv /\ (AcceptFails \/ ReadError) => EchoInv'
<1> SUFFICES ASSUME Inv, EchoInv, AcceptFails \/ ReadError PROVE EchoInv'
    OBVIOUS
<1>1. /\ UNCHANGED <<link, backlog, fds, sent, away, taken, echoed, got, line>>
      /\ UNCHANGED <<client, i>> /\ pc' = "dead"
    BY DEF AcceptFails, ReadError, Die, lineio, kernel, table, round
<1>2. ASSUME NEW c \in Clients PROVE Owed(c, InHand(c))'
  <2>1. PICK h : h = InHand(c)
    OBVIOUS
  <2>2. InHand(c)' = h /\ Untouched(c)
    BY <1>1, <2>1 DEF InHand, Served, Untouched
  <2>3. Owed(c, h)
    BY <2>1 DEF EchoInv
  <2>4. Owed(c, h)'
    BY <2>2, <2>3, OwedStays
  <2> QED
    BY <2>2, <2>4
<1> QED
    BY <1>1, <1>2 DEF EchoInv

\* A session is closed with nothing in hand but an unfinished line.
LEMMA EchoClose == Inv /\ EchoInv /\ Close => EchoInv'
<1> SUFFICES ASSUME Inv, EchoInv, Close PROVE EchoInv'
    OBVIOUS
<1>1. /\ InSession /\ pc = "read" /\ CloseFd(client[i]) /\ line' = << >>
      /\ pc' \in {"select", "scan"} /\ client[i] \in ConnFds
    BY SessionFacts DEF Close, OneHandled, EndRound, InSession
<1>2. PICK s \in Clients : s = Served
    BY <1>1, SessionFacts
<1>3. PICK f \in ConnFds : f = client[i]
    BY <1>1
<1>4. /\ KernelInv /\ LineTypeOK /\ InLine(s) /\ ReadLineNothing(s)
      /\ fds[f] = s /\ CloseFd(f)
    BY <1>1, <1>2, <1>3 DEF Inv, EchoInv, Close, Served
<1>5. link[s] = "open"
    BY <1>2, <1>4, KernelAssumption DEF KernelInv, FdsAgree
<1>6. /\ link'[s] = "closed"
      /\ Owed(s, line) => Owed(s, << >>)'
      /\ \A d \in Clients \ {s} : Untouched(d)
    BY <1>4, <1>5, NothingFlows
<1>7. /\ \A c \in Clients : Owed(c, InHand(c))'
      /\ \A c \in Clients \ {s} : Settled(c)'
  <2>1. Owed(s, line) => Owed(s, line)'
    BY <1>1, <1>6
  <2> QED
    BY <1>1, <1>2, <1>6, <2>1, SessionOwes
<1>8. Settled(s)'
    BY <1>6 DEF Settled
<1> QED
    BY <1>1, <1>7, <1>8 DEF EchoInv

\* writen goes on, is done, or fails.
LEMMA EchoWrite == Inv /\ EchoInv /\ (Echo \/ EchoFails) => EchoInv'
<1> SUFFICES ASSUME Inv, EchoInv, Echo \/ EchoFails PROVE EchoInv'
    OBVIOUS
<1>1. /\ InSession /\ pc = "echo" /\ pc' # "read"
      /\ line' = << >> \/ UNCHANGED <<client, i>>
      /\ WritePart(Served) \/ WriteGivesUp(Served)
    BY DEF Echo, EchoFails, table, round, EchoDone, OneHandled, EndRound, InSession
<1>2. PICK s \in Clients : s = Served
    BY <1>1, SessionFacts
<1>3. /\ KernelInv /\ LineTypeOK /\ Settled(s)
      /\ WritePart(s) \/ WriteGivesUp(s)
    BY <1>1, <1>2 DEF Inv, EchoInv
<1>4. link[s] = "open"
    BY <1>1, <1>2, SessionFacts, KernelAssumption DEF Served, Inv, KernelInv, FdsAgree
<1>5. /\ Owed(s, line) => Owed(s, line)'
      /\ \A d \in Clients \ {s} : Untouched(d)
      /\ UNCHANGED <<link, taken, fds>>
  <2>1. CASE WritePart(s)
    BY <1>3, <1>4, <2>1, WriteFlows, WritePartKeeps
  <2>2. CASE WriteGivesUp(s)
    BY <1>3, <1>4, <2>2, WriteFailsFlows, WriteGivesUpKeeps
  <2> QED
    BY <1>3, <2>1, <2>2
<1>6. line' = << >> \/ UNCHANGED Served
    BY <1>1, <1>5 DEF Served
<1>7. /\ \A c \in Clients : Owed(c, InHand(c))'
      /\ \A c \in Clients \ {s} : Settled(c)'
    BY <1>1, <1>2, <1>5, <1>6, SessionOwes
<1>8. Settled(s)'
    BY <1>3, <1>5 DEF Settled, AtLineStart
<1> QED
    BY <1>1, <1>7, <1>8 DEF EchoInv

\* Every step keeps what is owed.
LEMMA EchoStep == Inv /\ EchoInv /\ [Next]_vars => EchoInv'
<1> SUFFICES ASSUME Inv, EchoInv, [Next]_vars PROVE EchoInv'
    OBVIOUS
<1>1. CASE UNCHANGED vars
  <2>1. /\ UNCHANGED <<link, backlog, fds, sent, away, taken, echoed, got, line>>
        /\ UNCHANGED <<pc, client, maxi, maxfd, allset, rset, nready, i>>
    BY <1>1 DEF vars, lineio, kernel, table, round
  <2>2. ASSUME NEW c \in Clients
        PROVE  /\ Owed(c, InHand(c)) => Owed(c, InHand(c))'
               /\ Settled(c) => Settled(c)'
    <3>1. PICK h : h = InHand(c)
      OBVIOUS
    <3>2. InHand(c)' = h /\ Untouched(c)
      BY <2>1, <3>1 DEF InHand, Served, Untouched
    <3>3. (Owed(c, h) => Owed(c, h)') /\ (Settled(c) => Settled(c)')
      BY <3>2, OwedStays
    <3> QED
      BY <3>1, <3>2, <3>3
  <2>3. InLine(Served) => InLine(Served)'
    BY <2>1 DEF InLine, AtLineStart, Served
  <2>4. Served' = Served
    BY <2>1 DEF Served
  <2>5. \A c \in Clients : Owed(c, InHand(c))'
    BY <2>2 DEF EchoInv
  <2>6. pc # "dead" => \A c \in Clients : (pc = "read" /\ Served = c) \/ Settled(c)'
    BY <2>2 DEF EchoInv
  <2>8. pc' # "dead" => \A c \in Clients : (pc' = "read" /\ Served' = c) \/ Settled(c)'
    BY <2>1, <2>4, <2>6
  <2>7. pc = "read" => InLine(Served)'
    BY <2>3 DEF EchoInv
  <2> QED
    BY <2>1, <2>5, <2>7, <2>8 DEF EchoInv
<1>2. CASE Select \/ Accept \/ AcceptFails \/ Scan \/ Environment
    BY <1>2, EchoAccept, EchoScan, EchoError, EchoEnvironment
<1>3. CASE ReadMore \/ ReadDone \/ ReadError \/ Close
    BY <1>3, EchoRead, EchoError, EchoClose
<1>4. CASE Echo \/ EchoFails
    BY <1>4, EchoWrite
<1> QED
    BY <1>1, <1>2, <1>3, <1>4 DEF Next, Server

\* Each client gets back what it sent, byte for byte, whatever the others do.
THEOREM EchoCorrect == Spec => []EchoFaithful
<1>1. Init => Inv /\ EchoInv
    BY InvInit, EchoInit
<1>2. Inv /\ EchoInv /\ [Next]_vars => (Inv /\ EchoInv)'
    BY InvStep, EchoStep
<1>3. Inv /\ EchoInv => EchoFaithful
  <2> SUFFICES ASSUME Inv, EchoInv, NEW c \in Clients, ~ FilledBuffer(c)
               PROVE  CASE link[c] = "open" /\ away[c] # "gone" -> EchoedAll(c, InHand(c))
                        [] link[c] = "closed" /\ away[c] # "gone" -> EchoedLines(c)
                        [] OTHER -> EchoedSome(c)
      BY DEF EchoFaithful
  <2>1. PICK h \in Seq(Nat) : h = InHand(c)
    <3>1. InHand(c) \in Seq(Nat)
      BY EmptySeq DEF InHand, Inv, LineTypeOK
    <3> QED
      BY <3>1, Zenon
  <2>2. Owed(c, h) /\ KernelInv
    BY <2>1 DEF EchoInv, Inv
  <2> QED
    BY <2>1, <2>2, OwedIsFaithful
<1> QED
    BY <1>1, <1>2, <1>3, PTL DEF Spec, SafeSpec
=============================================================================
