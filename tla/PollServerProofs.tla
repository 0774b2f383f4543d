-------------------------- MODULE PollServerProofs --------------------------
(***************************************************************************)
(* The safety of the poll server's table and rounds, for any number of     *)
(* clients, whatever they send, and any table and descriptor limit: the    *)
(* kernel's descriptors agree with `client`, the count nready is that of   *)
(* the slots still to be handled, what poll found is still so when it is   *)
(* used, no revents is read that poll has not set, and echoes are          *)
(* faithful.                                                               *)
(*                                                                         *)
(* The argument for revents: the slots that poll found ready are no        *)
(* higher than `polled`; while nready > 0 one of them is not yet scanned;  *)
(* so the scan, which ends with nready, has not passed `polled`.           *)
(***************************************************************************)
EXTENDS PollServer, LineIOProofs, FiniteSetTheorems

\* The types of the server's own variables.
ServerTypeOK ==
    /\ pc \in {"poll", "accept", "scan", "read", "echo", "dead"}
    /\ client \in [Slots -> ConnFds \cup {LISTENFD, -1}]
    /\ maxi \in Slots
    /\ polled \in Slots \cup {-1}
    /\ pollin \in SUBSET Slots
    /\ nready \in Nat
    /\ i \in Nat

\* TableAgrees, slot by slot and descriptor by descriptor.
Table ==
    /\ client[0] = LISTENFD
    /\ \A f \in OpenFds : \E s \in Slots : client[s] = f
    /\ \A s \in Slots \ {0} : client[s] # -1 => client[s] \in OpenFds /\ s <= maxi
    /\ \A s, t \in Slots : client[s] = client[t] /\ client[s] # -1 => s = t

InRound == pc \in {"accept", "scan", "read", "echo"}
InSession == pc \in {"read", "echo"}

\* The slots that poll found ready and the round has not handled.
Pending == {s \in pollin : s >= i}

\* nready counts them; poll has seen them all.
RoundCounts ==
    /\ InRound => /\ nready = Cardinality(Pending) /\ nready > 0
                  /\ \A s \in pollin : s <= polled
    /\ pc = "accept" => i = 0 /\ 0 \in pollin
    /\ pc \in {"scan", "read", "echo"} => i >= 1
    /\ InSession => i \in pollin

\* recvbuf is empty between sessions, and not while something is echoed.
LineInSession == /\ pc # "dead" => (line # << >> => InSession)
                 /\ pc = "echo" => line # << >>

\* What poll found is still so, but for the connection being served once
\* readline has taken bytes from it.
StillReady ==
    /\ pc = "accept" => backlog # << >>
    /\ InRound => \A s \in Pending \ {0} :
          /\ client[s] # -1
          /\ Readable(fds[client[s]]) \/ (InSession /\ s = i /\ line # << >>)

\* The inductive invariant.
Inv == /\ KernelInv /\ LineTypeOK /\ ServerTypeOK
       /\ pc # "dead" => Table
       /\ RoundCounts /\ LineInSession /\ StillReady

----------------------------------------------------------------------------
(* Facts about the table and the round                                     *)

\* Descriptors are numbers, and the listening socket is no connection.
LEMMA Sizes ==
    /\ ConnFds \subseteq Nat /\ LISTENFD \notin ConnFds /\ -1 \notin ConnFds
    /\ LISTENFD \in Nat /\ LISTENFD # -1
    /\ Slots \subseteq Nat /\ 0 \in Slots /\ IsFiniteSet(Slots)
<1>1. 0 \in Int /\ TABLE - 1 \in Int
    BY TableAssumption
<1>2. IsFiniteSet(Slots)
    BY <1>1, FS_Interval DEF Slots
<1> QED
    BY <1>2, KernelAssumption, TableAssumption DEF ConnFds, Slots, LISTENFD

\* Table says what TableAgrees says.
LEMMA TableIsAgreement ==
    ASSUME ServerTypeOK, pc # "dead" => Table PROVE TableAgrees
<1> SUFFICES ASSUME pc # "dead"
             PROVE  /\ client[0] = LISTENFD
                    /\ {client[s] : s \in 1 .. maxi} \ {-1} = OpenFds
                    /\ \A s, t \in Slots : client[s] = client[t] /\ client[s] # -1 => s = t
                    /\ \A s \in Slots : s > maxi => client[s] = -1
    BY DEF TableAgrees
<1>1. /\ Table /\ maxi \in Nat /\ maxi <= TABLE - 1 /\ maxi >= 0
    BY TableAssumption DEF ServerTypeOK, Slots
<1>2. \A s \in 1 .. maxi : s \in Slots \ {0}
    BY <1>1, TableAssumption DEF Slots
<1>3. \A s \in Slots : s # 0 /\ s <= maxi => s \in 1 .. maxi
    BY <1>1 DEF Slots
<1>4. \A s \in 1 .. maxi : client[s] # -1 => client[s] \in OpenFds
    BY <1>1, <1>2 DEF Table
<1>5. \A f \in OpenFds : f # -1 /\ f # LISTENFD
    BY Sizes DEF OpenFds
<1>6. \A f \in OpenFds : \E s \in 1 .. maxi : client[s] = f
  <2> SUFFICES ASSUME NEW f \in OpenFds PROVE \E s \in 1 .. maxi : client[s] = f
      OBVIOUS
  <2>1. PICK s \in Slots : client[s] = f
    BY <1>1 DEF Table
  <2>2. s # 0 /\ client[s] # -1
    BY <1>1, <1>5, <2>1 DEF Table
  <2>3. s <= maxi
    BY <1>1, <2>2 DEF Table
  <2> QED
    BY <1>3, <2>1, <2>2, <2>3
<1>7. {client[s] : s \in 1 .. maxi} \ {-1} = OpenFds
    BY <1>4, <1>5, <1>6
<1>8. \A s \in Slots : s > maxi => client[s] = -1
  <2>1. \A s \in Slots : s > maxi => s # 0 /\ ~ (s <= maxi)
    BY <1>1 DEF Slots
  <2> QED
    BY <1>1, <2>1 DEF Table
<1> QED
    BY <1>1, <1>7, <1>8 DEF Table

\* What is pending is finite, and but for slot 0 open connections.
LEMMA PendingFacts ==
    ASSUME Inv, InRound
    PROVE  /\ pc # "dead" /\ Table
           /\ Pending \subseteq Slots /\ IsFiniteSet(Pending)
           /\ \A s \in Pending \ {0} : /\ client[s] \in OpenFds /\ client[s] \in ConnFds
                                       /\ fds[client[s]] \in Clients
           /\ \A s \in Pending : s <= polled
<1>1. pc # "dead" /\ Table
    BY DEF InRound, Inv
<1>2. Pending \subseteq Slots /\ IsFiniteSet(Pending)
  <2>1. Pending \subseteq Slots
    BY DEF Pending, Inv, ServerTypeOK
  <2> QED
    BY <2>1, Sizes, FS_Subset
<1>3. \A s \in Pending \ {0} : client[s] \in OpenFds
    BY <1>1, <1>2 DEF Table, Inv, StillReady
<1>4. \A f \in OpenFds : f \in ConnFds /\ fds[f] \in Clients
    BY DEF OpenFds, Inv, KernelInv, KernelTypeOK
<1>5. \A s \in Pending : s <= polled
    BY DEF Pending, Inv, RoundCounts
<1> QED
    BY <1>1, <1>2, <1>3, <1>4, <1>5

\* While something is pending the round has not passed `polled`.
LEMMA NotPastPolled ==
    ASSUME Inv, InRound PROVE i <= polled /\ ~ (i > polled)
<1>1. Pending # {}
    BY FS_EmptySet DEF Inv, RoundCounts
<1>2. PICK s \in Pending : TRUE
    BY <1>1
<1>3. s \in Nat /\ s >= i /\ s <= polled
    BY <1>2, PendingFacts, Sizes DEF Pending
<1>4. polled \in Int /\ i \in Nat
    BY Sizes DEF Inv, ServerTypeOK
<1> QED
    BY <1>3, <1>4

\* The slot of a session is pending, and its connection open.
LEMMA SessionFacts ==
    ASSUME Inv, InSession
    PROVE  /\ InRound /\ pc # "accept"
           /\ i \in Pending /\ i \in Slots /\ i # 0
           /\ client[i] \in OpenFds /\ client[i] \in ConnFds
           /\ Served \in Clients
<1>1. InRound /\ pc # "accept"
    BY DEF InSession, InRound
<1>2. i \in pollin /\ i >= 1 /\ i \in Nat
    BY DEF InSession, Inv, RoundCounts, ServerTypeOK
<1>3. i \in Pending /\ i # 0
    BY <1>2 DEF Pending
<1> QED
    BY <1>1, <1>3, PendingFacts DEF Served

\* Who else is pending is another client.
LEMMA OthersApart ==
    ASSUME Inv, InSession, NEW s \in Pending, s # i
    PROVE  /\ s # 0 /\ client[s] \in ConnFds /\ client[s] # client[i]
           /\ fds[client[s]] \in Clients \ {Served}
           /\ Readable(fds[client[s]])
<1>1. InRound /\ s \in Slots
    BY SessionFacts, PendingFacts
<1>2. s # 0
  <2>1. i >= 1 /\ s >= i /\ i \in Nat
    BY DEF Pending, InSession, Inv, RoundCounts, ServerTypeOK
  <2> QED
    BY <2>1
<1>3. client[s] \in ConnFds /\ client[s] \in OpenFds /\ fds[client[s]] \in Clients
    BY <1>1, <1>2, PendingFacts
<1>4. client[s] # client[i]
  <2>1. client[s] # -1 /\ i \in Slots
    BY <1>1, <1>2, SessionFacts DEF Inv, StillReady
  <2> QED
    BY <1>1, <2>1, PendingFacts DEF Table
<1>5. fds[client[s]] # fds[client[i]]
    BY <1>3, <1>4, SessionFacts DEF OpenFds, Inv, KernelInv, FdsAgree
<1>6. Readable(fds[client[s]])
    BY <1>1, <1>2 DEF Inv, StillReady
<1> QED
    BY <1>2, <1>3, <1>4, <1>5, <1>6 DEF Served

\* One slot handled: the round ends, or the count is that of the rest.
LEMMA HandledCounts ==
    ASSUME Inv, InRound, NEW x \in Pending, NEW s, OneHandled(s)
    PROVE  \/ EndRound
           \/ /\ pc' = "scan" /\ i' = s /\ pollin' = pollin
              /\ nready' \in Nat /\ nready' > 0
              /\ nready' = Cardinality(Pending \ {x})
<1>1. nready = Cardinality(Pending) /\ nready > 0 /\ nready \in Nat
    BY DEF Inv, RoundCounts, ServerTypeOK
<1>2. Cardinality(Pending \ {x}) = nready - 1
    BY <1>1, PendingFacts, FS_RemoveElement
<1> QED
    BY <1>1, <1>2 DEF OneHandled

\* The end of a round needs no more than the table.
LEMMA RoundEnds ==
    ASSUME EndRound, line' = << >>
    PROVE  RoundCounts' /\ LineInSession' /\ StillReady'
BY DEF EndRound, RoundCounts, LineInSession, StillReady, InRound, InSession

\* The step that handles slot i, of accept or of a session: the slots that are
\* left keep their connections, and these stay readable.
LEMMA SlotHandled ==
    ASSUME Inv, InRound, i \in pollin, OneHandled(i + 1),
           KernelInv', LineTypeOK', line' = << >>, Table',
           client' \in [Slots -> ConnFds \cup {LISTENFD, -1}],
           maxi' \in Slots, polled' = polled,
           \A s \in Pending \ {0, i} : client'[s] = client[s] /\ Readable(fds[client[s]])'
    PROVE  Inv'
<1>1. i \in Nat /\ i \in Pending
    BY DEF Inv, ServerTypeOK, Pending
<1>2. \/ EndRound
      \/ /\ pc' = "scan" /\ i' = i + 1 /\ pollin' = pollin
         /\ nready' \in Nat /\ nready' > 0
         /\ nready' = Cardinality(Pending \ {i})
    BY <1>1, HandledCounts
<1>3. ServerTypeOK'
  <2>1. /\ pc' \in {"poll", "scan"} /\ pollin' \in SUBSET Slots
        /\ nready' \in Nat /\ i' \in Nat
    <3>1. pollin \in SUBSET Slots
      BY DEF Inv, ServerTypeOK
    <3>2. CASE EndRound
      BY <3>2 DEF EndRound
    <3>3. CASE pc' = "scan" /\ i' = i + 1 /\ pollin' = pollin /\ nready' \in Nat
      BY <1>1, <3>1, <3>3
    <3> QED
      BY <1>2, <3>2, <3>3
  <2>2. polled' \in Slots \cup {-1}
    BY DEF Inv, ServerTypeOK
  <2> QED
    BY <2>1, <2>2 DEF ServerTypeOK
<1>4. RoundCounts' /\ LineInSession' /\ StillReady'
  <2>1. CASE EndRound
    BY <2>1, RoundEnds
  <2>2. CASE /\ pc' = "scan" /\ i' = i + 1 /\ pollin' = pollin /\ nready' > 0
             /\ nready' = Cardinality(Pending \ {i})
    <3>1. Pending' = Pending \ {i}
      <4>1. \A s \in pollin : s >= i + 1 <=> s >= i /\ s # i
        <5>1. \A s \in pollin : s \in Nat
          BY Sizes DEF Inv, ServerTypeOK
        <5> QED
          BY <1>1, <5>1
      <4>2. Pending' = {s \in pollin : s >= i + 1}
        BY <2>2 DEF Pending
      <4> QED
        BY <4>1, <4>2 DEF Pending
    <3>2. RoundCounts'
      <4>1. \A s \in pollin : s <= polled
        BY DEF Inv, RoundCounts
      <4>2. i + 1 >= 1
        BY <1>1
      <4> QED
        BY <2>2, <3>1, <4>1, <4>2 DEF RoundCounts, InSession
    <3>3. LineInSession'
      BY <2>2 DEF LineInSession
    <3>4. StillReady'
      <4>1. \A s \in Pending \ {0, i} : client[s] # -1
        BY DEF Inv, StillReady
      <4>2. \A s \in Pending' \ {0} : client'[s] # -1 /\ Readable(fds[client[s]])'
        BY <3>1, <4>1
      <4> QED
        BY <2>2, <4>2 DEF StillReady
    <3> QED
      BY <3>2, <3>3, <3>4
  <2> QED
    BY <1>2, <2>1, <2>2
<1> QED
    BY <1>3, <1>4 DEF Inv

----------------------------------------------------------------------------
(* The initial state and the steps                                         *)

\* The server starts with an empty table and no session.
LEMMA InvInit == Init => Inv
<1> SUFFICES ASSUME Init PROVE Inv
    OBVIOUS
<1>1. KernelInv /\ LineTypeOK
    BY KernelInvInit DEF Init, LineTypeOK
<1>2. ServerTypeOK
    BY Sizes DEF Init, ServerTypeOK
<1>3. OpenFds = {}
    BY DEF Init, KernelInit, OpenFds
<1>4. Table
    BY <1>3, Sizes DEF Init, Table
<1>5. RoundCounts /\ LineInSession /\ StillReady
    BY DEF Init, RoundCounts, LineInSession, StillReady, InRound, InSession
<1> QED
    BY <1>1, <1>2, <1>4, <1>5 DEF Inv

\* A client's step.
LEMMA InvEnvironment == Inv /\ Environment => Inv'
<1> SUFFICES ASSUME Inv, Environment PROVE Inv'
    OBVIOUS
<1>1. PICK c \in Clients : ClientStep(c)
    BY DEF Environment
<1>2. UNCHANGED <<line, pc, client, maxi, polled, pollin, nready, i>>
    BY DEF Environment, round
<1>3. /\ KernelInv' /\ UNCHANGED fds
      /\ backlog # << >> => backlog' # << >>
      /\ \A d \in Clients : Readable(d) => Readable(d)'
    BY <1>1, ClientKeeps DEF Inv
<1>4. OpenFds' = OpenFds /\ Pending' = Pending
    BY <1>2, <1>3 DEF OpenFds, Pending
<1>5. ServerTypeOK' /\ LineTypeOK' /\ (pc' # "dead" => Table')
    BY <1>2, <1>4 DEF Inv, Table, ServerTypeOK, LineTypeOK
<1>6. RoundCounts' /\ LineInSession'
    BY <1>2, <1>4 DEF Inv, RoundCounts, LineInSession, InRound, InSession
<1>7. StillReady'
  <2>1. ASSUME InRound, NEW s \in Pending \ {0}
        PROVE  /\ client[s] # -1
               /\ Readable(fds[client[s]])' \/ (InSession /\ s = i /\ line # << >>)
    <3>1. fds[client[s]] \in Clients
      BY <2>1, PendingFacts
    <3>2. Readable(fds[client[s]]) => Readable(fds[client[s]])'
      BY <1>2, <1>3, <3>1 DEF Readable
    <3> QED
      BY <2>1, <3>2 DEF Inv, StillReady
  <2>2. InRound' = InRound /\ InSession' = InSession
    BY <1>2 DEF InRound, InSession
  <2>3. pc = "accept" => backlog' # << >>
    BY <1>3 DEF Inv, StillReady
  <2>4. InRound' => \A s \in Pending' \ {0} :
           /\ client'[s] # -1
           /\ Readable(fds[client[s]])' \/ (InSession' /\ s = i' /\ line' # << >>)
    BY <1>2, <1>4, <2>1, <2>2
  <2> QED
    BY <1>2, <2>3, <2>4 DEF StillReady
<1> QED
    BY <1>3, <1>5, <1>6, <1>7 DEF Inv

\* poll: the slots it finds ready are open connections, or the listening socket.
LEMMA InvPoll == Inv /\ Poll => Inv'
<1> SUFFICES ASSUME Inv, Poll PROVE Inv'
    OBVIOUS
<1>1. /\ UNCHANGED <<link, backlog, fds, sent, away, taken, echoed, got, line>>
      /\ UNCHANGED <<client, maxi>>
      /\ pollin' = {s \in Watched : Ready(client[s])} /\ pollin' # {}
      /\ polled' = maxi /\ nready' = Cardinality(pollin')
      /\ IF 0 \in pollin' THEN pc' = "accept" /\ i' = 0 ELSE pc' = "scan" /\ i' = 1
      /\ pc = "poll"
    BY DEF Poll, lineio, kernel
<1>2. Table /\ line = << >> /\ maxi \in Slots
    BY <1>1 DEF Inv, LineInSession, InSession, ServerTypeOK
<1>3. KernelInv' /\ LineTypeOK'
    BY <1>1 DEF Inv, KernelInv, KernelTypeOK, StreamsInBounds, QueueAgrees, FdsAgree,
                LineTypeOK
<1>4. OpenFds' = OpenFds
    BY <1>1 DEF OpenFds
<1>5. Table'
    BY <1>1, <1>2, <1>4 DEF Table
<1>6. /\ pollin' \subseteq Slots /\ IsFiniteSet(pollin')
      /\ \A s \in pollin' : s <= maxi /\ client[s] # -1 /\ Ready(client[s])
  <2>1. 0 .. maxi \subseteq Slots
    BY <1>2, TableAssumption DEF Slots
  <2>2. \A s \in pollin' : s \in 0 .. maxi /\ client[s] # -1 /\ Ready(client[s])
    BY <1>1 DEF Watched
  <2>3. pollin' \subseteq Slots
    BY <2>1, <2>2
  <2>4. IsFiniteSet(pollin')
    BY <2>3, Sizes, FS_Subset
  <2>5. maxi \in Nat
    BY <1>2, Sizes
  <2> QED
    BY <2>2, <2>3, <2>4, <2>5
<1>7. nready' \in Nat /\ nready' > 0
    BY <1>1, <1>6, FS_CardinalityType, FS_EmptySet
<1>8. /\ pc' \in {"accept", "scan"} /\ i' \in Nat
      /\ pc' = "accept" => i' = 0 /\ 0 \in pollin'
      /\ pc' = "scan" => i' = 1 /\ 0 \notin pollin'
    BY <1>1
<1>9. ServerTypeOK'
    BY <1>1, <1>2, <1>6, <1>7, <1>8 DEF Inv, ServerTypeOK
<1>10. Pending' = pollin'
  <2>1. \A s \in pollin' : s \in Nat
    BY <1>6, Sizes
  <2>2. \A s \in pollin' : s >= i'
    BY <1>8, <2>1
  <2> QED
    BY <2>2 DEF Pending
<1>11. RoundCounts' /\ LineInSession'
    BY <1>1, <1>2, <1>6, <1>7, <1>8, <1>10
       DEF RoundCounts, LineInSession, InRound, InSession
<1>12. StillReady'
  <2>1. pc' = "accept" => backlog # << >>
    BY <1>2, <1>6, <1>8 DEF Table, Ready
  <2>2. ASSUME NEW s \in pollin' \ {0}
        PROVE  client[s] # -1 /\ Readable(fds[client[s]])'
    <3>1. s \in Slots /\ client[s] \in OpenFds
      BY <1>2, <1>6 DEF Table
    <3>2. client[s] # LISTENFD
      BY <3>1, Sizes DEF OpenFds
    <3>3. Readable(fds[client[s]])
      BY <1>6, <3>2 DEF Ready
    <3> QED
      BY <1>1, <1>6, <3>3 DEF Readable
  <2> QED
    BY <1>1, <1>10, <2>1, <2>2 DEF StillReady
<1> QED
    BY <1>3, <1>5, <1>9, <1>11, <1>12 DEF Inv

\* A server that exits leaves nothing to agree on.
LEMMA InvDie ==
    ASSUME Inv, Die, KernelInv', UNCHANGED <<line, client, maxi, polled>>
    PROVE  Inv'
<1>1. UNCHANGED <<pollin, nready, i>> /\ pc' = "dead"
    BY DEF Die, round
<1>2. LineTypeOK' /\ ServerTypeOK'
    BY <1>1 DEF Inv, LineTypeOK, ServerTypeOK
<1> QED
    BY <1>1, <1>2 DEF Inv, RoundCounts, LineInSession, StillReady, InRound, InSession

\* accept: the new connection gets a free slot, the lowest one; with none left,
\* or without a descriptor, the server exits.
LEMMA InvAccept == Inv /\ Accept => Inv'
<1> SUFFICES ASSUME Inv, Accept PROVE Inv'
    OBVIOUS
<1>1. /\ pc = "accept" /\ UNCHANGED <<line, polled>>
      /\ IF FreeFds = {} THEN Die /\ UNCHANGED <<kernel, client, maxi>>
         ELSE \E conn \in ConnFds :
                 /\ AcceptAs(conn)
                 /\ IF FreeSlots = {} THEN Die /\ UNCHANGED <<client, maxi>>
                    ELSE Store(conn) /\ OneHandled(1)
    BY DEF Accept
<1>2. CASE FreeFds = {}
  <2>1. Die /\ UNCHANGED <<link, backlog, fds, sent, away, taken, echoed, got, client, maxi>>
    BY <1>1, <1>2 DEF kernel
  <2>2. KernelInv'
    BY <2>1 DEF Inv, KernelInv, KernelTypeOK, StreamsInBounds, QueueAgrees, FdsAgree
  <2> QED
    BY <1>1, <2>1, <2>2, InvDie
<1>3. CASE FreeFds # {}
  <2>1. PICK conn \in ConnFds :
            /\ AcceptAs(conn)
            /\ IF FreeSlots = {} THEN Die /\ UNCHANGED <<client, maxi>>
               ELSE Store(conn) /\ OneHandled(1)
    BY <1>1, <1>3
  <2>2. /\ KernelInv'
        /\ fds[conn] = None /\ fds'[conn] \in Clients
        /\ \A g \in ConnFds \ {conn} : fds'[g] = fds[g]
        /\ UNCHANGED <<sent, away, taken>>
    BY <2>1, AcceptKeeps DEF Inv
  <2>3. CASE FreeSlots = {}
    BY <1>1, <2>1, <2>2, <2>3, InvDie
  <2>4. CASE FreeSlots # {}
    <3>1. OneHandled(1) /\ Store(conn)
      BY <2>1, <2>4
    <3>2. PICK s \in FreeSlots : /\ client' = [client EXCEPT ![s] = conn]
                                 /\ maxi' = NewMaxi(s)
      BY <3>1 DEF Store
    <3>3. s \in Slots /\ s # 0 /\ client[s] < 0
      BY <3>2 DEF FreeSlots
    <3>4. client[s] = -1
      <4>1. client[s] \in ConnFds \cup {LISTENFD, -1}
        BY <3>3 DEF Inv, ServerTypeOK
      <4>2. \A f \in ConnFds \cup {LISTENFD} : f \in Nat
        BY Sizes
      <4> QED
        BY <3>3, <4>1, <4>2
    <3>5. InRound /\ Table /\ line = << >> /\ i = 0 /\ 0 \in pollin
      BY <1>1 DEF InRound, InSession, Inv, LineInSession, RoundCounts
    <3>6. OpenFds' = OpenFds \cup {conn} /\ conn \notin OpenFds /\ conn # -1
      BY <2>2, Sizes, KernelAssumption DEF OpenFds
    <3>7. \A t \in Slots : client'[t] = IF t = s THEN conn ELSE client[t]
      BY <3>2, <3>3 DEF Inv, ServerTypeOK
    <3>8. maxi' \in Slots /\ s <= maxi' /\ maxi <= maxi'
      <4>1. maxi \in Slots /\ maxi \in Nat /\ s \in Nat
        BY <3>3, Sizes DEF Inv, ServerTypeOK
      <4> QED
        BY <3>2, <3>3, <4>1 DEF NewMaxi
    <3>9. Table'
      <4>1. client'[0] = LISTENFD
        BY <3>3, <3>5, <3>7, Sizes DEF Table
      <4>2. \A f \in OpenFds' : \E t \in Slots : client'[t] = f
        <5> SUFFICES ASSUME NEW f \in OpenFds' PROVE \E t \in Slots : client'[t] = f
            OBVIOUS
        <5>1. CASE f = conn
          BY <3>3, <3>7, <5>1
        <5>2. CASE f # conn
          <6>1. PICK t \in Slots : client[t] = f
            BY <3>5, <3>6, <5>2 DEF Table
          <6>2. f # -1
            BY <3>6, Sizes DEF OpenFds
          <6> QED
            BY <3>4, <3>7, <6>1, <6>2
        <5> QED
          BY <5>1, <5>2
      <4>3. \A t \in Slots \ {0} : client'[t] # -1 => client'[t] \in OpenFds' /\ t <= maxi'
        <5> SUFFICES ASSUME NEW t \in Slots \ {0}, client'[t] # -1
                     PROVE  client'[t] \in OpenFds' /\ t <= maxi'
            OBVIOUS
        <5>1. CASE t = s
          BY <3>6, <3>7, <3>8, <5>1
        <5>2. CASE t # s
          <6>1. client'[t] = client[t] /\ client[t] \in OpenFds /\ t <= maxi
            BY <3>5, <3>7, <5>2 DEF Table
          <6>2. t \in Nat /\ maxi \in Nat /\ maxi' \in Nat
            BY <3>8, Sizes DEF Inv, ServerTypeOK
          <6> QED
            BY <3>6, <3>8, <6>1, <6>2
        <5> QED
          BY <5>1, <5>2
      <4>4. \A t \in Slots : client[t] # conn
        <5>1. conn # LISTENFD
          BY Sizes
        <5> QED
          BY <3>5, <3>6, <5>1 DEF Table
      <4>5. \A t, u \in Slots : client'[t] = client'[u] /\ client'[t] # -1 => t = u
        BY <3>5, <3>7, <4>4 DEF Table
      <4> QED
        BY <4>1, <4>2, <4>3, <4>5 DEF Table
    <3>10. client' \in [Slots -> ConnFds \cup {LISTENFD, -1}]
      BY <3>2, <3>3 DEF Inv, ServerTypeOK
    <3>11. \A t \in Pending \ {0, i} : client'[t] = client[t] /\ Readable(fds[client[t]])'
      <4> SUFFICES ASSUME NEW t \in Pending \ {0, i}
                   PROVE  client'[t] = client[t] /\ Readable(fds[client[t]])'
          OBVIOUS
      <4>1. t \in Slots /\ client[t] # -1 /\ client[t] \in ConnFds /\ client[t] \in OpenFds
        BY <3>5, PendingFacts DEF Inv, StillReady
      <4>2. client'[t] = client[t]
        BY <3>4, <3>7, <4>1
      <4>3. fds'[client[t]] = fds[client[t]]
        BY <2>2, <3>6, <4>1
      <4>4. Readable(fds[client[t]])
        BY <1>1, <3>5 DEF Inv, StillReady, InSession
      <4> QED
        BY <2>2, <4>2, <4>3, <4>4 DEF Readable
    <3>12. LineTypeOK' /\ line' = << >> /\ polled' = polled
      BY <1>1, <3>5 DEF LineTypeOK
    <3>13. i \in pollin /\ OneHandled(i + 1)
      BY <3>1, <3>5
    <3> QED
      BY <2>2, <3>5, <3>8, <3>9, <3>10, <3>11, <3>12, <3>13, SlotHandled
  <2> QED
    BY <2>3, <2>4
<1> QED
    BY <1>2, <1>3

\* A turn of the scan looks at no slot above `polled`, so at no revents that
\* poll has not set, and passes over no slot that is pending.
LEMMA InvScan == Inv /\ Scan => Inv'
<1> SUFFICES ASSUME Inv, Scan PROVE Inv'
    OBVIOUS
<1>1. /\ UNCHANGED <<link, backlog, fds, sent, away, taken, echoed, got, line>>
      /\ UNCHANGED <<client, maxi, polled>>
      /\ pc = "scan"
      /\ IF i > maxi THEN EndRound
         ELSE \E pin \in Pollin(i) :
                 IF client[i] # -1 /\ pin
                 THEN pc' = "read" /\ UNCHANGED round
                 ELSE i' = i + 1 /\ UNCHANGED <<pc, pollin, nready>>
    BY DEF Scan, lineio, kernel
<1>2. InRound /\ ~ InSession /\ line = << >> /\ i \in Nat /\ i >= 1
    BY <1>1 DEF Inv, InRound, InSession, LineInSession, RoundCounts, ServerTypeOK
<1>3. ~ (i > polled)
    BY <1>2, NotPastPolled
<1>4. \/ EndRound
      \/ i \in pollin /\ pc' = "read" /\ UNCHANGED round
      \/ /\ client[i] = -1 \/ i \notin pollin
         /\ i' = i + 1 /\ UNCHANGED <<pc, pollin, nready>>
  <2>1. Pollin(i) = {i \in pollin}
    BY <1>3 DEF Pollin
  <2>2. ASSUME ~ EndRound, NEW pin \in {i \in pollin},
               IF client[i] # -1 /\ pin
               THEN pc' = "read" /\ UNCHANGED round
               ELSE i' = i + 1 /\ UNCHANGED <<pc, pollin, nready>>
        PROVE  \/ i \in pollin /\ pc' = "read" /\ UNCHANGED round
               \/ /\ client[i] = -1 \/ i \notin pollin
                  /\ i' = i + 1 /\ UNCHANGED <<pc, pollin, nready>>
    <3>1. pin = (i \in pollin)
      OBVIOUS
    <3> QED
      BY <2>2, <3>1, Zenon
  <2> QED
    BY <1>1, <2>1, <2>2, Zenon
<1>5. KernelInv' /\ LineTypeOK' /\ OpenFds' = OpenFds
    BY <1>1 DEF Inv, KernelInv, KernelTypeOK, StreamsInBounds, QueueAgrees, FdsAgree,
                LineTypeOK, OpenFds
<1>6. Table'
    BY <1>1, <1>2, <1>5, PendingFacts DEF Table
<1>7. CASE EndRound
  <2>1. ServerTypeOK'
    BY <1>1, <1>7 DEF EndRound, Inv, ServerTypeOK
  <2> QED
    BY <1>1, <1>2, <1>5, <1>6, <1>7, <2>1, RoundEnds DEF Inv
<1>8. CASE pc' \in {"read", "scan"} /\ UNCHANGED <<pollin, nready>> /\ i' \in Nat
           /\ i' >= 1 /\ Pending' = Pending /\ (pc' = "read" => i' \in pollin)
  <2>1. ServerTypeOK'
    BY <1>1, <1>8 DEF Inv, ServerTypeOK
  <2>2. RoundCounts'
    BY <1>1, <1>2, <1>8 DEF Inv, RoundCounts, InSession
  <2>3. LineInSession'
    BY <1>1, <1>2, <1>8 DEF LineInSession
  <2>4. StillReady'
    <3>1. \A s \in Pending \ {0} : client[s] # -1 /\ Readable(fds[client[s]])
      BY <1>2 DEF Inv, StillReady
    <3>2. \A s \in Pending \ {0} : client[s] # -1 /\ Readable(fds[client[s]])'
      BY <1>1, <3>1 DEF Readable
    <3> QED
      BY <1>1, <1>8, <3>2 DEF StillReady
  <2> QED
    BY <1>5, <1>6, <2>1, <2>2, <2>3, <2>4 DEF Inv
<1>9. CASE i \in pollin /\ pc' = "read" /\ UNCHANGED round
  <2>1. Pending' = Pending /\ UNCHANGED <<pollin, nready, i>>
    BY <1>9 DEF round, Pending
  <2> QED
    BY <1>2, <1>8, <1>9, <2>1
<1>10. CASE /\ client[i] = -1 \/ i \notin pollin
            /\ i' = i + 1 /\ UNCHANGED <<pc, pollin, nready>>
  <2>1. i \notin pollin
    <3>1. i \in pollin => i \in Pending \ {0}
      BY <1>2 DEF Pending
    <3> QED
      BY <1>2, <1>10, <3>1 DEF Inv, StillReady
  <2>2. \A s \in pollin : s >= i <=> s >= i + 1
    <3>1. \A s \in pollin : s \in Nat /\ s # i
      BY <2>1, Sizes DEF Inv, ServerTypeOK
    <3> QED
      BY <1>2, <3>1
  <2>3. Pending' = Pending
    BY <1>10, <2>2 DEF Pending
  <2>4. i' \in Nat /\ i' >= 1
    BY <1>2, <1>10
  <2> QED
    BY <1>1, <1>8, <1>10, <2>3, <2>4
<1> QED
    BY <1>4, <1>7, <1>9, <1>10

----------------------------------------------------------------------------
(* The steps of a session                                                  *)

\* A step that leaves the session with something in recvbuf.
LEMMA SessionGoesOn ==
    ASSUME Inv, InSession, KernelInv', LineTypeOK', line' # << >>,
           pc' \in {"read", "echo"},
           UNCHANGED <<fds, client, maxi, polled, pollin, nready, i>>,
           \A d \in Clients \ {Served} : Readable(d) => Readable(d)'
    PROVE  Inv'
<1>1. InSession' /\ InRound' /\ InRound /\ Table
    BY SessionFacts, PendingFacts DEF InSession, InRound
<1>2. OpenFds' = OpenFds /\ Pending' = Pending
    BY DEF OpenFds, Pending
<1>3. ServerTypeOK' /\ Table'
    BY <1>1, <1>2 DEF Inv, ServerTypeOK, Table
<1>4. RoundCounts' /\ LineInSession'
    BY <1>1, <1>2 DEF Inv, RoundCounts, LineInSession, InSession
<1>5. \A s \in Pending \ {0} : s # i => Readable(fds[client[s]])'
  <2> SUFFICES ASSUME NEW s \in Pending \ {0}, s # i
               PROVE  Readable(fds[client[s]])'
      OBVIOUS
  <2>1. fds[client[s]] \in Clients \ {Served} /\ Readable(fds[client[s]])
    BY OthersApart
  <2> QED
    BY <2>1 DEF Readable
<1>6. StillReady'
  <2>1. \A s \in Pending \ {0} : client[s] # -1
    BY <1>1 DEF Inv, StillReady
  <2>2. pc' # "accept"
    OBVIOUS
  <2> QED
    BY <1>1, <1>2, <1>5, <2>1, <2>2 DEF StillReady
<1> QED
    BY <1>3, <1>4, <1>6 DEF Inv

\* readline takes part of a line.
LEMMA InvReadMore == Inv /\ ReadMore => Inv'
<1> SUFFICES ASSUME Inv, ReadMore PROVE Inv'
    OBVIOUS
<1>1. InSession /\ ReadLinePart(Served) /\ pc' = "read"
      /\ UNCHANGED <<client, maxi, polled, pollin, nready, i>>
    BY DEF ReadMore, InSession, round
<1>2. Served \in Clients /\ KernelInv /\ LineTypeOK
    BY <1>1, SessionFacts DEF Inv
<1>3. /\ KernelInv' /\ LineTypeOK' /\ line' # << >> /\ UNCHANGED fds
      /\ \A d \in Clients \ {Served} : Readable(d) => Readable(d)'
    BY <1>1, <1>2, ReadLinePartKeeps
<1> QED
    BY <1>1, <1>3, SessionGoesOn

\* readline ends with a line in hand.
LEMMA InvReadDone == Inv /\ ReadDone => Inv'
<1> SUFFICES ASSUME Inv, ReadDone PROVE Inv'
    OBVIOUS
<1>1. InSession /\ ReadLineEnd(Served) /\ pc' = "echo"
      /\ UNCHANGED <<client, maxi, polled, pollin, nready, i>>
    BY DEF ReadDone, InSession, round
<1>2. Served \in Clients /\ KernelInv /\ LineTypeOK
    BY <1>1, SessionFacts DEF Inv
<1>3. /\ KernelInv' /\ LineTypeOK' /\ line' # << >> /\ UNCHANGED fds
      /\ \A d \in Clients \ {Served} : Readable(d) => Readable(d)'
    BY <1>1, <1>2, ReadLineEndKeeps
<1> QED
    BY <1>1, <1>3, SessionGoesOn

\* readline returned 0: the slot and the descriptor are freed together.
LEMMA InvClose == Inv /\ Close => Inv'
<1> SUFFICES ASSUME Inv, Close PROVE Inv'
    OBVIOUS
<1>1. /\ InSession /\ CloseFd(client[i]) /\ OneHandled(i + 1) /\ line' = << >>
      /\ client' = [client EXCEPT ![i] = -1]
      /\ UNCHANGED <<maxi, polled>>
    BY DEF Close, FreeSlot, InSession
<1>2. /\ InRound /\ Table /\ i \in Slots /\ i # 0 /\ i \in pollin
      /\ client[i] \in ConnFds /\ fds[client[i]] # None
    BY <1>1, SessionFacts, PendingFacts DEF OpenFds, Pending
<1>3. /\ KernelInv'
      /\ fds'[client[i]] = None
      /\ \A g \in ConnFds \ {client[i]} : fds'[g] = fds[g]
      /\ UNCHANGED <<backlog, sent, away, taken>>
    BY <1>1, <1>2, CloseKeeps DEF Inv
<1>4. OpenFds' = OpenFds \ {client[i]}
    BY <1>2, <1>3 DEF OpenFds
<1>5. \A t \in Slots : client'[t] = IF t = i THEN -1 ELSE client[t]
    BY <1>1, <1>2 DEF Inv, ServerTypeOK
<1>6. Table'
  <2>1. client'[0] = LISTENFD
    BY <1>2, <1>5, Sizes DEF Table
  <2>2. \A f \in OpenFds' : \E t \in Slots : client'[t] = f
    BY <1>2, <1>4, <1>5 DEF Table
  <2>3. \A t \in Slots : client'[t] # -1 => t # i /\ client'[t] = client[t]
    BY <1>5
  <2>4. client[i] # -1
    BY <1>2, Sizes
  <2>5. \A t \in Slots \ {0} : client'[t] # -1 => client'[t] \in OpenFds' /\ t <= maxi
    BY <1>2, <1>4, <2>3, <2>4 DEF Table
  <2>6. \A t, u \in Slots : client'[t] = client'[u] /\ client'[t] # -1 => t = u
    BY <1>2, <2>3 DEF Table
  <2> QED
    BY <1>1, <2>1, <2>2, <2>5, <2>6 DEF Table
<1>7. client' \in [Slots -> ConnFds \cup {LISTENFD, -1}] /\ maxi' \in Slots
    BY <1>1 DEF Inv, ServerTypeOK
<1>8. \A s \in Pending \ {0, i} : client'[s] = client[s] /\ Readable(fds[client[s]])'
  <2> SUFFICES ASSUME NEW s \in Pending \ {0, i}
               PROVE  client'[s] = client[s] /\ Readable(fds[client[s]])'
      OBVIOUS
  <2>1. /\ client[s] \in ConnFds \ {client[i]}
        /\ Readable(fds[client[s]])
    BY <1>1, OthersApart
  <2>2. client'[s] = client[s]
    BY <1>2, <1>5, PendingFacts
  <2> QED
    BY <1>3, <2>1, <2>2 DEF Readable
<1>9. LineTypeOK'
    BY <1>1 DEF LineTypeOK
<1> QED
    BY <1>1, <1>2, <1>3, <1>6, <1>7, <1>8, <1>9, SlotHandled

\* writen sends the line back, or fails.
LEMMA InvEcho == Inv /\ Echo => Inv'
<1> SUFFICES ASSUME Inv, Echo PROVE Inv'
    OBVIOUS
<1>1. /\ pc = "echo" /\ InSession /\ EchoDone /\ UNCHANGED <<client, maxi, polled>>
      /\ WritePart(Served) \/ WriteGivesUp(Served)
    BY DEF Echo, InSession
<1>2. Served \in Clients /\ KernelInv /\ LineTypeOK
    BY <1>1, SessionFacts DEF Inv
<1>3. /\ KernelInv' /\ LineTypeOK' /\ UNCHANGED fds
      /\ \A d \in Clients : Readable(d) => Readable(d)'
  <2>1. CASE WritePart(Served)
    BY <1>2, <2>1, WritePartKeeps DEF Readable
  <2>2. CASE WriteGivesUp(Served)
    BY <1>2, <2>2, WriteGivesUpKeeps
  <2> QED
    BY <1>1, <2>1, <2>2
<1>4. CASE line' # << >>
  <2>1. pc' = "echo" /\ UNCHANGED <<pollin, nready, i>>
    BY <1>1, <1>4 DEF EchoDone, round
  <2> QED
    BY <1>1, <1>3, <1>4, <2>1, SessionGoesOn
<1>5. CASE line' = << >>
  <2>1. OneHandled(i + 1) /\ InRound /\ Table /\ i \in pollin
    BY <1>1, <1>5, SessionFacts, PendingFacts DEF EchoDone, Pending
  <2>2. Table'
    BY <1>1, <1>3, <2>1 DEF Table, OpenFds
  <2>3. \A s \in Pending \ {0, i} : client'[s] = client[s] /\ Readable(fds[client[s]])'
    <3> SUFFICES ASSUME NEW s \in Pending \ {0, i} PROVE Readable(fds[client[s]])'
        BY <1>1
    <3>1. fds[client[s]] \in Clients /\ Readable(fds[client[s]])
      BY <1>1, OthersApart
    <3> QED
      BY <1>1, <1>3, <3>1 DEF Readable
  <2>4. /\ client' \in [Slots -> ConnFds \cup {LISTENFD, -1}] /\ maxi' \in Slots
        /\ polled' = polled
    BY <1>1 DEF Inv, ServerTypeOK
  <2> QED
    BY <1>3, <1>5, <2>1, <2>2, <2>3, <2>4, SlotHandled
<1> QED
    BY <1>4, <1>5

----------------------------------------------------------------------------
(* The theorems                                                            *)

\* Every step keeps the invariant.
LEMMA InvStep == Inv /\ [Next]_vars => Inv'
<1> SUFFICES ASSUME Inv, [Next]_vars PROVE Inv'
    OBVIOUS
<1>1. CASE UNCHANGED vars
  <2>1. /\ UNCHANGED <<link, backlog, fds, sent, away, taken, echoed, got, line>>
        /\ UNCHANGED <<pc, client, maxi, polled, pollin, nready, i>>
    BY <1>1 DEF vars, lineio, kernel, round
  <2>2. KernelInv' /\ LineTypeOK' /\ ServerTypeOK'
    BY <2>1 DEF Inv, KernelInv, KernelTypeOK, StreamsInBounds, QueueAgrees, FdsAgree,
                LineTypeOK, ServerTypeOK
  <2>3. (pc' # "dead" => Table') /\ RoundCounts' /\ LineInSession'
    BY <2>1 DEF Inv, Table, OpenFds, RoundCounts, LineInSession, Pending, InRound, InSession
  <2>4. StillReady'
    BY <2>1 DEF Inv, StillReady, Pending, InRound, InSession, Readable
  <2> QED
    BY <2>2, <2>3, <2>4 DEF Inv
<1>2. CASE ReadError
  <2>1. UNCHANGED <<link, backlog, fds, sent, away, taken, echoed, got, line>>
    BY <1>2 DEF ReadError, lineio, kernel
  <2>2. KernelInv'
    BY <2>1 DEF Inv, KernelInv, KernelTypeOK, StreamsInBounds, QueueAgrees, FdsAgree
  <2> QED
    BY <1>2, <2>1, <2>2, InvDie DEF ReadError
<1>3. CASE Poll \/ Accept \/ Scan \/ Environment
    BY <1>3, InvPoll, InvAccept, InvScan, InvEnvironment
<1>4. CASE ReadMore \/ ReadDone \/ Close \/ Echo
    BY <1>4, InvReadMore, InvReadDone, InvClose, InvEcho
<1> QED
    BY <1>1, <1>2, <1>3, <1>4 DEF Next, Server

\* The inductive invariant holds in every reachable state.
LEMMA SpecInv == Spec => []Inv
<1>1. Init => Inv
    BY InvInit
<1>2. Inv /\ [Next]_vars => Inv'
    BY InvStep
<1> QED
    BY <1>1, <1>2, PTL DEF Spec, SafeSpec

\* The kernel's descriptor table and the array given to poll agree after any
\* history of arrivals and departures: each connection has one slot, which
\* poll sees, whatever the limits, until the server exits.
THEOREM TableCorrect == Spec => []TableAgrees
<1>1. Inv => TableAgrees
    BY TableIsAgreement DEF Inv
<1> QED
    BY <1>1, SpecInv, PTL

\* The round ends by its count, on a descriptor that was ready: neither accept
\* nor the first read of a session blocks, and the scan never looks at the
\* uninitialised revents of a slot that was filled after poll returned.
THEOREM ReadinessCorrect == Spec => []ReadinessHolds
<1>1. Inv => ReadinessHolds
  <2> SUFFICES ASSUME Inv PROVE ReadinessHolds
      OBVIOUS
  <2>1. pc = "scan" => i <= polled
    BY NotPastPolled DEF InRound
  <2>2. pc = "accept" => backlog # << >>
    BY DEF Inv, StillReady
  <2>3. pc = "scan" => nready = Cardinality({s \in pollin : s >= i}) /\ nready > 0
    BY DEF Inv, RoundCounts, InRound, Pending
  <2>4. ASSUME pc = "read", line = << >> PROVE Readable(Served)
    <3>1. InSession /\ InRound
      BY <2>4 DEF InSession, InRound
    <3>2. i \in Pending \ {0}
      BY <3>1, SessionFacts
    <3> QED
      BY <2>4, <3>1, <3>2 DEF Inv, StillReady, Served
  <2> QED
    BY <2>1, <2>2, <2>3, <2>4 DEF ReadinessHolds, ReventsSet
<1> QED
    BY <1>1, SpecInv, PTL

-----------------------------------------------------------------------------
(* Echoes *)

\* What every client is owed: its bytes echoed or in hand.  Between sessions
\* every connection is at the start of a line.
EchoInv == /\ \A c \in Clients : Owed(c, InHand(c))
           /\ pc # "dead" => \A c \in Clients : (pc = "read" /\ Served = c) \/ Settled(c)
           /\ pc = "read" => InLine(Served)

\* Steps outside sessions.
LEMMA EchoQuiet ==
    ASSUME EchoInv, pc \in {"poll", "accept", "scan"}, line = << >>, line' = << >>, pc' # "read",
           \A c \in Clients : Settled(c) => /\ Settled(c)'
                                            /\ Owed(c, << >>) => Owed(c, << >>)'
    PROVE  EchoInv'
<1>1. \A c \in Clients : Settled(c)
    BY DEF EchoInv
<1>2. ASSUME NEW c \in Clients PROVE Owed(c, InHand(c))'
  <2>1. Owed(c, << >>)
    BY DEF EchoInv, InHand
  <2>2. Owed(c, << >>)'
    BY <1>1, <2>1
  <2>3. InHand(c)' = << >>
    BY DEF InHand
  <2> QED
    BY <2>2, <2>3
<1>3. \A c \in Clients : Settled(c)'
    BY <1>1
<1> QED
    BY <1>2, <1>3 DEF EchoInv

\* Steps of a session leave the other clients alone.
LEMMA SessionOwes ==
    ASSUME EchoInv, InSession, NEW s \in Clients, s = Served,
           \A d \in Clients \ {s} : Untouched(d),
           Owed(s, line) => Owed(s, line)',
           line' = << >> \/ UNCHANGED Served
    PROVE  /\ \A c \in Clients : Owed(c, InHand(c))'
           /\ \A c \in Clients \ {s} : Settled(c)'
<1>1. ASSUME NEW c \in Clients PROVE Owed(c, InHand(c))'
  <2>1. Owed(c, InHand(c))
    BY DEF EchoInv
  <2>2. CASE c = s
    <3>1. InHand(c) = line /\ InHand(c)' = line'
      BY <2>2 DEF InHand
    <3>2. Owed(s, line)'
      BY <2>1, <2>2, <3>1
    <3> QED
      BY <2>2, <3>1, <3>2
  <2>3. CASE c # s
    <3>1. InHand(c) = << >> /\ InHand(c)' = << >>
      BY <2>3 DEF InHand
    <3>2. PICK h : h = << >>
      OBVIOUS
    <3>3. Owed(c, h)'
      BY <2>1, <2>3, <3>1, <3>2, OwedStays
    <3> QED
      BY <3>1, <3>2, <3>3
  <2> QED
    BY <2>2, <2>3
<1>2. ASSUME NEW c \in Clients \ {s} PROVE Settled(c)'
  <2>1. Settled(c)
    BY DEF EchoInv, InSession
  <2>2. PICK h : h = << >>
    OBVIOUS
  <2> QED
    BY <2>1, OwedStays
<1> QED
    BY <1>1, <1>2

\* Nothing is owed at the start.
LEMMA EchoInit == Init => EchoInv
<1> SUFFICES ASSUME Init PROVE EchoInv
    OBVIOUS
<1>1. ASSUME NEW c \in Clients PROVE Owed(c, InHand(c)) /\ Settled(c)
  <2>1. /\ taken[c] = 0 /\ echoed[c] = << >> /\ link[c] = "none" /\ InHand(c) = << >>
    BY DEF Init, KernelInit, InHand
  <2>2. 0 \in 0 .. taken[c] /\ EchoedUpTo(c, 0)
    BY <2>1 DEF EchoedUpTo
  <2>3. \E k \in 0 .. taken[c] : EchoedUpTo(c, k)
    BY <2>2
  <2>4. Owed(c, InHand(c))
    BY <2>1, <2>3 DEF Owed
  <2> QED
    BY <2>1, <2>4 DEF Settled
<1> QED
    BY <1>1 DEF EchoInv, Init

\* A client's step.
LEMMA EchoEnvironment == Inv /\ EchoInv /\ Environment => EchoInv'
<1> SUFFICES ASSUME Inv, EchoInv, Environment PROVE EchoInv'
    OBVIOUS
<1>1. PICK d \in Clients : ClientStep(d)
    BY DEF Environment
<1>2. UNCHANGED <<line, pc, client, maxi, polled, pollin, nready, i>> /\ pc # "dead"
    BY DEF Environment, round
<1>3. UNCHANGED fds /\ KernelInv
    BY <1>1, ClientKeeps DEF Inv
<1>4. ASSUME NEW c \in Clients PROVE InHand(c)' = InHand(c)
    BY <1>2, <1>3 DEF InHand, Served
<1>5. ASSUME NEW c \in Clients PROVE Owed(c, InHand(c))'
  <2>1. PICK h : h = InHand(c)
    OBVIOUS
  <2>2. Owed(c, h)
    BY <2>1 DEF EchoInv
  <2>3. Owed(c, h)'
    BY <1>1, <1>3, <2>2, OwedClient
  <2> QED
    BY <1>4, <2>1, <2>3
<1>6. ASSUME NEW c \in Clients, Settled(c) PROVE Settled(c)'
  <2>1. PICK h : h = << >>
    OBVIOUS
  <2> QED
    BY <1>1, <1>3, <1>6, OwedClient
<1>7. ASSUME pc = "read" PROVE InLine(Served)'
  <2>1. PICK s \in Clients : s = Served
    BY <1>7, SessionFacts DEF InSession
  <2>2. InLine(s) /\ Served' = s
    BY <1>2, <1>3, <1>7, <2>1 DEF EchoInv, Served
  <2>3. PICK h : h = << >>
    OBVIOUS
  <2>4. InLine(s)'
    BY <1>1, <1>2, <1>3, <2>2, OwedClient
  <2> QED
    BY <2>2, <2>4
<1>8. Served' = Served
    BY <1>2, <1>3 DEF Served
<1> QED
    BY <1>2, <1>5, <1>6, <1>7, <1>8 DEF EchoInv

\* Waiting and accepting owe nobody anything new.
LEMMA EchoAccept == Inv /\ EchoInv /\ (Poll \/ Accept) => EchoInv'
<1> SUFFICES ASSUME Inv, EchoInv, Poll \/ Accept PROVE EchoInv'
    OBVIOUS
<1>1. /\ pc \in {"poll", "accept"} /\ line = << >> /\ line' = << >>
      /\ pc' # "read"
      /\ \/ UNCHANGED kernel
         \/ \E f \in ConnFds : AcceptAs(f)
    BY DEF Poll, Accept, Store, OneHandled, EndRound, Die, Inv, LineInSession, InSession, lineio
<1>2. ASSUME NEW c \in Clients, Settled(c)
      PROVE  Settled(c)' /\ (Owed(c, << >>) => Owed(c, << >>)')
  <2>1. CASE UNCHANGED kernel
    <3>1. Untouched(c)
      BY <2>1 DEF kernel, Untouched
    <3>2. PICK h : h = << >>
      OBVIOUS
    <3>3. Settled(c)' /\ (Owed(c, h) => Owed(c, h)')
      BY <1>2, <3>1, OwedStays
    <3> QED
      BY <3>2, <3>3
  <2>2. CASE \E f \in ConnFds : AcceptAs(f)
    BY <1>2, <2>2, OwedAccept DEF Inv
  <2> QED
    BY <1>1, <2>1, <2>2
<1> QED
    BY <1>1, <1>2, EchoQuiet

\* A session starts at the start of a line.
LEMMA EchoScan == Inv /\ EchoInv /\ Scan => EchoInv'
<1> SUFFICES ASSUME Inv, EchoInv, Scan PROVE EchoInv'
    OBVIOUS
<1>1. /\ UNCHANGED <<link, backlog, fds, sent, away, taken, echoed, got, line, client>>
      /\ line = << >> /\ pc = "scan"
    BY DEF Scan, lineio, kernel, Inv, LineInSession, InSession
<1>2. ASSUME NEW c \in Clients
      PROVE  Settled(c)' /\ (Owed(c, << >>) => Owed(c, << >>)')
  <2>1. Untouched(c)
    BY <1>1 DEF Untouched
  <2>2. Settled(c)
    BY <1>1 DEF EchoInv
  <2>3. PICK h : h = << >>
    OBVIOUS
  <2>4. Settled(c)' /\ (Owed(c, h) => Owed(c, h)')
    BY <2>1, <2>2, OwedStays
  <2> QED
    BY <2>3, <2>4
<1>3. CASE pc' # "read"
    BY <1>1, <1>2, <1>3, EchoQuiet
<1>4. CASE pc' = "read"
  <2>1. i' = i /\ i \in Slots \ {0} /\ client[i] # -1
    <3>1. i' = i /\ ~ (i > maxi) /\ client[i] # -1
      BY <1>1, <1>4 DEF Scan, EndRound, round
    <3>2. i >= 1 /\ i \in Nat /\ maxi \in Slots
      BY <1>1 DEF Inv, RoundCounts, ServerTypeOK
    <3> QED
      BY <3>1, <3>2, TableAssumption DEF Slots
  <2>2. PICK s \in Clients : s = fds[client[i']] /\ link[s] = "open"
    <3>1. client[i] \in OpenFds
      BY <1>1, <2>1 DEF Inv, Table
    <3> QED
      BY <2>1, <3>1 DEF OpenFds, Inv, KernelInv, KernelTypeOK, FdsAgree
  <2>3. ASSUME NEW c \in Clients PROVE Owed(c, InHand(c))'
    <3>1. InHand(c) = << >> /\ InHand(c)' = << >>
      BY <1>1 DEF InHand
    <3> QED
      BY <1>2, <3>1 DEF EchoInv
  <2>4. InLine(s)'
    <3>1. AtLineStart(s, taken[s]) /\ taken[s] \in Nat
      BY <1>1, <2>2, StreamFacts DEF EchoInv, Settled, Inv
    <3>2. taken[s] - 0 = taken[s] /\ 0 <= taken[s] /\ 0 <= MAXLINE /\ Len(line) = 0
      BY <1>1, <3>1, MaxlineAssumption
    <3> QED
      BY <1>1, <3>1, <3>2 DEF InLine, AtLineStart
  <2>5. Served' = s
    BY <1>1, <2>2 DEF Served
  <2> QED
    BY <1>2, <1>4, <2>3, <2>4, <2>5 DEF EchoInv
<1> QED
    BY <1>3, <1>4

\* What readline takes from the socket is in hand.
LEMMA EchoRead == Inv /\ EchoInv /\ (ReadMore \/ ReadDone) => EchoInv'
<1> SUFFICES ASSUME Inv, EchoInv, ReadMore \/ ReadDone PROVE EchoInv'
    OBVIOUS
<1>1. /\ InSession /\ pc = "read" /\ UNCHANGED <<client, i>>
    BY DEF ReadMore, ReadDone, InSession, round
<1>2. PICK s \in Clients : s = Served
    BY <1>1, SessionFacts
<1>3. /\ link[s] = "open" /\ KernelInv /\ LineTypeOK /\ InLine(s)
  <2>1. link[s] = "open"
    BY <1>1, <1>2, SessionFacts, KernelAssumption DEF Served, Inv, KernelInv, FdsAgree
  <2> QED
    BY <1>1, <1>2, <2>1 DEF Inv, EchoInv
<1>4. /\ Owed(s, line) => Owed(s, line)'
      /\ \A d \in Clients \ {s} : Untouched(d)
      /\ \/ pc' = "read" /\ InLine(s)'
         \/ pc' = "echo" /\ AtLineStart(s, taken'[s])
      /\ UNCHANGED <<fds, link>>
  <2>1. CASE ReadMore
    <3>1. ReadLinePart(s) /\ pc' = "read"
      BY <1>2, <2>1 DEF ReadMore
    <3> QED
      BY <1>3, <3>1, PartFlows, ReadLinePartKeeps
  <2>2. CASE ReadDone
    <3>1. ReadLineEnd(s) /\ pc' = "echo"
      BY <1>2, <2>2 DEF ReadDone
    <3> QED
      BY <1>3, <3>1, EndFlows, ReadLineEndKeeps
  <2> QED
    BY <2>1, <2>2
<1>5. Served' = s
    BY <1>1, <1>2, <1>4 DEF Served
<1>6. /\ \A c \in Clients : Owed(c, InHand(c))'
      /\ \A c \in Clients \ {s} : Settled(c)'
  <2>1. UNCHANGED Served
    BY <1>2, <1>5
  <2> QED
    BY <1>1, <1>2, <1>4, <2>1, SessionOwes
<1>7. CASE pc' = "read" /\ InLine(s)'
  <2>1. InLine(Served)'
    BY <1>5, <1>7
  <2> QED
    BY <1>5, <1>6, <1>7, <2>1 DEF EchoInv
<1>8. CASE pc' = "echo" /\ AtLineStart(s, taken'[s])
  <2>1. Settled(s)'
    BY <1>3, <1>4, <1>8 DEF Settled, AtLineStart
  <2> QED
    BY <1>6, <1>8, <2>1 DEF EchoInv
<1> QED
    BY <1>4, <1>7, <1>8

\* The exit within a session.
LEMMA EchoError == Inv /\ EchoInv /\ (ReadError) => EchoInv'
<1> SUFFICES ASSUME Inv, EchoInv, ReadError PROVE EchoInv'
    OBVIOUS
<1>1. /\ UNCHANGED <<link, backlog, fds, sent, away, taken, echoed, got, line>>
      /\ UNCHANGED <<client, i>> /\ pc' = "dead"
    BY DEF ReadError, Die, lineio, kernel, round
<1>2. ASSUME NEW c \in Clients PROVE Owed(c, InHand(c))'
  <2>1. PICK h : h = InHand(c)
    OBVIOUS
  <2>2. InHand(c)' = h /\ Untouched(c)
    BY <1>1, <2>1 DEF InHand, Served, Untouched
  <2>3. Owed(c, h)
    BY <2>1 DEF EchoInv
  <2>4. Owed(c, h)'
    BY <2>2, <2>3, OwedStays
  <2> QED
    BY <2>2, <2>4
<1> QED
    BY <1>1, <1>2 DEF EchoInv

\* A session is closed with nothing in hand but an unfinished line.
LEMMA EchoClose == Inv /\ EchoInv /\ Close => EchoInv'
<1> SUFFICES ASSUME Inv, EchoInv, Close PROVE EchoInv'
    OBVIOUS
<1>1. /\ InSession /\ pc = "read" /\ CloseFd(client[i]) /\ line' = << >>
      /\ pc' \in {"poll", "scan"} /\ client[i] \in ConnFds
    BY SessionFacts DEF Close, OneHandled, EndRound, InSession
<1>2. PICK s \in Clients : s = Served
    BY <1>1, SessionFacts
<1>3. PICK f \in ConnFds : f = client[i]
    BY <1>1
<1>4. /\ KernelInv /\ LineTypeOK /\ InLine(s) /\ ReadLineNothing(s)
      /\ fds[f] = s /\ CloseFd(f)
    BY <1>1, <1>2, <1>3 DEF Inv, EchoInv, Close, Served
<1>5. link[s] = "open"
    BY <1>2, <1>4, KernelAssumption DEF KernelInv, FdsAgree
<1>6. /\ link'[s] = "closed"
      /\ Owed(s, line) => Owed(s, << >>)'
      /\ \A d \in Clients \ {s} : Untouched(d)
    BY <1>4, <1>5, NothingFlows
<1>7. /\ \A c \in Clients : Owed(c, InHand(c))'
      /\ \A c \in Clients \ {s} : Settled(c)'
  <2>1. Owed(s, line) => Owed(s, line)'
    BY <1>1, <1>6
  <2> QED
    BY <1>1, <1>2, <1>6, <2>1, SessionOwes
<1>8. Settled(s)'
    BY <1>6 DEF Settled
<1> QED
    BY <1>1, <1>7, <1>8 DEF EchoInv

\* writen goes on, is done, or fails.
LEMMA EchoWrite == Inv /\ EchoInv /\ (Echo) => EchoInv'
<1> SUFFICES ASSUME Inv, EchoInv, Echo PROVE EchoInv'
    OBVIOUS
<1>1. /\ InSession /\ pc = "echo" /\ pc' # "read"
      /\ line' = << >> \/ UNCHANGED <<client, i>>
      /\ WritePart(Served) \/ WriteGivesUp(Served)
    BY DEF Echo, round, EchoDone, OneHandled, EndRound, InSession
<1>2. PICK s \in Clients : s = Served
    BY <1>1, SessionFacts
<1>3. /\ KernelInv /\ LineTypeOK /\ Settled(s)
      /\ WritePart(s) \/ WriteGivesUp(s)
    BY <1>1, <1>2 DEF Inv, EchoInv
<1>4. link[s] = "open"
    BY <1>1, <1>2, SessionFacts, KernelAssumption DEF Served, Inv, KernelInv, FdsAgree
<1>5. /\ Owed(s, line) => Owed(s, line)'
      /\ \A d \in Clients \ {s} : Untouched(d)
      /\ UNCHANGED <<link, taken, fds>>
  <2>1. CASE WritePart(s)
    BY <1>3, <1>4, <2>1, WriteFlows, WritePartKeeps
  <2>2. CASE WriteGivesUp(s)
    BY <1>3, <1>4, <2>2, WriteFailsFlows, WriteGivesUpKeeps
  <2> QED
    BY <1>3, <2>1, <2>2
<1>6. line' = << >> \/ UNCHANGED Served
    BY <1>1, <1>5 DEF Served
<1>7. /\ \A c \in Clients : Owed(c, InHand(c))'
      /\ \A c \in Clients \ {s} : Settled(c)'
    BY <1>1, <1>2, <1>5, <1>6, SessionOwes
<1>8. Settled(s)'
    BY <1>3, <1>5 DEF Settled, AtLineStart
<1> QED
    BY <1>1, <1>7, <1>8 DEF EchoInv

\* Every step keeps what is owed.
LEMMA EchoStep == Inv /\ EchoInv /\ [Next]_vars => EchoInv'
<1> SUFFICES ASSUME Inv, EchoInv, [Next]_vars PROVE EchoInv'
    OBVIOUS
<1>1. CASE UNCHANGED vars
  <2>1. /\ UNCHANGED <<link, backlog, fds, sent, away, taken, echoed, got, line>>
        /\ UNCHANGED <<pc, client, maxi, polled, pollin, nready, i>>
    BY <1>1 DEF vars, lineio, kernel, round
  <2>2. ASSUME NEW c \in Clients
        PROVE  /\ Owed(c, InHand(c)) => Owed(c, InHand(c))'
               /\ Settled(c) => Settled(c)'
    <3>1. PICK h : h = InHand(c)
      OBVIOUS
    <3>2. InHand(c)' = h /\ Untouched(c)
      BY <2>1, <3>1 DEF InHand, Served, Untouched
    <3>3. (Owed(c, h) => Owed(c, h)') /\ (Settled(c) => Settled(c)')
      BY <3>2, OwedStays
    <3> QED
      BY <3>1, <3>2, <3>3
  <2>3. InLine(Served) => InLine(Served)'
    BY <2>1 DEF InLine, AtLineStart, Served
  <2>4. Served' = Served
    BY <2>1 DEF Served
  <2>5. \A c \in Clients : Owed(c, InHand(c))'
    BY <2>2 DEF EchoInv
  <2>6. pc # "dead" => \A c \in Clients : (pc = "read" /\ Served = c) \/ Settled(c)'
    BY <2>2 DEF EchoInv
  <2>8. pc' # "dead" => \A c \in Clients : (pc' = "read" /\ Served' = c) \/ Settled(c)'
    BY <2>1, <2>4, <2>6
  <2>7. pc = "read" => InLine(Served)'
    BY <2>3 DEF EchoInv
  <2> QED
    BY <2>1, <2>5, <2>7, <2>8 DEF EchoInv
<1>2. CASE Poll \/ Accept \/ Scan \/ Environment
    BY <1>2, EchoAccept, EchoScan, EchoEnvironment
<1>3. CASE ReadMore \/ ReadDone \/ ReadError \/ Close
    BY <1>3, EchoRead, EchoError, EchoClose
<1>4. CASE Echo
    BY <1>4, EchoWrite
<1> QED
    BY <1>1, <1>2, <1>3, <1>4 DEF Next, Server

\* Each client gets back what it sent, byte for byte, whatever the others do.
THEOREM EchoCorrect == Spec => []EchoFaithful
<1>1. Init => Inv /\ EchoInv
    BY InvInit, EchoInit
<1>2. Inv /\ EchoInv /\ [Next]_vars => (Inv /\ EchoInv)'
    BY InvStep, EchoStep
<1>3. Inv /\ EchoInv => EchoFaithful
  <2> SUFFICES ASSUME Inv, EchoInv, NEW c \in Clients, ~ FilledBuffer(c)
               PROVE  CASE link[c] = "open" /\ away[c] # "gone" -> EchoedAll(c, InHand(c))
                        [] link[c] = "closed" /\ away[c] # "gone" -> EchoedLines(c)
                        [] OTHER -> EchoedSome(c)
      BY DEF EchoFaithful
  <2>1. PICK h \in Seq(Nat) : h = InHand(c)
    <3>1. InHand(c) \in Seq(Nat)
      BY EmptySeq DEF InHand, Inv, LineTypeOK
    <3> QED
      BY <3>1, Zenon
  <2>2. Owed(c, h) /\ KernelInv
    BY <2>1 DEF EchoInv, Inv
  <2> QED
    BY <2>1, <2>2, OwedIsFaithful
<1> QED
    BY <1>1, <1>2, <1>3, PTL DEF Spec, SafeSpec
=============================================================================
