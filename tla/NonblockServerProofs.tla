------------------------ MODULE NonblockServerProofs ------------------------
(***************************************************************************)
(* Proofs about NonblockServer: for any number of clients and slots,       *)
(* whatever the clients send and wherever TCP cuts it, `peers` agrees with *)
(* the open descriptors, and a client whose lines arrive whole stays in    *)
(* step with the server.  The argument for the second: what a client does  *)
(* next, and whether the server is about to greet or to answer it, tell    *)
(* how many bytes have gone each way.                                      *)
(*                                                                         *)
(* LineIOProofs is there for the kernel's part; no step touches `line`.    *)
(***************************************************************************)
EXTENDS NonblockServer, LineIOProofs

ServerTypes ==
    /\ pc \in {"accept", "refuse", "greet", "scan", "answer", "dead"}
    /\ clientSock \in ConnFds \cup {0}
    /\ peers \in [Slots -> ConnFds \cup {0}]
    /\ peerLen \in 0 .. TCP_QUEUE_LEN
    /\ i \in Nat
    /\ turn \in [Clients -> {"welcome", "line", "answer"}]

\* PeersAgree, slot by slot and descriptor by descriptor.
PeersTable ==
    /\ \A s \in Slots : peers[s] # 0 => s < peerLen /\ peers[s] \in OpenFds
    /\ \A f \in OpenFds : \/ \E s \in Slots : peers[s] = f
                          \/ pc = "refuse" /\ f = clientSock
    /\ \A r, s \in Slots : peers[r] = peers[s] /\ peers[r] # 0 => r = s

\* What the server is about to do, it can still do.
Pending ==
    /\ pc = "refuse" => /\ FreeSlots = {}
                        /\ clientSock \in OpenFds
                        /\ \A s \in Slots : peers[s] # clientSock
    /\ pc = "greet" => clientSock \in OpenFds
    /\ pc = "answer" => i \in Slots /\ peers[i] # 0

Greets(c) == pc = "greet" /\ fds[clientSock] = c
Answers(c) == pc = "answer" /\ Peer = c

\* How far c's conversation with the server has come, if its lines are whole.
Conversation(c) ==
    /\ link[c] \in {"none", "queued"} \/ Greets(c) =>
          turn[c] = "welcome" /\ echoed[c] = << >>
    /\ turn[c] = "welcome" => /\ sent[c] = 0 /\ taken[c] = 0 /\ got[c] = 0
                              /\ Len(echoed[c]) \in {0, 1}
                              /\ ~ Answers(c)
    /\ turn[c] = "line" => /\ taken[c] = sent[c] /\ got[c] = 1 + sent[c]
                           /\ Len(echoed[c]) = got[c]
                           /\ ~ Answers(c)
    /\ turn[c] = "answer" =>
          /\ got[c] = sent[c]
          /\ \/ taken[c] + 1 = sent[c] /\ Len(echoed[c]) = sent[c] /\ ~ Answers(c)
             \/ taken[c] = sent[c] /\ Len(echoed[c]) = sent[c] /\ Answers(c)
             \/ taken[c] = sent[c] /\ Len(echoed[c]) = 1 + sent[c] /\ ~ Answers(c)

InStep(c) == WholeLines(c) /\ away[c] = "up" => Conversation(c)

Table == ServerTypes /\ PeersTable /\ Pending

Inv == KernelInv /\ Table /\ \A c \in Clients : InStep(c)

----------------------------------------------------------------------------
(* What the invariant gives                                                *)

LEMMA Numbers ==
    /\ TCP_QUEUE_LEN \in Nat /\ TCP_QUEUE_LEN > 0 /\ BUFFER_SIZE \in Nat /\ BUFFER_SIZE > 0
    /\ SOCKBUF \in Nat /\ SOCKBUF > 0
    /\ Slots \subseteq Nat /\ IsFiniteSet(Slots) /\ Cardinality(Slots) = TCP_QUEUE_LEN
    /\ ConnFds \subseteq Nat /\ 0 \notin ConnFds
<1>1. 0 \in Int /\ TCP_QUEUE_LEN - 1 \in Int /\ ~ (0 > TCP_QUEUE_LEN - 1)
    BY NonblockAssumption
<1>2. IsFiniteSet(Slots) /\ Cardinality(Slots) = TCP_QUEUE_LEN
    BY <1>1, NonblockAssumption, FS_Interval DEF Slots
<1> QED
    BY <1>2, NonblockAssumption, KernelAssumption DEF Slots, ConnFds, LISTENFD

\* The client behind an open descriptor, and there is one behind each slot that
\* is looked at, or about to be answered.
LEMMA OpenFacts ==
    ASSUME KernelInv, NEW f \in OpenFds
    PROVE  f \in ConnFds /\ fds[f] \in Clients /\ link[fds[f]] = "open"
BY DEF OpenFds, KernelInv, KernelTypeOK, FdsAgree

LEMMA PeerFacts ==
    ASSUME Inv, i \in Slots, peers[i] # 0
    PROVE  /\ peers[i] \in OpenFds /\ peers[i] \in ConnFds
           /\ Peer \in Clients /\ link[Peer] = "open"
<1>1. peers[i] \in OpenFds
    BY DEF Inv, Table, PeersTable
<1> QED
    BY <1>1, OpenFacts DEF Inv, Peer

LEMMA LooksAtSlot ==
    ASSUME Table, i < peerLen
    PROVE  i \in Slots
BY Numbers DEF Table, ServerTypes, Slots

\* A conversation goes on as it was while the client and the server do nothing
\* in it.
LEMMA Unmoved ==
    ASSUME NEW c \in Clients, InStep(c),
           away'[c] = "up" => away[c] = "up",
           turn'[c] = turn[c], sent'[c] = sent[c], taken'[c] = taken[c],
           got'[c] = got[c], echoed'[c] = echoed[c],
           link'[c] \in {"none", "queued"} \/ Greets(c)' =>
              link[c] \in {"none", "queued"} \/ Greets(c),
           Answers(c)' <=> Answers(c)
    PROVE  InStep(c)'
BY DEF InStep, WholeLines, Conversation

\* The table is kept by what changes neither it nor the descriptors.
LEMMA TableStays ==
    ASSUME Inv, UNCHANGED <<fds, table>>, pc # "refuse",
           pc' \in {"accept", "scan", "dead"} \/ (pc' = "answer" /\ i \in Slots /\ peers[i] # 0),
           clientSock' \in {clientSock, 0}, i' \in Nat, pc' = "answer" => i' = i,
           turn' \in [Clients -> {"welcome", "line", "answer"}]
    PROVE  Table'
<1>1. ServerTypes'
    BY DEF Inv, Table, ServerTypes, table
<1>2. OpenFds' = OpenFds /\ UNCHANGED <<peers, peerLen>>
    BY DEF OpenFds, table
<1>3. PeersTable'
    BY <1>2 DEF Inv, Table, PeersTable
<1>4. Pending'
    BY <1>2 DEF Pending
<1> QED
    BY <1>1, <1>3, <1>4 DEF Table

----------------------------------------------------------------------------
\* Nobody is connected.
LEMMA InvInit == Init => Inv
<1> SUFFICES ASSUME Init PROVE Inv
    OBVIOUS
<1>1. KernelInv
    BY KernelInvInit DEF Init
<1>2. OpenFds = {} /\ \A s \in Slots : peers[s] = 0
    BY DEF Init, KernelInit, OpenFds
<1>3. Table
    BY <1>2, Numbers DEF Init, Table, ServerTypes, PeersTable, Pending
<1>4. \A c \in Clients : InStep(c)
    BY DEF Init, KernelInit, InStep, Conversation, Greets, Answers
<1> QED
    BY <1>1, <1>3, <1>4 DEF Inv

\* accept finds nothing, the scan ends, or it passes a slot.
LEMMA QuietSteps == Inv /\ (NothingAccepted \/ ScanEnds \/ Skip) => Inv'
<1> SUFFICES ASSUME Inv, NothingAccepted \/ ScanEnds \/ Skip PROVE Inv'
    OBVIOUS
<1>1. /\ pc \in {"accept", "scan"} /\ pc' \in {"accept", "scan"}
      /\ clientSock' \in {clientSock, 0} /\ i' \in Nat
      /\ UNCHANGED <<kernel, table, turn>>
    BY DEF NothingAccepted, ScanEnds, Skip, StartScan, NextPeer, Inv, Table, ServerTypes
<1>2. KernelInv'
    BY <1>1 DEF Inv, KernelInv, KernelTypeOK, StreamsInBounds, QueueAgrees, FdsAgree, kernel
<1>3. Table'
    BY <1>1, TableStays DEF kernel, Inv, Table, ServerTypes
<1>4. ASSUME NEW c \in Clients PROVE InStep(c)'
    BY <1>1, Unmoved DEF Inv, Greets, Answers, kernel
<1> QED
    BY <1>2, <1>3, <1>4 DEF Inv

\* A new connection goes to a free slot, or will be refused.
LEMMA AcceptTable ==
    ASSUME Inv, Accept
    PROVE  KernelInv' /\ Table'
<1>1. PICK f \in ConnFds : AcceptAs(f) /\ clientSock' = f
    BY DEF Accept
<1>2. /\ KernelInv' /\ fds[f] = None /\ fds'[f] \in Clients
      /\ \A g \in ConnFds \ {f} : fds'[g] = fds[g]
    BY <1>1, AcceptKeeps DEF Inv
<1>3. f \notin OpenFds /\ OpenFds' = OpenFds \cup {f}
    BY <1>2, KernelAssumption DEF OpenFds
<1>4. pc = "accept" /\ UNCHANGED <<i, turn>>
    BY DEF Accept
<1>5. \A s \in Slots : peers[s] # f
    BY <1>3, Numbers DEF Inv, Table, PeersTable
<1>6. CASE FreeSlots = {}
  <2>1. pc' = "refuse" /\ UNCHANGED <<peers, peerLen>>
    BY <1>6 DEF Accept, table
  <2>2. ServerTypes'
    BY <1>1, <1>4, <2>1 DEF Inv, Table, ServerTypes
  <2>3. PeersTable'
    BY <1>1, <1>3, <1>4, <2>1 DEF Inv, Table, PeersTable
  <2>4. Pending'
    BY <1>1, <1>3, <1>5, <1>6, <2>1 DEF Pending, FreeSlots
  <2> QED
    BY <1>2, <2>2, <2>3, <2>4 DEF Table
<1>7. CASE FreeSlots # {}
  <2>1. PICK s \in Slots : /\ peers[s] = 0
                           /\ peers' = [peers EXCEPT ![s] = f]
                           /\ peerLen' = NewPeerLen(s)
    BY <1>1, <1>7 DEF Accept, FreeSlots
  <2>2. pc' = "greet"
    BY <1>7 DEF Accept
  <2>3. \A r \in Slots : peers'[r] = IF r = s THEN f ELSE peers[r]
    BY <2>1 DEF Inv, Table, ServerTypes
  <2>4. /\ peerLen' \in 0 .. TCP_QUEUE_LEN /\ s < peerLen'
        /\ \A r \in Slots : r < peerLen => r < peerLen'
    BY <2>1, Numbers DEF Inv, Table, ServerTypes, NewPeerLen, Slots
  <2>5. ServerTypes'
    BY <1>1, <1>4, <2>1, <2>2, <2>4 DEF Inv, Table, ServerTypes
  <2>6. PeersTable'
    <3>1. \A r \in Slots : peers'[r] # 0 => r < peerLen' /\ peers'[r] \in OpenFds'
      BY <1>3, <2>3, <2>4 DEF Inv, Table, PeersTable
    <3>2. \A g \in OpenFds' : \E r \in Slots : peers'[r] = g
      <4>1. \A g \in OpenFds : \E r \in Slots : peers[r] = g /\ g # 0
        BY <1>4, Numbers DEF Inv, Table, PeersTable, OpenFds
      <4> QED
        BY <1>3, <2>1, <2>3, <4>1
    <3>3. \A q, r \in Slots : peers'[q] = peers'[r] /\ peers'[q] # 0 => q = r
      BY <1>5, <2>3 DEF Inv, Table, PeersTable
    <3> QED
      BY <3>1, <3>2, <3>3 DEF PeersTable
  <2>7. Pending'
    BY <1>1, <1>3, <2>2 DEF Pending
  <2> QED
    BY <1>2, <2>5, <2>6, <2>7 DEF Table
<1> QED
    BY <1>6, <1>7

\* Its conversation has not begun.
LEMMA InvAccept == Inv /\ Accept => Inv'
<1> SUFFICES ASSUME Inv, Accept PROVE Inv'
    OBVIOUS
<1>1. PICK f \in ConnFds : AcceptAs(f) /\ clientSock' = f
    BY DEF Accept
<1>2. /\ fds'[f] = Head(backlog)
      /\ \A d \in Clients : link'[d] = IF d = Head(backlog) THEN "open" ELSE link[d]
      /\ UNCHANGED <<sent, away, taken, echoed, got>>
    BY <1>1 DEF AcceptAs, Inv, KernelInv, KernelTypeOK
<1>3. Head(backlog) \in Clients /\ link[Head(backlog)] = "queued"
  <2>1. backlog # << >> /\ backlog \in Seq(Clients)
    BY <1>1 DEF AcceptAs, Inv, KernelInv, KernelTypeOK
  <2>2. 1 \in 1 .. Len(backlog) /\ Head(backlog) = backlog[1]
    BY <2>1
  <2> QED
    BY <2>1, <2>2, QueuedClients DEF Inv
<1>4. pc = "accept" /\ pc' \in {"refuse", "greet"} /\ UNCHANGED turn
    BY DEF Accept
<1>5. ASSUME NEW c \in Clients PROVE InStep(c)'
  <2>1. Greets(c)' => c = Head(backlog)
    BY <1>1, <1>2 DEF Greets
  <2>2. ~ Answers(c) /\ ~ Answers(c)'
    BY <1>4 DEF Answers
  <2> QED
    BY <1>2, <1>3, <1>4, <2>1, <2>2, Unmoved DEF Inv
<1> QED
    BY <1>5, AcceptTable DEF Inv

\* close, by which the client loses its connection, of the one that is refused ...
LEMMA InvRefuse == Inv /\ Refuse => Inv'
<1> SUFFICES ASSUME Inv, Refuse PROVE Inv'
    OBVIOUS
<1>1. /\ pc = "refuse" /\ pc' = "scan" /\ i' = 0 /\ clientSock' = 0
      /\ CloseFd(clientSock) /\ UNCHANGED <<peers, peerLen, turn>>
    BY DEF Refuse, StartScan, table
<1>2. clientSock \in ConnFds /\ fds[clientSock] # None /\ fds[clientSock] \in Clients
    BY <1>1, OpenFacts DEF Inv, Table, Pending, OpenFds
<1>3. /\ KernelInv' /\ fds'[clientSock] = None
      /\ \A g \in ConnFds \ {clientSock} : fds'[g] = fds[g]
      /\ UNCHANGED <<sent, away, taken>>
    BY <1>1, <1>2, CloseKeeps DEF Inv
<1>4. OpenFds' = OpenFds \ {clientSock}
    BY <1>2, <1>3 DEF OpenFds
<1>5. ServerTypes'
    BY <1>1, Numbers DEF Inv, Table, ServerTypes
<1>6. PeersTable' /\ Pending'
    BY <1>1, <1>4 DEF Inv, Table, PeersTable, Pending
<1>7. ASSUME NEW c \in Clients PROVE InStep(c)'
  <2>1. /\ link'[c] \in {"none", "queued"} => link[c] \in {"none", "queued"}
        /\ UNCHANGED <<echoed, got>>
    BY <1>1, <1>2 DEF CloseFd, Inv, KernelInv, KernelTypeOK
  <2> QED
    BY <1>1, <1>3, <2>1, Unmoved DEF Inv, Greets, Answers
<1> QED
    BY <1>3, <1>5, <1>6, <1>7 DEF Inv, Table

\* ... and of one whose client has left.
LEMMA InvRecvNothing == Inv /\ RecvNothing => Inv'
<1> SUFFICES ASSUME Inv, RecvNothing PROVE Inv'
    OBVIOUS
<1>1. /\ pc = "scan" /\ pc' = "scan" /\ i' = i + 1 /\ i < peerLen /\ peers[i] # 0
      /\ CloseFd(peers[i]) /\ UNCHANGED <<clientSock, peerLen, turn>>
      /\ peers' = [peers EXCEPT ![i] = 0] /\ away[Peer] # "up"
    BY DEF RecvNothing, Looks, NextPeer
<1>2. i \in Slots
    BY <1>1, LooksAtSlot DEF Inv
<1>3. /\ peers[i] \in OpenFds /\ peers[i] \in ConnFds /\ fds[peers[i]] # None
      /\ Peer \in Clients
    BY <1>1, <1>2, PeerFacts DEF OpenFds
<1>4. /\ KernelInv' /\ fds'[peers[i]] = None
      /\ \A g \in ConnFds \ {peers[i]} : fds'[g] = fds[g]
      /\ UNCHANGED <<sent, away, taken>>
    BY <1>1, <1>3, CloseKeeps DEF Inv
<1>5. OpenFds' = OpenFds \ {peers[i]}
    BY <1>3, <1>4 DEF OpenFds
<1>6. \A s \in Slots : peers'[s] = IF s = i THEN 0 ELSE peers[s]
    BY <1>1, <1>2 DEF Inv, Table, ServerTypes
<1>7. ServerTypes'
    BY <1>1, <1>2 DEF Inv, Table, ServerTypes
<1>8. PeersTable'
    BY <1>1, <1>2, <1>5, <1>6 DEF Inv, Table, PeersTable
<1>9. Pending'
    BY <1>1 DEF Pending
<1>10. ASSUME NEW c \in Clients PROVE InStep(c)'
  <2>1. /\ link'[c] \in {"none", "queued"} => link[c] \in {"none", "queued"}
        /\ UNCHANGED <<echoed, got>>
    BY <1>1, <1>3 DEF CloseFd, Inv, KernelInv, KernelTypeOK
  <2> QED
    BY <1>1, <1>4, <2>1, Unmoved DEF Inv, Greets, Answers
<1> QED
    BY <1>4, <1>7, <1>8, <1>9, <1>10 DEF Inv, Table

\* recv reports an error: of that connection nothing is claimed any more.
LEMMA InvRecvError == Inv /\ RecvError => Inv'
<1> SUFFICES ASSUME Inv, RecvError PROVE Inv'
    OBVIOUS
<1>1. /\ pc = "scan" /\ pc' = "scan" /\ i' = i + 1 /\ i < peerLen /\ peers[i] # 0
      /\ away' = [away EXCEPT ![Peer] = "gone"]
      /\ UNCHANGED <<link, backlog, fds, sent, taken, echoed, got, table, turn, clientSock>>
    BY DEF RecvError, Looks, NextPeer
<1>2. i \in Slots /\ Peer \in Clients
    BY <1>1, LooksAtSlot, PeerFacts DEF Inv
<1>3. KernelInv'
    BY <1>1, <1>2 DEF Inv, KernelInv, KernelTypeOK, StreamsInBounds, QueueAgrees, FdsAgree
<1>4. Table'
    BY <1>1, TableStays DEF Inv, Table, ServerTypes
<1>5. ASSUME NEW c \in Clients PROVE InStep(c)'
  <2>1. away'[c] = "up" => away[c] = "up"
    BY <1>1, <1>2 DEF Inv, KernelInv, KernelTypeOK
  <2> QED
    BY <1>1, <2>1, Unmoved DEF Inv, Greets, Answers
<1> QED
    BY <1>3, <1>4, <1>5 DEF Inv

----------------------------------------------------------------------------
(* The server sends                                                        *)

\* send: to a client that has read all it was sent, the message goes out.
LEMMA SendToKeeps ==
    ASSUME KernelInv, NEW c \in Clients, NEW msg \in Nat,
           Write(c, SubSeq(<<msg>>, 1, Writable(c, <<msg>>))) \/ FailWrite(c)
    PROVE  /\ KernelInv' /\ UNCHANGED <<link, fds, sent, taken, got>>
           /\ \A d \in Clients \ {c} : away'[d] = away[d] /\ echoed'[d] = echoed[d]
           /\ away'[c] = "up" =>
                 /\ away[c] = "up"
                 /\ Len(echoed[c]) = got[c] => Len(echoed'[c]) = Len(echoed[c]) + 1
<1>1. CASE FailWrite(c)
  <2>1. KernelInv'
    BY <1>1 DEF FailWrite, KernelInv, KernelTypeOK, StreamsInBounds, QueueAgrees, FdsAgree
  <2> QED
    BY <1>1, <2>1 DEF FailWrite, KernelInv, KernelTypeOK
<1>2. CASE Write(c, SubSeq(<<msg>>, 1, Writable(c, <<msg>>)))
  <2>1. PICK k \in Int : /\ k = Writable(c, <<msg>>) /\ k <= 1
                         /\ Len(echoed[c]) = got[c] => k = 1
    <3>1. /\ Len(echoed[c]) \in Nat /\ got[c] \in Nat /\ Len(<<msg>>) = 1
      BY DEF KernelInv, KernelTypeOK
    <3>2. /\ Writable(c, <<msg>>) \in Int /\ Writable(c, <<msg>>) <= 1
          /\ Len(echoed[c]) = got[c] => Writable(c, <<msg>>) = 1
      BY <3>1, Numbers DEF Writable, Lesser
    <3> QED
      BY <3>2, Zenon
  <2>2. <<msg>> \in Seq(Nat) /\ Len(<<msg>>) = 1
    OBVIOUS
  <2>3. PICK part \in Seq(Nat) : /\ part = SubSeq(<<msg>>, 1, k)
                                 /\ k = 1 => Len(part) = 1
    <3>1. /\ SubSeq(<<msg>>, 1, k) \in Seq(Nat)
          /\ k = 1 => Len(SubSeq(<<msg>>, 1, k)) = 1
      BY <2>1, <2>2, PartType
    <3> QED
      BY <3>1, Zenon
  <2>4. /\ echoed[c] \o part \in Seq(Nat)
        /\ Len(echoed[c] \o part) = Len(echoed[c]) + Len(part)
    <3>1. echoed[c] \in Seq(Nat)
      BY DEF KernelInv, KernelTypeOK
    <3> QED
      BY <2>3, <3>1, ConcatProperties
  <2>5. Write(c, part)
    <3>1. part = SubSeq(<<msg>>, 1, Writable(c, <<msg>>))
      BY <2>1, <2>3
    <3> QED
      BY <1>2, <3>1 DEF Write
  <2>6. /\ UNCHANGED <<link, backlog, fds, sent, away, taken, got>>
        /\ echoed' = [echoed EXCEPT ![c] = echoed[c] \o part]
        /\ \A d \in Clients : echoed'[d] = IF d = c THEN echoed[c] \o part ELSE echoed[d]
    BY <2>5 DEF Write, KernelInv, KernelTypeOK
  <2>7. KernelInv'
    <3>1. echoed' \in [Clients -> Seq(Nat)]
      BY <2>4, <2>6 DEF KernelInv, KernelTypeOK
    <3> QED
      BY <2>6, <3>1 DEF KernelInv, KernelTypeOK, StreamsInBounds, QueueAgrees, FdsAgree
  <2>8. Len(echoed[c]) = got[c] => Len(echoed'[c]) = Len(echoed[c]) + 1
    <3>1. echoed'[c] = echoed[c] \o part
      BY <2>6
    <3>2. ASSUME Len(echoed[c]) = got[c] PROVE Len(part) = 1
      BY <2>1, <2>3, <3>2
    <3> QED
      BY <2>4, <3>1, <3>2
  <2> QED
    BY <2>6, <2>7, <2>8
<1> QED
    BY <1>1, <1>2

\* The welcome is the first that is sent.
LEMMA InvGreet == Inv /\ Greet => Inv'
<1> SUFFICES ASSUME Inv, Greet PROVE Inv'
    OBVIOUS
<1>1. PICK c \in Clients : c = fds[clientSock]
    BY OpenFacts DEF Greet, Inv, Table, Pending
<1>2. /\ \/ Write(c, SubSeq(<<WELCOME_MSG>>, 1, Writable(c, <<WELCOME_MSG>>)))
         \/ FailWrite(c)
      /\ pc = "greet" /\ pc' \in {"scan", "dead"} /\ clientSock' \in {clientSock, 0}
      /\ i' \in {i, 0} /\ UNCHANGED <<table, turn>>
    BY <1>1 DEF Greet, SendTo, StartScan
<1>3. /\ KernelInv' /\ UNCHANGED <<link, fds, sent, taken, got>>
      /\ \A d \in Clients \ {c} : away'[d] = away[d] /\ echoed'[d] = echoed[d]
      /\ away'[c] = "up" =>
            /\ away[c] = "up"
            /\ Len(echoed[c]) = got[c] => Len(echoed'[c]) = Len(echoed[c]) + 1
    BY <1>2, SendToKeeps DEF Inv, WELCOME_MSG
<1>4. Table'
    BY <1>2, <1>3, TableStays DEF Inv, Table, ServerTypes
<1>5. ASSUME NEW d \in Clients \ {c} PROVE InStep(d)'
    BY <1>2, <1>3, Unmoved DEF Inv, Greets, Answers
<1>6. InStep(c)'
  <2>1. SUFFICES ASSUME WholeLines(c), away'[c] = "up" PROVE Conversation(c)'
    BY DEF InStep, WholeLines
  <2>2. Conversation(c) /\ Greets(c)
    BY <1>1, <1>2, <1>3, <2>1 DEF Inv, InStep, Greets
  <2>3. /\ turn[c] = "welcome" /\ sent[c] = 0 /\ taken[c] = 0 /\ got[c] = 0
        /\ Len(echoed[c]) = 0
    BY <2>2 DEF Conversation
  <2>4. link'[c] = "open"
    BY <1>1, <1>3, OpenFacts DEF Greet, Inv, Table, Pending
  <2>5. Len(echoed'[c]) = 1
    BY <1>3, <2>1, <2>3
  <2> QED
    BY <1>2, <1>3, <2>3, <2>4, <2>5 DEF Conversation, Greets, Answers
<1> QED
    BY <1>3, <1>4, <1>5, <1>6 DEF Inv

\* An answer goes to a client that waits for it, and has read all before it.
LEMMA InvAnswer == Inv /\ Answer => Inv'
<1> SUFFICES ASSUME Inv, Answer PROVE Inv'
    OBVIOUS
<1>1. PICK c \in Clients : c = Peer /\ link[c] = "open"
    BY PeerFacts DEF Answer, Inv, Table, Pending
<1>2. /\ \/ Write(c, SubSeq(<<OK>>, 1, Writable(c, <<OK>>)))
         \/ FailWrite(c)
      /\ pc = "answer" /\ pc' \in {"scan", "dead"} /\ clientSock' \in {clientSock, 0}
      /\ i' \in {i, i + 1} /\ UNCHANGED <<table, turn>>
    BY <1>1 DEF Answer, SendTo, NextPeer
<1>3. /\ KernelInv' /\ UNCHANGED <<link, fds, sent, taken, got>>
      /\ \A d \in Clients \ {c} : away'[d] = away[d] /\ echoed'[d] = echoed[d]
      /\ away'[c] = "up" =>
            /\ away[c] = "up"
            /\ Len(echoed[c]) = got[c] => Len(echoed'[c]) = Len(echoed[c]) + 1
    BY <1>2, SendToKeeps DEF Inv, OK
<1>4. Table'
    BY <1>2, <1>3, TableStays DEF Inv, Table, ServerTypes
<1>5. ASSUME NEW d \in Clients \ {c} PROVE InStep(d)'
    BY <1>1, <1>2, <1>3, Unmoved DEF Inv, Greets, Answers
<1>6. InStep(c)'
  <2>1. SUFFICES ASSUME WholeLines(c), away'[c] = "up" PROVE Conversation(c)'
    BY DEF InStep, WholeLines
  <2>2. Conversation(c) /\ Answers(c)
    BY <1>1, <1>2, <1>3, <2>1 DEF Inv, InStep, Answers
  <2>3. /\ turn[c] = "answer" /\ got[c] = sent[c] /\ taken[c] = sent[c]
        /\ Len(echoed[c]) = sent[c] /\ sent[c] \in Nat
    BY <2>2 DEF Conversation, Inv, Table, ServerTypes, KernelInv, KernelTypeOK
  <2>4. Len(echoed'[c]) = 1 + sent[c]
    BY <1>3, <2>1, <2>3
  <2> QED
    BY <1>1, <1>2, <1>3, <2>3, <2>4 DEF Conversation, Greets, Answers
<1> QED
    BY <1>3, <1>4, <1>5, <1>6 DEF Inv

----------------------------------------------------------------------------
(* The server receives, and the clients                                    *)

\* Of a client that sends whole lines, recv takes the one that is there.
LEMMA InvRecv == Inv /\ Recv => Inv'
<1> SUFFICES ASSUME Inv, Recv PROVE Inv'
    OBVIOUS
<1>1. /\ pc = "scan" /\ i < peerLen /\ peers[i] # 0 /\ pc' = "answer"
      /\ UNCHANGED <<clientSock, i, table, turn>>
    BY DEF Recv, Looks
<1>2. i \in Slots
    BY <1>1, LooksAtSlot DEF Inv
<1>3. PICK c \in Clients : c = Peer
    BY <1>1, <1>2, PeerFacts
<1>4. PICK s \in Nat, t \in Nat, n \in Nat :
         /\ s = sent[c] /\ t = taken[c] /\ t < s
         /\ n = Lesser(BUFFER_SIZE, s - t) /\ n > 0 /\ n <= s - t
         /\ n = Len(Visible(c, BUFFER_SIZE))
  <2>1. /\ Stream[c] \in Seq(Nat) /\ taken[c] \in Nat /\ sent[c] \in Nat
        /\ taken[c] <= sent[c] /\ sent[c] <= Len(Stream[c])
    BY StreamFacts DEF Inv
  <2>2. /\ Unread(c) \in Seq(Nat)
        /\ Len(Unread(c)) = IF taken[c] + 1 <= sent[c] THEN sent[c] - (taken[c] + 1) + 1 ELSE 0
    BY <2>1, PartType DEF Unread
  <2>3. Unread(c) # << >>
    BY <1>3 DEF Recv
  <2>4. taken[c] < sent[c] /\ Len(Unread(c)) = sent[c] - taken[c]
    BY <2>1, <2>2, <2>3
  <2>5. PICK n \in Nat : /\ n = Lesser(BUFFER_SIZE, sent[c] - taken[c])
                         /\ n > 0 /\ n <= sent[c] - taken[c]
    BY <2>1, <2>4, Numbers DEF Lesser
  <2>6. Len(Visible(c, BUFFER_SIZE)) = n
    <3>1. Visible(c, BUFFER_SIZE) = SubSeq(Unread(c), 1, n)
      BY <2>5 DEF Visible
    <3> QED
      BY <2>2, <2>4, <2>5, <3>1, PartType
  <2> QED
    BY <2>1, <2>4, <2>5, <2>6, Zenon
<1>5. Consume(c, n)
    BY <1>3, <1>4 DEF Recv
<1>6. KernelInv' /\ UNCHANGED fds
    BY <1>4, <1>5, ConsumeKeeps DEF Inv
<1>7. Table'
    BY <1>1, <1>2, <1>6, TableStays DEF Inv, Table, ServerTypes
<1>8. /\ \A d \in Clients : taken'[d] = IF d = c THEN t + n ELSE taken[d]
      /\ UNCHANGED <<link, sent, away, echoed, got>>
    BY <1>4, <1>5 DEF Consume, Inv, KernelInv, KernelTypeOK
<1>9. ASSUME NEW d \in Clients \ {c} PROVE InStep(d)'
  <2>1. Peer' = c
    BY <1>1, <1>3, <1>6 DEF Peer, table
  <2> QED
    BY <1>1, <1>8, <2>1, Unmoved DEF Inv, Greets, Answers
<1>10. InStep(c)'
  <2>1. SUFFICES ASSUME WholeLines(c), away'[c] = "up" PROVE Conversation(c)'
    BY DEF InStep, WholeLines
  <2>2. Conversation(c)
    BY <1>8, <2>1 DEF Inv, InStep
  <2>3. Answers(c)' /\ link'[c] = "open"
    BY <1>1, <1>2, <1>3, <1>6, <1>8, PeerFacts DEF Answers, Peer, table
  <2>4. turn[c] = "answer" /\ got[c] = s /\ t + 1 = s /\ Len(echoed[c]) = s
    BY <1>1, <1>4, <2>2 DEF Conversation, Answers, Inv, Table, ServerTypes
  <2>5. taken'[c] = s
    BY <1>4, <1>8, <2>4
  <2> QED
    BY <1>1, <1>4, <1>8, <2>3, <2>4, <2>5 DEF Conversation, Greets
<1> QED
    BY <1>6, <1>7, <1>9, <1>10 DEF Inv

\* A client sends when it has its answer, and reads one when there is one.
LEMMA InvClient ==
    ASSUME Inv, NEW c \in Clients, Client(c)
    PROVE  Inv'
<1>1. /\ ClientStep(c) /\ UNCHANGED <<pc, clientSock, peers, peerLen, i>>
      /\ \A d \in Clients \ {c} : turn'[d] = turn[d]
      /\ turn' \in [Clients -> {"welcome", "line", "answer"}]
    BY DEF Client, SendPiece, RecvAnswer, ComesOrGoes, ClientStep, table, Inv, Table, ServerTypes
<1>2. KernelInv' /\ UNCHANGED <<fds, taken>>
    BY <1>1, ClientKeeps DEF Inv
<1>3. Table'
  <2>1. ServerTypes'
    BY <1>1 DEF Inv, Table, ServerTypes
  <2>2. PeersTable' /\ Pending'
    BY <1>1, <1>2 DEF Inv, Table, PeersTable, Pending, OpenFds, FreeSlots
  <2> QED
    BY <2>1, <2>2 DEF Table
<1>4. ASSUME NEW d \in Clients
      PROVE  /\ Greets(d)' <=> Greets(d)
             /\ Answers(d)' <=> Answers(d)
    BY <1>1, <1>2 DEF Greets, Answers, Peer
<1>5. ASSUME NEW d \in Clients \ {c} PROVE InStep(d)'
  <2>1. /\ away'[d] = away[d] /\ sent'[d] = sent[d] /\ got'[d] = got[d]
        /\ echoed'[d] = echoed[d] /\ link'[d] = link[d]
    BY <1>1 DEF ClientStep, Connect, Send, Receive, Finish, Abort, Inv, KernelInv, KernelTypeOK
  <2> QED
    BY <1>1, <1>2, <1>4, <2>1, Unmoved DEF Inv
<1>6. CASE ComesOrGoes(c)
  <2>1. /\ away'[c] = "up" => away[c] = "up"
        /\ link'[c] \in {"none", "queued"} => link[c] \in {"none", "queued"}
        /\ UNCHANGED <<sent, taken, echoed, got, turn>>
    BY <1>6 DEF ComesOrGoes, Connect, Finish, Abort, Inv, KernelInv, KernelTypeOK
  <2>2. InStep(c)'
    BY <1>4, <2>1, Unmoved DEF Inv
  <2> QED
    BY <1>2, <1>3, <1>5, <2>2 DEF Inv
<1>7. CASE RecvAnswer(c)
  <2>1. /\ turn[c] \in {"welcome", "answer"} /\ turn'[c] = "line" /\ link[c] = "open"
        /\ got[c] < Len(echoed[c]) /\ got'[c] = Len(echoed[c])
        /\ UNCHANGED <<link, away, sent, echoed>>
    BY <1>7 DEF RecvAnswer, Receive, Inv, Table, ServerTypes, KernelInv, KernelTypeOK
  <2>2. InStep(c)'
    <3>1. SUFFICES ASSUME WholeLines(c), away[c] = "up" PROVE Conversation(c)'
      BY <2>1 DEF InStep, WholeLines
    <3>2. Conversation(c)
      BY <3>1 DEF Inv, InStep
    <3>3. sent[c] \in Nat /\ got[c] \in Nat /\ Len(echoed[c]) \in Nat
      BY DEF Inv, KernelInv, KernelTypeOK
    <3>4. /\ taken[c] = sent[c] /\ Len(echoed[c]) = 1 + sent[c] /\ ~ Answers(c)
      <4>1. CASE turn[c] = "welcome"
        <5>1. /\ sent[c] = 0 /\ taken[c] = 0 /\ got[c] = 0 /\ ~ Answers(c)
              /\ Len(echoed[c]) \in {0, 1}
          BY <3>2, <4>1 DEF Conversation
        <5>2. Len(echoed[c]) = 1
          BY <2>1, <5>1
        <5> QED
          BY <5>1, <5>2
      <4>2. CASE turn[c] = "answer"
        BY <2>1, <3>2, <3>3, <4>2 DEF Conversation
      <4> QED
        BY <2>1, <4>1, <4>2
    <3>5. ~ Greets(c)
      BY <2>1, <3>2, <3>3 DEF Conversation
    <3> QED
      BY <1>2, <1>4, <2>1, <3>4, <3>5 DEF Conversation
  <2> QED
    BY <1>2, <1>3, <1>5, <2>2 DEF Inv
<1>8. CASE SendPiece(c)
  <2>1. /\ turn[c] = "line" /\ sent'[c] = sent[c] + 1 /\ sent[c] < Len(Stream[c])
        /\ Stream[c][sent'[c]] = NL => turn'[c] = "answer"
        /\ UNCHANGED <<link, away, echoed, got>>
    BY <1>8 DEF SendPiece, Send, Inv, Table, ServerTypes, KernelInv, KernelTypeOK
  <2>2. InStep(c)'
    <3>1. SUFFICES ASSUME WholeLines(c), away[c] = "up" PROVE Conversation(c)'
      BY <2>1 DEF InStep, WholeLines
    <3>2. Conversation(c)
      BY <3>1 DEF Inv, InStep
    <3>3. sent[c] \in Nat /\ Len(Stream[c]) \in Nat
      BY StreamFacts DEF Inv
    <3>4. turn'[c] = "answer"
      <4>1. sent'[c] \in 1 .. Len(Stream[c])
        BY <2>1, <3>3
      <4> QED
        BY <2>1, <3>1, <4>1 DEF WholeLines
    <3>5. /\ taken[c] = sent[c] /\ got[c] = 1 + sent[c] /\ Len(echoed[c]) = got[c]
          /\ ~ Answers(c) /\ ~ Greets(c) /\ link[c] \notin {"none", "queued"}
      BY <2>1, <3>2 DEF Conversation
    <3> QED
      BY <1>2, <1>4, <2>1, <3>3, <3>4, <3>5 DEF Conversation
  <2> QED
    BY <1>2, <1>3, <1>5, <2>2 DEF Inv
<1> QED
    BY <1>6, <1>7, <1>8 DEF Client

----------------------------------------------------------------------------
\* Every step keeps the invariant.
LEMMA InvStep == Inv /\ [Next]_vars => Inv'
<1> SUFFICES ASSUME Inv, [Next]_vars PROVE Inv'
    OBVIOUS
<1>1. CASE Server
    BY <1>1, QuietSteps, InvAccept, InvRefuse, InvGreet, InvRecvError, InvRecvNothing,
       InvRecv, InvAnswer DEF Server
<1>2. CASE \E c \in Clients : Client(c)
    BY <1>2, InvClient
<1>3. CASE UNCHANGED vars
  <2>1. /\ UNCHANGED <<link, backlog, fds, sent, away, taken, echoed, got>>
        /\ UNCHANGED <<pc, clientSock, peers, peerLen, i, turn>>
    BY <1>3 DEF vars, kernel, table
  <2>2. KernelInv'
    BY <2>1 DEF Inv, KernelInv, KernelTypeOK, StreamsInBounds, QueueAgrees, FdsAgree
  <2>3. Table'
    <3>1. ServerTypes'
      BY <2>1 DEF Inv, Table, ServerTypes
    <3>2. PeersTable' /\ Pending'
      BY <2>1 DEF Inv, Table, PeersTable, Pending, OpenFds, FreeSlots
    <3> QED
      BY <3>1, <3>2 DEF Table
  <2>4. ASSUME NEW c \in Clients PROVE InStep(c)'
    BY <2>1, Unmoved DEF Inv, Greets, Answers, Peer
  <2> QED
    BY <2>2, <2>3, <2>4 DEF Inv
<1> QED
    BY <1>1, <1>2, <1>3 DEF Next

LEMMA Invariant == Spec => []Inv
BY InvInit, InvStep, PTL DEF Spec

\* The slots that are taken, when the new connection finds none free, are all.
LEMMA AllSlotsTaken ==
    ASSUME Inv, FreeSlots = {}
    PROVE  Cardinality({peers[s] : s \in Slots}) = TCP_QUEUE_LEN
<1> DEFINE T == {peers[s] : s \in Slots}
           f == [s \in Slots |-> peers[s]]
<1>1. f \in Bijection(Slots, T)
  <2>1. f \in [Slots -> T]
    OBVIOUS
  <2>2. \A r, s \in Slots : f[r] = f[s] => r = s
    BY DEF Inv, Table, PeersTable, FreeSlots
  <2>3. \A t \in T : \E s \in Slots : f[s] = t
    OBVIOUS
  <2> QED
    BY <2>1, <2>2, <2>3 DEF Bijection, Injection, Surjection, IsInjective
<1> QED
    BY <1>1, Numbers, FS_Bijection DEF ExistsBijection

\* `peers` agrees with the connections that are open, whatever comes, fails and
\* goes, and a connection is refused only for want of a slot.
THEOREM PeersCorrect == Spec => []PeersAgree
<1>1. ASSUME Inv PROVE PeersAgree
  <2> DEFINE kept == {peers[s] : s \in {r \in 0 .. peerLen - 1 : peers[r] # 0}}
  <2>1. kept = {peers[s] : s \in {r \in Slots : peers[r] # 0}}
    BY <1>1, Numbers DEF Inv, Table, ServerTypes, PeersTable, Slots
  <2>2. OpenFds = IF pc = "refuse" THEN kept \cup {clientSock} ELSE kept
    <3>1. kept \subseteq OpenFds
      BY <1>1, <2>1 DEF Inv, Table, PeersTable
    <3>2. \A f \in OpenFds : f # 0
      BY Numbers DEF OpenFds
    <3>3. \A f \in OpenFds : f \in kept \/ (pc = "refuse" /\ f = clientSock)
      BY <1>1, <2>1, <3>2 DEF Inv, Table, PeersTable
    <3>4. pc = "refuse" => clientSock \in OpenFds
      BY <1>1 DEF Inv, Table, Pending
    <3> QED
      BY <3>1, <3>3, <3>4
  <2>3. \A r, s \in Slots : peers[r] = peers[s] /\ peers[r] # 0 => r = s
    BY <1>1 DEF Inv, Table, PeersTable
  <2>4. ASSUME pc = "refuse"
        PROVE  Cardinality(kept) = TCP_QUEUE_LEN /\ clientSock \notin kept
    <3>1. kept = {peers[s] : s \in Slots}
      BY <1>1, <2>1, <2>4 DEF Inv, Table, Pending, FreeSlots
    <3> QED
      BY <1>1, <2>4, <3>1, AllSlotsTaken DEF Inv, Table, Pending
  <2> QED
    BY <2>2, <2>3, <2>4 DEF PeersAgree
<1> QED
    BY <1>1, Invariant, PTL

\* A client whose lines TCP does not cut gets one answer for each of them, and
\* has read it before it sends the next.
THEOREM AnswersCorrect == Spec => []AnswersInStep
<1>1. Inv => AnswersInStep
    BY DEF Inv, InStep, Conversation, AnswersInStep
<1> QED
    BY <1>1, Invariant, PTL
=============================================================================
