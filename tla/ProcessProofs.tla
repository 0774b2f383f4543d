---------------------------- MODULE ProcessProofs ----------------------------
(***************************************************************************)
(* Proofs about the programs of threads and processes, for every value of  *)
(* their constants:                                                        *)
(*                                                                         *)
(* ProducerConsumer: for every size of the ring and every number of items, *)
(*   types, mutual exclusion, no access to a full or empty buffer, no lost *)
(*   wakeup, and the refinement of BoundedFifo.                            *)
(*                                                                         *)
(* Counters: no interleaving of the threads makes main end before MAX      *)
(*   steps are counted.  The argument: a step of i is stored only after a  *)
(*   step of number, and each thread in between is one more that number    *)
(*   has and i lacks.                                                      *)
(*                                                                         *)
(* ForkServer: for any clients and lines, wherever TCP cuts the messages,  *)
(*   whoever ends or cannot be forked, the four programs implement         *)
(*   EchoService.  The argument: what a client has read of the echo, what  *)
(*   is on the way to it, what its child holds, what is on the way to that *)
(*   and what the client has still to write are consecutive parts of the   *)
(*   message at hand, or of all that is owed; a whole message is echoed    *)
(*   only when nothing of it is behind or before the child; and where an   *)
(*   overrun puts a byte in, what is before it stays and the rest moves on *)
(*   by one.                                                               *)
(***************************************************************************)
EXTENDS ProducerConsumer, Counters, ForkServer, SequenceTheorems, TLAPS

----------------------------------------------------------------------------
(* The bounded buffer                                                      *)

\* Who signals has just changed the buffer in the peer's favour, and the
\* buffer stays so until the peer, once awake, has used it.
RoomForAccess ==
    /\ pc["producer"] \in {"relock", "access"} \/ pc["consumer"] = "signal"
         => ~ Full
    /\ pc["consumer"] \in {"relock", "access"} \/ pc["producer"] = "signal"
         => ~ Empty

\* The producer puts each item of the stream and no more.
StreamEnds == /\ pc["producer"] = "done" <=> n = Items + 1
              /\ pc["main"] \in {"join", "done"}
              /\ \A t \in Peers : pc[t] \in Places

\* The occupied slots hold the items written and not yet read.
Balance == Occupied = Written - Len(got)
SlotsInOrder == \A k \in 0 .. Occupied - 1 :
                    buffer[SlotAfter(k)] = Item(Len(got) + k)

\* The inductive invariant, in the two halves that are proved apart.
Control == TypeOK /\ LockHeld /\ RoomForAccess /\ StreamEnds /\ NoLostWakeup
Data == Balance /\ SlotsInOrder

----------------------------------------------------------------------------
\* The position after `pos` by wrapping, as Full computes it, is Advance.
LEMMA AdvanceIsMod ==
    \A pos \in Slots : /\ (pos + 1) % BUFFER_SIZE = Advance(pos)
                       /\ Advance(pos) \in Slots
<1> SUFFICES ASSUME NEW pos \in Slots
             PROVE  /\ (pos + 1) % BUFFER_SIZE = Advance(pos)
                    /\ Advance(pos) \in Slots
    OBVIOUS
<1>1. CASE pos + 1 = BUFFER_SIZE
    BY <1>1, SizeAssumption DEF Slots, Advance
<1>2. CASE pos + 1 < BUFFER_SIZE
    BY <1>2, SizeAssumption DEF Slots, Advance
<1> QED
    BY <1>1, <1>2, SizeAssumption DEF Slots

\* One step of a position round the ring tells apart neither more nor less
\* than the position itself.
LEMMA AdvanceInjective ==
    \A p, q \in Slots : Advance(p) = Advance(q) => p = q
BY SizeAssumption DEF Slots, Advance

\* No position follows itself: with two slots or more the ring is never both
\* empty and full.
LEMMA AdvanceMoves == \A p \in Slots : Advance(p) # p
BY SizeAssumption DEF Slots, Advance

\* Full and Empty, with the remainder gone.
LEMMA FullIsAdvance == TypeOK => (Full <=> Advance(writepos) = readpos)
BY AdvanceIsMod DEF TypeOK, Full

----------------------------------------------------------------------------
\* The initial state satisfies the control half of the invariant.
LEMMA ControlInit == Init => Control
<1> SUFFICES ASSUME Init PROVE Control
    OBVIOUS
<1>1. TypeOK
    BY SizeAssumption, ItemsAssumption
    DEF Init, TypeOK, Slots, Peers, Places
<1>2. LockHeld /\ NoLostWakeup
    BY DEF Init, LockHeld, NoLostWakeup, Peers, Holding
<1>3. RoomForAccess
    BY DEF Init, RoomForAccess, Peers
<1>4. StreamEnds
    BY ItemsAssumption DEF Init, StreamEnds, Peers, Places
<1> QED
    BY <1>1, <1>2, <1>3, <1>4 DEF Control

\* Locking, testing, waiting and waking leave the buffer alone.
LEMMA ControlOfLock == \A t \in Peers : Control /\ Lock(t) => Control'
<1> SUFFICES ASSUME NEW t \in Peers, Control, Lock(t) PROVE Control'
    OBVIOUS
<1>1. TypeOK'
    BY DEF Control, TypeOK, Lock, Goto, Peers, Places, Slots
<1>2. LockHeld' /\ NoLostWakeup'
    BY DEF Control, TypeOK, LockHeld, NoLostWakeup, Lock, Goto, Peers, Peer,
           Holding, MustWait, Full, Empty
<1>3. RoomForAccess'
    BY DEF Control, TypeOK, RoomForAccess, Lock, Goto, Peers, Full, Empty
<1>4. StreamEnds'
    BY DEF Control, TypeOK, StreamEnds, Lock, Goto, Peers, Places
<1> QED
    BY <1>1, <1>2, <1>3, <1>4 DEF Control

LEMMA ControlOfWait == \A t \in Peers : Control /\ Wait(t) => Control'
<1> SUFFICES ASSUME NEW t \in Peers, Control, Wait(t) PROVE Control'
    OBVIOUS
<1>1. TypeOK'
    BY DEF Control, TypeOK, Wait, Goto, Peers, Places, Slots
<1>2. LockHeld' /\ NoLostWakeup'
    BY DEF Control, TypeOK, LockHeld, NoLostWakeup, Wait, Goto, Peers, Peer,
           Holding, MustWait, Full, Empty
<1>3. RoomForAccess'
    BY DEF Control, TypeOK, RoomForAccess, Wait, Goto, Peers, Full, Empty
<1>4. StreamEnds'
    BY DEF Control, TypeOK, StreamEnds, Wait, Goto, Peers, Places
<1> QED
    BY <1>1, <1>2, <1>3, <1>4 DEF Control

LEMMA ControlOfGoOn == \A t \in Peers : Control /\ GoOn(t) => Control'
<1> SUFFICES ASSUME NEW t \in Peers, Control, GoOn(t) PROVE Control'
    OBVIOUS
<1>1. TypeOK'
    BY DEF Control, TypeOK, GoOn, Goto, Peers, Places, Slots
<1>2. LockHeld' /\ NoLostWakeup'
    BY DEF Control, TypeOK, LockHeld, NoLostWakeup, GoOn, Goto, Peers, Peer,
           Holding, MustWait, Full, Empty
<1>3. RoomForAccess'
    BY DEF Control, TypeOK, RoomForAccess, GoOn, Goto, Peers, MustWait, Full,
           Empty
<1>4. StreamEnds'
    BY DEF Control, TypeOK, StreamEnds, GoOn, Goto, Peers, Places
<1> QED
    BY <1>1, <1>2, <1>3, <1>4 DEF Control

LEMMA ControlOfRelock == \A t \in Peers : Control /\ Relock(t) => Control'
<1> SUFFICES ASSUME NEW t \in Peers, Control, Relock(t) PROVE Control'
    OBVIOUS
<1>1. TypeOK'
    BY DEF Control, TypeOK, Relock, Goto, Peers, Places, Slots
<1>2. LockHeld' /\ NoLostWakeup'
    BY DEF Control, TypeOK, LockHeld, NoLostWakeup, Relock, Goto, Peers, Peer,
           Holding, MustWait, Full, Empty
<1>3. RoomForAccess'
    BY DEF Control, TypeOK, RoomForAccess, Relock, Goto, Peers, Full, Empty
<1>4. StreamEnds'
    BY DEF Control, TypeOK, StreamEnds, Relock, Goto, Peers, Places
<1> QED
    BY <1>1, <1>2, <1>3, <1>4 DEF Control

\* A signal wakes a peer that finds the buffer as the signaller left it.
LEMMA ControlOfSignal == \A t \in Peers : Control /\ Signal(t) => Control'
<1> SUFFICES ASSUME NEW t \in Peers, Control, Signal(t) PROVE Control'
    OBVIOUS
<1>1. TypeOK'
    BY DEF Control, TypeOK, Signal, Peer, Peers, Places, Slots
<1>2. LockHeld' /\ NoLostWakeup'
    BY DEF Control, TypeOK, LockHeld, NoLostWakeup, Signal, Peers, Peer,
           Holding, MustWait, Full, Empty
<1>3. RoomForAccess'
    BY DEF Control, TypeOK, RoomForAccess, Signal, Peers, Peer, Full, Empty
<1>4. StreamEnds'
    BY DEF Control, TypeOK, StreamEnds, Signal, Peers, Peer, Places
<1> QED
    BY <1>1, <1>2, <1>3, <1>4 DEF Control

----------------------------------------------------------------------------
\* A write makes the buffer non-empty and may make it full, which only a
\* consumer that is neither waking nor signalling can see.
LEMMA ControlOfWrite == Control /\ Write => Control'
<1> SUFFICES ASSUME Control, Write PROVE Control'
    OBVIOUS
<1>1. TypeOK'
    BY AdvanceIsMod, ItemsAssumption
    DEF Control, TypeOK, Write, Goto, Peers, Places, Item, OVER
<1>2. LockHeld'
    BY DEF Control, TypeOK, LockHeld, Write, Goto, Peers, Holding
<1>3. pc["consumer"] # "signal"
    BY DEF Control, LockHeld, Write, Peers, Holding
<1>4. ~ Empty'
    BY AdvanceIsMod, <1>1
    DEF Control, TypeOK, RoomForAccess, Write, Full, Empty
<1>5. RoomForAccess'
    BY <1>3, <1>4 DEF Control, TypeOK, RoomForAccess, Write, Goto, Peers
<1>6. NoLostWakeup'
    BY DEF Control, TypeOK, NoLostWakeup, Write, Goto, Peers, Peer, MustWait
<1>7. StreamEnds'
    BY DEF Control, TypeOK, StreamEnds, Write, Goto, Peers, Places
<1> QED
    BY <1>1, <1>2, <1>5, <1>6, <1>7 DEF Control

LEMMA ControlOfRead == Control /\ Read => Control'
<1> SUFFICES ASSUME Control, Read PROVE Control'
    OBVIOUS
<1>1. TypeOK'
    BY AdvanceIsMod DEF Control, TypeOK, Read, Goto, Peers, Places
<1>2. LockHeld'
    BY DEF Control, TypeOK, LockHeld, Read, Goto, Peers, Holding
<1>3. pc["producer"] # "signal"
    BY DEF Control, LockHeld, Read, Peers, Holding
<1>4. ~ Full'
    BY AdvanceIsMod, AdvanceInjective, <1>1
    DEF Control, TypeOK, RoomForAccess, Read, Full, Empty
<1>5. RoomForAccess'
    BY <1>3, <1>4 DEF Control, TypeOK, RoomForAccess, Read, Goto, Peers
<1>6. NoLostWakeup'
    BY DEF Control, TypeOK, NoLostWakeup, Read, Goto, Peers, Peer, MustWait
<1>7. StreamEnds'
    BY DEF Control, TypeOK, StreamEnds, Read, Goto, Peers, Places
<1> QED
    BY <1>1, <1>2, <1>5, <1>6, <1>7 DEF Control

LEMMA ControlOfReturns == Control /\ (PutReturns \/ GetReturns) => Control'
<1>1. ASSUME Control, PutReturns PROVE Control'
  <2>1. TypeOK'
    BY <1>1, ItemsAssumption
    DEF Control, TypeOK, StreamEnds, PutReturns, Goto, Peers, Places
  <2>2. LockHeld' /\ NoLostWakeup'
    BY <1>1 DEF Control, TypeOK, LockHeld, NoLostWakeup, PutReturns, Goto, Peers,
           Peer, Holding, MustWait, Full, Empty
  <2>3. RoomForAccess'
    BY <1>1 DEF Control, TypeOK, RoomForAccess, PutReturns, Goto, Peers, Full, Empty
  <2>4. StreamEnds'
    BY <1>1, ItemsAssumption
    DEF Control, TypeOK, StreamEnds, PutReturns, Goto, Peers, Places
  <2> QED
    BY <2>1, <2>2, <2>3, <2>4 DEF Control
<1>2. ASSUME Control, GetReturns PROVE Control'
  <2>1. TypeOK'
    BY <1>2 DEF Control, TypeOK, GetReturns, Goto, Peers, Places
  <2>2. LockHeld' /\ NoLostWakeup'
    BY <1>2 DEF Control, TypeOK, LockHeld, NoLostWakeup, GetReturns, Goto, Peers,
           Peer, Holding, MustWait, Full, Empty
  <2>3. RoomForAccess'
    BY <1>2 DEF Control, TypeOK, RoomForAccess, GetReturns, Goto, Peers, Full, Empty
  <2>4. StreamEnds'
    BY <1>2 DEF Control, TypeOK, StreamEnds, GetReturns, Goto, Peers, Places
  <2> QED
    BY <2>1, <2>2, <2>3, <2>4 DEF Control
<1> QED
    BY <1>1, <1>2

LEMMA ControlOfJoin == Control /\ Join => Control'
BY DEF Control, TypeOK, LockHeld, RoomForAccess, StreamEnds, NoLostWakeup, Join,
       Goto, Peers, Peer, Places, Holding, MustWait, Full, Empty

LEMMA ControlOfStutter == Control /\ UNCHANGED vars => Control'
BY DEF vars, Control, TypeOK, LockHeld, RoomForAccess, StreamEnds, NoLostWakeup,
       Peers, MustWait, Full, Empty

LEMMA ControlStep == Control /\ [Next]_vars => Control'
BY ControlOfLock, ControlOfWait, ControlOfGoOn, ControlOfRelock, ControlOfSignal,
   ControlOfWrite, ControlOfRead, ControlOfReturns, ControlOfJoin, ControlOfStutter
DEF Next, Producer, Consumer, Peers

----------------------------------------------------------------------------
\* In every reachable state of the two threads the variables have their
\* types, the owner of the mutex is the thread between lock and unlock, and
\* every wakeup that a waiting thread needs is still to come.
THEOREM ControlInvariant == SafeSpec => []Control
<1>1. Init => Control
    BY ControlInit
<1>2. Control /\ [Next]_vars => Control'
    BY ControlStep
<1> QED
    BY <1>1, <1>2, PTL DEF SafeSpec

THEOREM TypeCorrect == SafeSpec => []TypeOK
<1>1. Control => TypeOK
    BY DEF Control
<1> QED
    BY <1>1, ControlInvariant, PTL

THEOREM MutualExclusion == SafeSpec => []LockHeld
<1>1. Control => LockHeld
    BY DEF Control
<1> QED
    BY <1>1, ControlInvariant, PTL

\* put never writes into a full buffer and get never reads an empty one.
THEOREM NoOverrun == SafeSpec => []AccessAllowed
<1>1. Control => AccessAllowed
    BY DEF Control, RoomForAccess, AccessAllowed
<1> QED
    BY <1>1, ControlInvariant, PTL

THEOREM WakeupsKept == SafeSpec => []NoLostWakeup
<1>1. Control => NoLostWakeup
    BY DEF Control
<1> QED
    BY <1>1, ControlInvariant, PTL

----------------------------------------------------------------------------
(* The contents of the ring                                                *)

\* How many slots are occupied, and that full means all but one.
LEMMA OccupiedRange ==
    TypeOK => /\ Occupied \in 0 .. BUFFER_SIZE - 1
              /\ Occupied = 0 <=> Empty
              /\ Occupied = BUFFER_SIZE - 1 <=> Full
<1> SUFFICES ASSUME TypeOK
             PROVE  /\ Occupied \in 0 .. BUFFER_SIZE - 1
                    /\ Occupied = 0 <=> Empty
                    /\ Occupied = BUFFER_SIZE - 1 <=> Full
    OBVIOUS
<1>1. Full <=> Advance(writepos) = readpos
    BY FullIsAdvance
<1> QED
    BY <1>1, SizeAssumption DEF TypeOK, Slots, Occupied, Empty, Advance

\* A write into a ring with room occupies one more slot, the one at writepos;
\* the slots that were occupied stay where they were.
LEMMA WriteOccupies ==
    ASSUME Control, Write
    PROVE  /\ Occupied < BUFFER_SIZE - 1
           /\ Occupied' = Occupied + 1
           /\ SlotAfter(Occupied) = writepos
           /\ \A k \in 0 .. Occupied : SlotAfter(k)' = SlotAfter(k)
           /\ \A k \in 0 .. Occupied - 1 : /\ SlotAfter(k) \in Slots
                                           /\ SlotAfter(k) # writepos
<1>1. ~ Full /\ Occupied \in 0 .. BUFFER_SIZE - 2
    BY OccupiedRange, SizeAssumption DEF Control, RoomForAccess, Write
<1>2. /\ readpos \in Slots /\ writepos \in Slots
      /\ readpos' = readpos /\ writepos' = Advance(writepos)
      /\ Advance(writepos) # readpos
    BY <1>1, FullIsAdvance DEF Control, TypeOK, Write
<1>3. Occupied' = Occupied + 1
    BY <1>2, SizeAssumption DEF Occupied, Advance, Slots
<1>4. SlotAfter(Occupied) = writepos
    BY <1>2, SizeAssumption DEF Occupied, SlotAfter, Slots
<1>5. \A k \in 0 .. Occupied : SlotAfter(k)' = SlotAfter(k)
    BY <1>2 DEF SlotAfter
<1>6. \A k \in 0 .. Occupied - 1 : SlotAfter(k) \in Slots /\ SlotAfter(k) # writepos
    BY <1>2, SizeAssumption DEF Occupied, SlotAfter, Slots
<1> QED
    BY <1>1, <1>3, <1>4, <1>5, <1>6, SizeAssumption

\* A read frees the slot at readpos; each other slot moves one place up.
LEMMA ReadFrees ==
    ASSUME Control, Read
    PROVE  /\ Occupied > 0
           /\ Occupied' = Occupied - 1
           /\ SlotAfter(0) = readpos
           /\ \A k \in 0 .. Occupied - 2 : SlotAfter(k)' = SlotAfter(k + 1)
<1>1. ~ Empty /\ Occupied \in 1 .. BUFFER_SIZE - 1
    BY OccupiedRange, SizeAssumption DEF Control, RoomForAccess, Read
<1>2. /\ readpos \in Slots /\ writepos \in Slots
      /\ writepos' = writepos /\ readpos' = Advance(readpos)
      /\ readpos # writepos
    BY <1>1 DEF Control, TypeOK, Read, Empty
<1>3. Occupied' = Occupied - 1
    BY <1>2, SizeAssumption DEF Occupied, Advance, Slots
<1>4. SlotAfter(0) = readpos
    BY <1>2, SizeAssumption DEF SlotAfter, Slots
<1>5. \A k \in 0 .. Occupied - 2 : SlotAfter(k)' = SlotAfter(k + 1)
    BY <1>2, SizeAssumption DEF Occupied, SlotAfter, Advance, Slots
<1> QED
    BY <1>1, <1>3, <1>4, <1>5

LEMMA DataInit == Init => Data
BY SizeAssumption, ItemsAssumption
DEF Init, Data, Balance, SlotsInOrder, Occupied, Written, Slots, Peers

LEMMA DataOfWrite == Control /\ Data /\ Write => Data'
<1> SUFFICES ASSUME Control, Data, Write PROVE Data'
    OBVIOUS
<1>1. /\ got' = got /\ n' = n /\ Len(got) \in Nat /\ n \in Nat
      /\ buffer \in [Slots -> Int] /\ writepos \in Slots
      /\ buffer' = [buffer EXCEPT ![writepos] = Item(n)]
      /\ Written = n /\ Written' = n + 1
    BY ItemsAssumption DEF Control, TypeOK, Write, Written, Goto, Peers
<1>2. Occupied \in Nat /\ Len(got) + Occupied = n
    BY <1>1, OccupiedRange, SizeAssumption DEF Control, Data, Balance
<1>3. Balance'
    BY <1>1, <1>2, WriteOccupies DEF Balance
<1>4. ASSUME NEW k \in 0 .. Occupied
      PROVE  buffer'[SlotAfter(k)'] = Item(Len(got) + k)
  <2>1. CASE k = Occupied
    BY <2>1, <1>1, <1>2, WriteOccupies
  <2>2. CASE k \in 0 .. Occupied - 1
    <3>1. SlotAfter(k)' = SlotAfter(k) /\ SlotAfter(k) \in Slots
          /\ SlotAfter(k) # writepos
        BY <2>2, WriteOccupies
    <3> QED
        BY <3>1, <2>2, <1>1 DEF Data, SlotsInOrder
  <2> QED
    BY <1>2, <2>1, <2>2
<1>5. ASSUME NEW k \in 0 .. Occupied' - 1
      PROVE  buffer'[SlotAfter(k)'] = Item(Len(got') + k)
  <2>1. k \in 0 .. Occupied
    BY <1>2, WriteOccupies
  <2> QED
    BY <2>1, <1>1, <1>4
<1>6. SlotsInOrder'
    BY <1>5 DEF SlotsInOrder, SlotAfter
<1> QED
    BY <1>3, <1>6 DEF Data

LEMMA DataOfRead == Control /\ Data /\ Read => Data'
<1> SUFFICES ASSUME Control, Data, Read PROVE Data'
    OBVIOUS
<1>1. /\ got \in Seq(Int) /\ buffer \in [Slots -> Int] /\ readpos \in Slots
      /\ got' = Append(got, buffer[readpos]) /\ Len(got') = Len(got) + 1
      /\ Len(got) \in Nat /\ buffer' = buffer
      /\ Written' = Written /\ Written \in Nat
    BY ItemsAssumption DEF Control, TypeOK, Read, Written, Goto, Peers
<1>2. Occupied \in Nat
    BY OccupiedRange, SizeAssumption DEF Control
<1>3. Balance'
    BY <1>1, <1>2, ReadFrees DEF Data, Balance
<1>4. ASSUME NEW k \in 0 .. Occupied' - 1
      PROVE  buffer'[SlotAfter(k)'] = Item(Len(got') + k)
  <2>1. k \in 0 .. Occupied - 2 /\ k + 1 \in 0 .. Occupied - 1
    BY <1>2, ReadFrees
  <2>2. SlotAfter(k)' = SlotAfter(k + 1)
    BY <2>1, ReadFrees
  <2>3. buffer[SlotAfter(k + 1)] = Item(Len(got) + (k + 1))
    BY <2>1 DEF Data, SlotsInOrder
  <2> QED
    BY <1>1, <2>1, <2>2, <2>3 DEF Item
<1>5. SlotsInOrder'
    BY <1>4 DEF SlotsInOrder, SlotAfter
<1> QED
    BY <1>3, <1>5 DEF Data

\* No other step writes the buffer, its positions or the history; a put that
\* returns counts an item that was already written.
LEMMA OthersKeepContents ==
    ASSUME Control, [Next]_vars, ~ Write, ~ Read
    PROVE  /\ UNCHANGED <<buffer, readpos, writepos, got>>
           /\ Written' = Written
<1>1. UNCHANGED <<buffer, readpos, writepos, got>>
    BY DEF Next, Producer, Consumer, Lock, Wait, GoOn, Relock, Signal, PutReturns,
           GetReturns, Join, vars
<1>2. Written' = Written
  <2>1. pc \in [Peers \cup {"main"} -> Places \cup {"join"}]
    BY DEF Control, TypeOK
  <2>2. CASE PutReturns
    BY <2>1, <2>2 DEF PutReturns, Written, Goto, Peers
  <2>3. CASE \E t \in Peers : Lock(t) \/ Wait(t) \/ GoOn(t) \/ Relock(t) \/ Signal(t)
    BY <2>1, <2>3 DEF Lock, Wait, GoOn, Relock, Signal, Written, Goto, Peers, Peer
  <2>4. CASE GetReturns \/ Join \/ UNCHANGED vars
    BY <2>1, <2>4 DEF GetReturns, Join, Written, Goto, Peers, vars
  <2> QED
    BY <2>2, <2>3, <2>4 DEF Next, Producer, Consumer, Peers
<1> QED
    BY <1>1, <1>2

LEMMA DataStep == Control /\ Data /\ [Next]_vars => Data'
<1> SUFFICES ASSUME Control, Data, [Next]_vars, ~ Write, ~ Read PROVE Data'
    BY DataOfWrite, DataOfRead
<1> QED
    BY OthersKeepContents
    DEF Data, Balance, SlotsInOrder, Occupied, SlotAfter, Item

THEOREM DataInvariant == SafeSpec => []Data
<1>1. Init => Data
    BY DataInit
<1>2. Control /\ Data /\ [Next]_vars => Data'
    BY DataStep
<1> QED
    BY <1>1, <1>2, ControlInvariant, PTL DEF SafeSpec

----------------------------------------------------------------------------
(* Refinement: Write is the queue's Put, Read is its Get, and every other  *)
(* step is a stutter of the queue.                                         *)

LEMMA InitRefines == Init => Fifo!Init
BY DEF Init, Fifo!Init, Contents, Occupied, Written, Peers

LEMMA WriteIsPut == Control /\ Data /\ Write => Fifo!Put
<1> SUFFICES ASSUME Control, Data, Write PROVE Fifo!Put
    OBVIOUS
<1>1. /\ n \in 0 .. Items /\ got' = got /\ writepos \in Slots
      /\ Written = n /\ Written' = n + 1
      /\ buffer \in [Slots -> Int]
      /\ buffer' = [buffer EXCEPT ![writepos] = Item(n)]
    BY ItemsAssumption
    DEF Control, TypeOK, StreamEnds, Write, Written, Goto, Peers
<1>2. Occupied \in Nat /\ Occupied < BUFFER_SIZE - 1 /\ Occupied' = Occupied + 1
    BY WriteOccupies, OccupiedRange, SizeAssumption DEF Control
<1>3. Len(Contents) = Occupied
    BY <1>2 DEF Contents
<1>4. Contents' = Append(Contents, Item(n))
  <2>1. Contents \in Seq(Int)
    <3>1. \A k \in 1 .. Occupied : buffer[SlotAfter(k - 1)] \in Int
        BY <1>1, <1>2, WriteOccupies
    <3> QED
        BY <3>1, <1>2 DEF Contents
  <2>2. \A k \in 1 .. Occupied : Contents'[k] = Contents[k]
    <3> SUFFICES ASSUME NEW k \in 1 .. Occupied PROVE Contents'[k] = Contents[k]
        OBVIOUS
    <3>1. k - 1 \in 0 .. Occupied - 1 /\ k - 1 \in 0 .. Occupied /\ k \in 1 .. Occupied'
        BY <1>2
    <3>2. SlotAfter(k - 1)' = SlotAfter(k - 1) /\ SlotAfter(k - 1) \in Slots
          /\ SlotAfter(k - 1) # writepos
        BY <3>1, WriteOccupies
    <3> QED
        BY <1>1, <3>1, <3>2 DEF Contents
  <2>3. Contents'[Occupied + 1] = Item(n)
    <3>1. PICK k \in 0 .. Occupied : k = Occupied
        BY <1>2
    <3>2. SlotAfter(k)' = writepos
        BY <3>1, WriteOccupies
    <3>3. (k + 1) - 1 = k /\ k + 1 \in 1 .. Occupied'
        BY <3>1, <1>2
    <3>4. Contents'[k + 1] = buffer'[SlotAfter(k)']
        BY <3>3 DEF Contents
    <3> QED
        BY <1>1, <3>1, <3>2, <3>4
  <2>4. Contents' = [k \in 1 .. Occupied + 1 |-> Contents'[k]]
    BY <1>2 DEF Contents
  <2> QED
    BY <1>2, <1>3, <2>1, <2>2, <2>3, <2>4
<1> QED
    BY <1>1, <1>2, <1>3, <1>4 DEF Fifo!Put

LEMMA ReadIsGet == Control /\ Data /\ Read => Fifo!Get
<1> SUFFICES ASSUME Control, Data, Read PROVE Fifo!Get
    OBVIOUS
<1>1. /\ got' = Append(got, buffer[readpos]) /\ buffer' = buffer
      /\ buffer \in [Slots -> Int] /\ readpos \in Slots
      /\ Written' = Written
    BY DEF Control, TypeOK, Read, Written, Goto, Peers
<1>2. Occupied \in Nat /\ Occupied > 0 /\ Occupied' = Occupied - 1
    BY ReadFrees, OccupiedRange, SizeAssumption DEF Control
<1>3. Contents # << >> /\ Len(Contents) = Occupied
    BY <1>2 DEF Contents
<1>4. Head(Contents) = buffer[readpos]
    BY <1>2, ReadFrees DEF Contents
<1>5. Contents' = Tail(Contents)
  <2>1. \A k \in 1 .. Occupied - 1 : Contents'[k] = Contents[k + 1]
    <3> SUFFICES ASSUME NEW k \in 1 .. Occupied - 1 PROVE Contents'[k] = Contents[k + 1]
        OBVIOUS
    <3>1. k - 1 \in 0 .. Occupied - 2 /\ k \in 1 .. Occupied' /\ k + 1 \in 1 .. Occupied
        BY <1>2
    <3>2. SlotAfter(k - 1)' = SlotAfter((k + 1) - 1)
        BY <3>1, ReadFrees
    <3> QED
        BY <1>1, <3>1, <3>2 DEF Contents
  <2>2. Contents' = [k \in 1 .. Occupied - 1 |-> Contents'[k]]
    BY <1>2 DEF Contents
  <2>3. Tail(Contents) = [k \in 1 .. Occupied - 1 |-> Contents[k + 1]]
    BY <1>2, <1>3 DEF Contents
  <2> QED
    BY <2>1, <2>2, <2>3
<1> QED
    BY <1>1, <1>3, <1>4, <1>5 DEF Fifo!Get

\* The ring buffer with its mutex and its condition variables implements the
\* bounded first-in first-out queue, whatever its size and the stream's length.
THEOREM RingRefinesFifo == SafeSpec => ImplementsFifo
<1>1. Init => Fifo!Init
    BY InitRefines
<1>2. Control /\ Data /\ [Next]_vars => [Fifo!Next]_(Fifo!vars)
  <2> SUFFICES ASSUME Control, Data, [Next]_vars, ~ Write, ~ Read
               PROVE  UNCHANGED Fifo!vars
    BY WriteIsPut, ReadIsGet DEF Fifo!Next
  <2> QED
    BY OthersKeepContents DEF Fifo!vars, Contents, Occupied, SlotAfter
<1> QED
    BY <1>1, <1>2, ControlInvariant, DataInvariant, PTL
    DEF SafeSpec, ImplementsFifo, Fifo!Spec

----------------------------------------------------------------------------
(* The counting threads                                                    *)

ThreadPlaces == {"none", "init", "test", "lock", "load", "store", "unlock",
                 "loadi", "storei", "ended"}

CountersTypes == /\ mainpc \in {"create", "join", "end"}
                 /\ created \in SUBSET Threads
                 /\ next \in Threads
                 /\ at \in [Threads -> ThreadPlaces]
                 /\ i \in Nat /\ number \in Nat
                 /\ mut \in Threads \union {Unlocked}
                 /\ reg \in [Threads -> Nat]

\* main knows whom it has created, and whom it has joined.
MainAgrees == /\ \A t \in Threads : t \in created <=> at[t] # "none"
              /\ mainpc = "create" /\ next = 1 => at[1] = "none"
              /\ mainpc = "create" => at[2] = "none"
              /\ mainpc = "join" /\ next = 2 => Joined(1)
              /\ mainpc = "end" => Joined(1) /\ Joined(2)

\* The mutex makes a step of number whole.
InLock(t) == at[t] \in {"load", "store", "unlock"}
Exclusive == \A t \in Threads : /\ InLock(t) => mut = t
                                /\ at[t] = "store" => reg[t] = number

\* A thread that has stepped number, and not yet stored a step of i.
Ahead(t) == IF at[t] \in {"unlock", "loadi", "storei"} THEN 1 ELSE 0

Behind == /\ i + Ahead(1) + Ahead(2) <= number
          /\ \A t \in Threads :
                /\ at[t] = "storei" => reg[t] + Ahead(1) + Ahead(2) <= number
                /\ at[t] = "ended" => number >= MAX

CountersInv == CountersTypes /\ MainAgrees /\ Exclusive /\ Behind

----------------------------------------------------------------------------
\* At the start: nothing is counted and nobody runs.
LEMMA CountersInitially == CountersInit => CountersInv
  BY CountersAssumption
     DEF CountersInit, CountersInv, CountersTypes, MainAgrees, Exclusive, Behind,
         InLock, Ahead, Joined, Threads, ThreadPlaces

\* main's steps: pthread_create, its failure, and pthread_join.
LEMMA MainSteps ==
    ASSUME CountersInv, Create \/ CreateFails \/ JoinThreads
    PROVE  CountersInv'
<1> USE CountersAssumption
    DEF CountersInv, CountersTypes, MainAgrees, Exclusive, Behind, InLock, Ahead,
        Joined, Threads, ThreadPlaces, Onwards, Go
<1>1. CASE Create
  BY <1>1 DEF Create
<1>2. CASE CreateFails
  BY <1>2 DEF CreateFails
<1>3. CASE JoinThreads
  BY <1>3 DEF JoinThreads
<1>4. QED
  BY <1>1, <1>2, <1>3

\* A thread's steps, each load and each store one.
LEMMA ThreadSteps ==
    ASSUME CountersInv, NEW t \in Threads, Counts(t)
    PROVE  CountersInv'
<1> USE CountersAssumption
    DEF CountersInv, CountersTypes, MainAgrees, Exclusive, Behind, InLock, Ahead,
        Joined, Threads, ThreadPlaces, Go, Counts, mainVars
<1>1. CASE SetI(t)
  BY <1>1 DEF SetI
<1>2. CASE TestI(t)
  BY <1>2 DEF TestI
<1>3. CASE LockNumber(t)
  BY <1>3 DEF LockNumber, Free
<1>4. CASE LoadNumber(t)
  BY <1>4 DEF LoadNumber
<1>5. CASE StoreNumber(t)
  BY <1>5 DEF StoreNumber
<1>6. CASE Unlock(t)
  BY <1>6 DEF Unlock
<1>7. CASE LoadI(t)
  BY <1>7 DEF LoadI
<1>8. CASE StoreI(t)
  BY <1>8 DEF StoreI
<1>9. QED
  BY <1>1, <1>2, <1>3, <1>4, <1>5, <1>6, <1>7, <1>8

\* What main may rely on when it ends: the work of thread1 and thread2 is not
\* done short, whatever they do to each other's loop counter.
THEOREM CountedInFull == CountersSpec => []AllCounted
<1>1. CountersInit => CountersInv
  BY CountersInitially
<1>2. CountersInv /\ [CountersNext]_counters => CountersInv'
  <2> SUFFICES ASSUME CountersInv, [CountersNext]_counters
               PROVE  CountersInv'
    OBVIOUS
  <2>1. CASE Create \/ CreateFails \/ JoinThreads
    BY <2>1, MainSteps
  <2>2. CASE \E t \in Threads : Counts(t)
    BY <2>2, ThreadSteps
  <2>3. CASE UNCHANGED counters
    BY <2>3 DEF counters, mainVars, CountersInv, CountersTypes, MainAgrees,
                Exclusive, Behind, InLock, Ahead, Joined
  <2>4. QED
    BY <2>1, <2>2, <2>3 DEF CountersNext
<1>3. CountersInv => AllCounted
  BY DEF CountersInv, CountersTypes, MainAgrees, Behind, Joined, AllCounted, Threads
<1>4. QED
  BY <1>1, <1>2, <1>3, PTL DEF CountersSpec

----------------------------------------------------------------------------
(* The forking servers                                                     *)

ForkTypes ==
    /\ program \in Programs
    /\ ppc \in {"accept", "fork", "close", "dead"}
    /\ conn \in Clients \cup {None}
    /\ backlog \in Seq(Clients)
    /\ child \in [Clients -> {"none", "start", "read", "echo", "done"}]
    /\ client \in [Clients -> {"none", "type", "write", "read", "ended"}]
    /\ typed \in [Clients -> Nat]
    /\ recvbuf \in [Clients -> Seq(Nat)] /\ sendrecvbuf \in [Clients -> Seq(Nat)]
    /\ owed \in [Clients -> Seq(Nat)] /\ output \in [Clients -> Seq(Nat)]
    /\ toServer \in [Clients -> Seq(Nat)] /\ toClient \in [Clients -> Seq(Nat)]

\* A connection is in one place until it has a child, and gets one child.
OneChild ==
    /\ ppc = "fork" => conn # None /\ child[conn] = "none"
    /\ conn # None => client[conn] # "none"
    /\ \A k \in 1 .. Len(backlog) : /\ backlog[k] # conn
                                    /\ client[backlog[k]] # "none"
                                    /\ child[backlog[k]] = "none"
    /\ \A j, k \in 1 .. Len(backlog) : backlog[j] = backlog[k] => j = k
    /\ \A c \in Clients : /\ client[c] = "none" => child[c] = "none"
                          /\ child[c] = "done" => client[c] = "ended"

Whole == ~ Plain
Busy(c) == client[c] \in {"write", "read"}

\* What c has read of the echo, and what it has left to write.
Back(c) == IF client[c] = "read" THEN sendrecvbuf[c] ELSE << >>
Rest(c) == IF client[c] = "write" THEN sendrecvbuf[c] ELSE << >>

\* The bytes that are on their way through c's connection: the message of the
\* line at hand, or all that was typed and not yet printed.
Stream(c) == IF ~ Whole THEN owed[c]
             ELSE IF Busy(c) THEN Message(Lines[c][typed[c]]) ELSE << >>
Start(c) == IF Whole THEN 0 ELSE Len(output[c])

\* The bytes lie in s behind the first p.
Lies(bytes, s, p) == /\ p + Len(bytes) <= Len(s)
                     /\ \A k \in 1 .. Len(bytes) : bytes[k] = s[p + k]

\* What was read, what is on the way and what the child has follow each other
\* in the stream, behind its first p bytes,
Chain(s, p, back, down, held, up) ==
    /\ s \in Seq(Nat) /\ p \in Nat /\ back \in Seq(Nat) /\ down \in Seq(Nat)
    /\ held \in Seq(Nat) /\ up \in Seq(Nat)
    /\ Lies(back, s, p)
    /\ Lies(down, s, p + Len(back))
    /\ Lies(held, s, (p + Len(back)) + Len(down))
    /\ Lies(up, s, ((p + Len(back)) + Len(down)) + Len(held))

Reach(p, back, down, held, up) ==
    (((p + Len(back)) + Len(down)) + Len(held)) + Len(up)

\* and then comes what is still to be written, up to the stream's end.
Finish(s, q, rest) == /\ rest \in Seq(Nat)
                      /\ Lies(rest, s, q) /\ q + Len(rest) = Len(s)

\* Only a plain write into a connection that is closed loses bytes.
OnTheWay(c) ==
    /\ Chain(Stream(c), Start(c), Back(c), toClient[c], recvbuf[c], toServer[c])
    /\ Whole \/ ~ Closed(c) =>
          Finish(Stream(c), Reach(Start(c), Back(c), toClient[c], recvbuf[c], toServer[c]),
                 Rest(c))

\* A whole message is echoed when it has arrived whole.
InTurn(c) ==
    /\ Back(c) # << >> \/ toClient[c] # << >> =>
           /\ toServer[c] = << >> /\ Rest(c) = << >>
           /\ child[c] # "echo" => recvbuf[c] = << >>
    /\ child[c] = "echo" => toServer[c] = << >> /\ Rest(c) = << >>

Buffers(c) == /\ child[c] = "echo" => recvbuf[c] # << >>
              /\ client[c] = "write" => sendrecvbuf[c] # << >>
              /\ client[c] \in {"none", "type"} => sendrecvbuf[c] = << >>
              /\ client[c] = "read" /\ ~ Whole => sendrecvbuf[c] = << >>

Words(c) ==
    /\ Whole /\ Busy(c) => /\ typed[c] \in 1 .. Len(Lines[c])
                           /\ owed[c] = output[c] \o Lines[c][typed[c]]
    /\ Whole /\ ~ Busy(c) => output[c] = owed[c]
    /\ ~ Whole => Lies(output[c], owed[c], 0)
    /\ client[c] = "none" => owed[c] = << >>

Faithful(c) == client[c] # "ended" =>
                   /\ Words(c) /\ Buffers(c) /\ OnTheWay(c)
                   /\ Whole => InTurn(c)

ForkInv == ForkTypes /\ OneChild /\ \A c \in Clients : Faithful(c)

----------------------------------------------------------------------------
(* Bytes that lie in a stream                                              *)

\* A sequence of bytes in two parts.
LEMMA CutInTwo ==
    ASSUME NEW b \in Seq(Nat), NEW k \in 0 .. Len(b)
    PROVE  /\ SubSeq(b, 1, k) \in Seq(Nat) /\ Len(SubSeq(b, 1, k)) = k
           /\ \A j \in 1 .. k : SubSeq(b, 1, k)[j] = b[j]
           /\ SubSeq(b, k + 1, Len(b)) \in Seq(Nat)
           /\ Len(SubSeq(b, k + 1, Len(b))) = Len(b) - k
           /\ \A j \in 1 .. Len(b) - k : SubSeq(b, k + 1, Len(b))[j] = b[k + j]
<1>1. \A j \in 1 .. Len(b) : b[j] \in Nat
  OBVIOUS
<1>2. /\ SubSeq(b, 1, k) \in Seq(Nat)
      /\ Len(SubSeq(b, 1, k)) = IF 1 <= k THEN (k - 1) + 1 ELSE 0
      /\ \A j \in 1 .. (k - 1) + 1 : SubSeq(b, 1, k)[j] = b[(1 + j) - 1]
  <2>1. \A j \in 1 .. k : b[j] \in Nat
    BY <1>1
  <2> QED
    BY <2>1, SubSeqProperties
<1>3. /\ SubSeq(b, k + 1, Len(b)) \in Seq(Nat)
      /\ Len(SubSeq(b, k + 1, Len(b))) = IF k + 1 <= Len(b) THEN (Len(b) - (k + 1)) + 1 ELSE 0
      /\ \A j \in 1 .. (Len(b) - (k + 1)) + 1 :
            SubSeq(b, k + 1, Len(b))[j] = b[((k + 1) + j) - 1]
  <2>1. \A j \in k + 1 .. Len(b) : b[j] \in Nat
    BY <1>1
  <2> QED
    BY <2>1, SubSeqProperties
<1> QED
  BY <1>2, <1>3

\* Two sequences in a row lie in the stream.
LEMMA LieTogether ==
    ASSUME NEW s \in Seq(Nat), NEW p \in Nat, NEW a \in Seq(Nat), NEW b \in Seq(Nat),
           Lies(a, s, p), Lies(b, s, p + Len(a))
    PROVE  Lies(a \o b, s, p)
<1>1. ASSUME NEW j \in 1 .. Len(a) + Len(b) PROVE (a \o b)[j] = s[p + j]
  <2>1. CASE j <= Len(a)
    BY <2>1, ConcatProperties DEF Lies
  <2>2. CASE j > Len(a)
    <3>1. PICK e \in 1 .. Len(b) : j = Len(a) + e
      <4>1. j - Len(a) \in 1 .. Len(b) /\ j = Len(a) + (j - Len(a))
        BY <2>2
      <4> QED
        BY <4>1
    <3>2. (a \o b)[j] = b[e]
      BY <2>2, <3>1, ConcatProperties
    <3>3. b[e] = s[(p + Len(a)) + e]
      BY DEF Lies
    <3>4. (p + Len(a)) + e = p + j
      BY <3>1
    <3> QED
      BY <3>2, <3>3, <3>4
  <2> QED
    BY <2>1, <2>2
<1>2. p + (Len(a) + Len(b)) <= Len(s)
  BY DEF Lies
<1> QED
  BY <1>1, <1>2, ConcatProperties DEF Lies

\* The first k bytes of b go to the end of a, which become a2 and b2.
Passes(a, b, k, a2, b2) == /\ k \in 0 .. Len(b)
                           /\ a2 = a \o SubSeq(b, 1, k)
                           /\ b2 = SubSeq(b, k + 1, Len(b))

LEMMA PassedOn ==
    ASSUME NEW s \in Seq(Nat), NEW p \in Nat, NEW a \in Seq(Nat), NEW b \in Seq(Nat),
           Lies(a, s, p), Lies(b, s, p + Len(a)),
           NEW k, NEW a2, NEW b2, Passes(a, b, k, a2, b2)
    PROVE  /\ a2 \in Seq(Nat) /\ Len(a2) = Len(a) + k
           /\ b2 \in Seq(Nat) /\ Len(b2) = Len(b) - k
           /\ Lies(a2, s, p) /\ Lies(b2, s, p + Len(a2))
           /\ (p + Len(a2)) + Len(b2) = (p + Len(a)) + Len(b)
<1> DEFINE u == SubSeq(b, 1, k)
<1>0. k \in 0 .. Len(b)
  BY DEF Passes
<1>1. /\ u \in Seq(Nat) /\ Len(u) = k /\ \A j \in 1 .. k : u[j] = b[j]
      /\ b2 \in Seq(Nat) /\ Len(b2) = Len(b) - k
      /\ \A j \in 1 .. Len(b) - k : b2[j] = b[k + j]
  BY <1>0, CutInTwo DEF Passes
<1>2. a2 = a \o u
  BY DEF Passes
<1> HIDE DEF u
<1>3. a2 \in Seq(Nat) /\ Len(a2) = Len(a) + k
  <2>1. a \o u \in Seq(Nat) /\ Len(a \o u) = Len(a) + Len(u)
    BY <1>1, ConcatProperties
  <2> QED
    BY <1>0, <1>1, <1>2, <2>1
<1>4. Lies(u, s, p + Len(a))
  <2>1. (p + Len(a)) + k <= Len(s)
    BY <1>0 DEF Lies
  <2>2. ASSUME NEW j \in 1 .. k PROVE u[j] = s[(p + Len(a)) + j]
    <3>1. j \in 1 .. Len(b) /\ u[j] = b[j]
      BY <1>0, <1>1
    <3>2. b[j] = s[(p + Len(a)) + j]
      BY <3>1 DEF Lies
    <3> QED
      BY <3>1, <3>2
  <2> QED
    BY <1>1, <2>1, <2>2 DEF Lies
<1>5. Lies(a2, s, p)
  BY <1>1, <1>2, <1>4, LieTogether
<1>6. ASSUME NEW j \in 1 .. Len(b) - k PROVE b2[j] = s[(p + (Len(a) + k)) + j]
  <2>1. PICK e \in 1 .. Len(b) : e = k + j
    BY <1>0
  <2>2. (p + Len(a)) + e = (p + (Len(a) + k)) + j
    BY <1>0, <2>1
  <2>3. b[e] = s[(p + Len(a)) + e]
    BY DEF Lies
  <2> QED
    BY <1>1, <2>1, <2>2, <2>3
<1>7. (p + (Len(a) + k)) + (Len(b) - k) <= Len(s)
  BY <1>0 DEF Lies
<1>8. Lies(b2, s, p + Len(a2))
  BY <1>1, <1>3, <1>6, <1>7 DEF Lies
<1>9. (p + Len(a2)) + Len(b2) = (p + Len(a)) + Len(b)
  <2>1. PICK m \in Nat, l \in Nat : m = Len(a) /\ l = Len(b)
    OBVIOUS
  <2>2. Len(a2) = m + k /\ Len(b2) = l - k
    BY <1>1, <1>3, <2>1
  <2>3. (p + (m + k)) + (l - k) = (p + m) + l
    BY <1>0
  <2> QED
    BY <2>1, <2>2, <2>3
<1> QED
  BY <1>1, <1>3, <1>5, <1>8, <1>9

\* What lies at the start of a stream, and is as long, is the stream.
LEMMA LiesInFull ==
    ASSUME NEW s \in Seq(Nat), NEW b \in Seq(Nat), Lies(b, s, 0), Len(b) = Len(s)
    PROVE  b = s
<1>1. \A j \in 1 .. Len(b) : b[j] = s[j]
  BY DEF Lies
<1> QED
  BY <1>1, SeqEqual

\* What lies at the start is a prefix.
LEMMA LiesInFront ==
    ASSUME NEW s \in Seq(Nat), NEW b \in Seq(Nat), Lies(b, s, 0)
    PROVE  b = SubSeq(s, 1, Len(b))
<1>1. Len(b) \in 0 .. Len(s) /\ \A j \in 1 .. Len(b) : b[j] = s[j]
  BY DEF Lies
<1>2. PICK t \in Seq(Nat) : /\ t = SubSeq(s, 1, Len(b)) /\ Len(t) = Len(b)
                            /\ \A j \in 1 .. Len(b) : t[j] = s[j]
  BY <1>1, CutInTwo
<1> QED
  BY <1>1, <1>2, SeqEqual

\* A stream that goes on.
LEMMA LiesFurther ==
    ASSUME NEW s \in Seq(Nat), NEW t \in Seq(Nat), NEW b \in Seq(Nat), NEW p \in Nat
    PROVE  /\ s \o t \in Seq(Nat) /\ Len(s \o t) = Len(s) + Len(t)
           /\ Lies(b, s, p) => Lies(b, s \o t, p)
           /\ Lies(t, s \o t, Len(s))
<1>1. PICK u \in Seq(Nat) :
         /\ u = s \o t /\ Len(u) = Len(s) + Len(t)
         /\ \A e \in 1 .. Len(s) + Len(t) : u[e] = IF e <= Len(s) THEN s[e] ELSE t[e - Len(s)]
  <2>1. /\ s \o t \in Seq(Nat) /\ Len(s \o t) = Len(s) + Len(t)
        /\ \A e \in 1 .. Len(s) + Len(t) :
              (s \o t)[e] = IF e <= Len(s) THEN s[e] ELSE t[e - Len(s)]
    BY ConcatProperties
  <2> QED
    BY <2>1
<1>2. ASSUME Lies(b, s, p) PROVE Lies(b, u, p)
  <2>1. p + Len(b) <= Len(u)
    BY <1>1, <1>2 DEF Lies
  <2>2. ASSUME NEW k \in 1 .. Len(b) PROVE b[k] = u[p + k]
    <3>1. p + k \in 1 .. Len(s)
      BY <1>2 DEF Lies
    <3>2. b[k] = s[p + k]
      BY <1>2 DEF Lies
    <3> QED
      BY <1>1, <3>1, <3>2
  <2> QED
    BY <2>1, <2>2 DEF Lies
<1>3. Lies(t, u, Len(s))
  <2>1. ASSUME NEW k \in 1 .. Len(t) PROVE t[k] = u[Len(s) + k]
    BY <1>1
  <2> QED
    BY <1>1, <2>1 DEF Lies
<1> QED
  BY <1>1, <1>2, <1>3

\* t is s with x put in behind the first e.
Inserts(s, e, x, t) == /\ t \in Seq(Nat) /\ e \in 0 .. Len(s) /\ Len(t) = Len(s) + 1
                       /\ \A j \in 1 .. e : t[j] = s[j]
                       /\ t[e + 1] = x
                       /\ \A j \in e + 1 .. Len(s) : t[j + 1] = s[j]

LEMMA Inserted ==
    ASSUME NEW s \in Seq(Nat), NEW e \in 0 .. Len(s), NEW x \in Nat
    PROVE  Inserts(s, e, x, InsertAt(s, e + 1, x))
<1>1. PICK a \in Seq(Nat), b \in Seq(Nat) :
         /\ a = SubSeq(s, 1, e) /\ Len(a) = e /\ \A j \in 1 .. e : a[j] = s[j]
         /\ b = SubSeq(s, e + 1, Len(s)) /\ Len(b) = Len(s) - e
         /\ \A j \in 1 .. Len(s) - e : b[j] = s[e + j]
  <2>1. /\ SubSeq(s, 1, e) \in Seq(Nat) /\ Len(SubSeq(s, 1, e)) = e
        /\ \A j \in 1 .. e : SubSeq(s, 1, e)[j] = s[j]
        /\ SubSeq(s, e + 1, Len(s)) \in Seq(Nat)
        /\ Len(SubSeq(s, e + 1, Len(s))) = Len(s) - e
        /\ \A j \in 1 .. Len(s) - e : SubSeq(s, e + 1, Len(s))[j] = s[e + j]
    BY CutInTwo
  <2> QED
    BY <2>1
<1>2. PICK h \in Seq(Nat) : /\ h = a \o <<x>> /\ Len(h) = e + 1 /\ h[e + 1] = x
                            /\ \A j \in 1 .. e : h[j] = a[j]
  <2>1. <<x>> \in Seq(Nat) /\ Len(<<x>>) = 1 /\ <<x>>[1] = x
    OBVIOUS
  <2>2. /\ a \o <<x>> \in Seq(Nat) /\ Len(a \o <<x>>) = Len(a) + Len(<<x>>)
        /\ \A j \in 1 .. Len(a) + Len(<<x>>) :
              (a \o <<x>>)[j] = IF j <= Len(a) THEN a[j] ELSE <<x>>[j - Len(a)]
    BY <2>1, ConcatProperties
  <2>3. /\ e + 1 \in 1 .. Len(a) + Len(<<x>>) /\ ~ e + 1 <= Len(a) /\ (e + 1) - Len(a) = 1
        /\ \A j \in 1 .. e : j \in 1 .. Len(a) + Len(<<x>>) /\ j <= Len(a)
    BY <1>1, <2>1
  <2>4. (a \o <<x>>)[e + 1] = x
    BY <2>1, <2>2, <2>3
  <2>5. \A j \in 1 .. e : (a \o <<x>>)[j] = a[j]
    BY <2>2, <2>3
  <2>6. Len(a \o <<x>>) = e + 1
    BY <1>1, <2>1, <2>2
  <2> QED
    BY <2>2, <2>4, <2>5, <2>6
<1>3. PICK t \in Seq(Nat) :
         /\ t = h \o b /\ Len(t) = Len(h) + Len(b)
         /\ \A j \in 1 .. Len(h) + Len(b) : t[j] = IF j <= Len(h) THEN h[j] ELSE b[j - Len(h)]
  <2>1. /\ h \o b \in Seq(Nat) /\ Len(h \o b) = Len(h) + Len(b)
        /\ \A j \in 1 .. Len(h) + Len(b) :
              (h \o b)[j] = IF j <= Len(h) THEN h[j] ELSE b[j - Len(h)]
    BY ConcatProperties
  <2> QED
    BY <2>1
<1>4. Len(t) = Len(s) + 1 /\ t[e + 1] = x /\ \A j \in 1 .. e : t[j] = s[j]
  <2>1. /\ Len(h) + Len(b) = Len(s) + 1 /\ e + 1 \in 1 .. Len(h) + Len(b) /\ e + 1 <= Len(h)
        /\ \A j \in 1 .. e : j \in 1 .. Len(h) + Len(b) /\ j <= Len(h)
    <3>1. Len(s) \in Nat /\ Len(h) = e + 1 /\ Len(b) = Len(s) - e
      BY <1>1, <1>2
    <3> QED
      BY <3>1
  <2>2. t[e + 1] = h[e + 1] /\ \A j \in 1 .. e : t[j] = h[j]
    BY <1>3, <2>1
  <2>3. \A j \in 1 .. e : t[j] = s[j]
    BY <1>1, <1>2, <2>2
  <2> QED
    BY <1>2, <1>3, <2>1, <2>2, <2>3
<1>5. ASSUME NEW j \in e + 1 .. Len(s) PROVE t[j + 1] = s[j]
  <2>1. PICK g \in 1 .. Len(s) - e : j = e + g
    <3>1. j - e \in 1 .. Len(s) - e /\ j = e + (j - e)
      OBVIOUS
    <3> QED
      BY <3>1
  <2>2. j + 1 \in 1 .. Len(h) + Len(b) /\ ~ j + 1 <= Len(h) /\ (j + 1) - Len(h) = g
    <3>1. Len(s) \in Nat /\ Len(h) = e + 1 /\ Len(b) = Len(s) - e
      BY <1>1, <1>2
    <3> QED
      BY <2>1, <3>1
  <2>3. t[j + 1] = b[g]
    BY <1>3, <2>2
  <2> QED
    BY <1>1, <2>1, <2>3
<1>6. InsertAt(s, e + 1, x) = t
  <2>1. (e + 1) - 1 = e
    OBVIOUS
  <2> QED
    BY <1>1, <1>2, <1>3, <2>1 DEF InsertAt
<1> QED
  BY <1>4, <1>5, <1>6 DEF Inserts

\* What lies before it stays, what lies behind it moves on,
LEMMA LiesBefore ==
    ASSUME NEW s \in Seq(Nat), NEW e, NEW x, NEW t, Inserts(s, e, x, t),
           NEW b \in Seq(Nat), NEW p \in Nat, Lies(b, s, p), p + Len(b) <= e
    PROVE  Lies(b, t, p)
<1>1. ASSUME NEW k \in 1 .. Len(b) PROVE b[k] = t[p + k]
  <2>1. p + k \in 1 .. e
    BY DEF Inserts
  <2> QED
    BY <2>1 DEF Lies, Inserts
<1>2. p + Len(b) <= Len(t)
  BY DEF Lies, Inserts
<1> QED
  BY <1>1, <1>2 DEF Lies

LEMMA LiesBehind ==
    ASSUME NEW s \in Seq(Nat), NEW e, NEW x, NEW t, Inserts(s, e, x, t),
           NEW b \in Seq(Nat), NEW p \in Nat, Lies(b, s, p), e <= p
    PROVE  Lies(b, t, p + 1)
<1>1. ASSUME NEW k \in 1 .. Len(b) PROVE b[k] = t[(p + 1) + k]
  <2>1. PICK j \in e + 1 .. Len(s) : j = p + k
    <3>1. PICK l \in Nat, m \in Nat : l = Len(s) /\ m = Len(b)
      OBVIOUS
    <3>2. p + m <= l /\ k \in 1 .. m
      BY <3>1 DEF Lies
    <3>3. e \in 0 .. l
      BY <3>1 DEF Inserts
    <3>4. p + k \in e + 1 .. Len(s)
      BY <3>1, <3>2, <3>3
    <3> QED
      BY <3>4
  <2>2. t[j + 1] = s[j]
    BY DEF Inserts
  <2>3. j + 1 = (p + 1) + k
    BY <2>1
  <2>4. b[k] = s[p + k]
    BY DEF Lies
  <2> QED
    BY <2>1, <2>2, <2>3, <2>4
<1>2. (p + 1) + Len(b) <= Len(t)
  BY DEF Lies, Inserts
<1> QED
  BY <1>1, <1>2 DEF Lies

\* and what ends there goes on with it.
LEMMA LiesWith ==
    ASSUME NEW s \in Seq(Nat), NEW e, NEW x \in Nat, NEW t, Inserts(s, e, x, t),
           NEW b \in Seq(Nat), NEW p \in Nat, Lies(b, s, p), p + Len(b) = e
    PROVE  /\ Append(b, x) \in Seq(Nat) /\ Len(Append(b, x)) = Len(b) + 1
           /\ Lies(Append(b, x), t, p)
<1>1. /\ Append(b, x) \in Seq(Nat) /\ Len(Append(b, x)) = Len(b) + 1
      /\ Append(b, x)[Len(b) + 1] = x
      /\ \A k \in 1 .. Len(b) : Append(b, x)[k] = b[k]
  OBVIOUS
<1>2. Lies(b, t, p)
  BY LiesBefore
<1>3. t[p + (Len(b) + 1)] = x
  <2>1. p + (Len(b) + 1) = e + 1
    OBVIOUS
  <2> QED
    BY <2>1 DEF Inserts
<1>4. ASSUME NEW k \in 1 .. Len(b) + 1 PROVE Append(b, x)[k] = t[p + k]
  <2>1. CASE k \in 1 .. Len(b)
    BY <1>1, <1>2, <2>1 DEF Lies
  <2>2. CASE k = Len(b) + 1
    BY <1>1, <1>3, <2>2
  <2> QED
    BY <2>1, <2>2
<1>5. p + (Len(b) + 1) <= Len(t)
  BY DEF Lies, Inserts
<1> QED
  BY <1>1, <1>4, <1>5 DEF Lies

----------------------------------------------------------------------------
(* A step that passes bytes on keeps the chain                             *)

\* The client writes k bytes of its message.
LEMMA UpTheWire ==
    ASSUME NEW s, NEW p, NEW back, NEW down, NEW held, NEW up,
           Chain(s, p, back, down, held, up),
           NEW rest, Finish(s, Reach(p, back, down, held, up), rest),
           NEW k, NEW up2, NEW rest2,
           Passes(up, rest, k, up2, rest2)
    PROVE  /\ up2 \in Seq(Nat) /\ rest2 \in Seq(Nat)
           /\ Len(up2) = Len(up) + k /\ Len(rest2) = Len(rest) - k
           /\ Chain(s, p, back, down, held, up2)
           /\ Finish(s, Reach(p, back, down, held, up2), rest2)
<1>0. /\ s \in Seq(Nat) /\ p \in Nat /\ back \in Seq(Nat) /\ down \in Seq(Nat)
      /\ held \in Seq(Nat) /\ up \in Seq(Nat) /\ rest \in Seq(Nat)
  BY DEF Chain, Finish
<1>1. PICK q \in Nat : q = ((p + Len(back)) + Len(down)) + Len(held)
  BY <1>0
<1>2. Lies(up, s, q) /\ Lies(rest, s, q + Len(up))
  BY <1>0, <1>1 DEF Chain, Finish, Reach
<1>3. /\ up2 \in Seq(Nat) /\ Len(up2) = Len(up) + k
      /\ rest2 \in Seq(Nat) /\ Len(rest2) = Len(rest) - k
      /\ Lies(up2, s, q) /\ Lies(rest2, s, q + Len(up2))
      /\ (q + Len(up2)) + Len(rest2) = (q + Len(up)) + Len(rest)
  BY <1>0, <1>2, PassedOn
<1> QED
  BY <1>0, <1>1, <1>3 DEF Chain, Finish, Reach

\* The child reads k bytes.
LEMMA IntoTheChild ==
    ASSUME NEW s, NEW p, NEW back, NEW down, NEW held, NEW up,
           Chain(s, p, back, down, held, up),
           NEW k, NEW held2, NEW up2,
           Passes(held, up, k, held2, up2)
    PROVE  /\ held2 \in Seq(Nat) /\ up2 \in Seq(Nat)
           /\ Len(held2) = Len(held) + k /\ Len(up2) = Len(up) - k
           /\ Chain(s, p, back, down, held2, up2)
           /\ Reach(p, back, down, held2, up2) = Reach(p, back, down, held, up)
<1>0. /\ s \in Seq(Nat) /\ p \in Nat /\ back \in Seq(Nat) /\ down \in Seq(Nat)
      /\ held \in Seq(Nat) /\ up \in Seq(Nat)
  BY DEF Chain
<1>1. PICK q \in Nat : q = (p + Len(back)) + Len(down)
  BY <1>0
<1>2. Lies(held, s, q) /\ Lies(up, s, q + Len(held))
  BY <1>0, <1>1 DEF Chain
<1>3. /\ held2 \in Seq(Nat) /\ Len(held2) = Len(held) + k
      /\ up2 \in Seq(Nat) /\ Len(up2) = Len(up) - k
      /\ Lies(held2, s, q) /\ Lies(up2, s, q + Len(held2))
      /\ (q + Len(held2)) + Len(up2) = (q + Len(held)) + Len(up)
  BY <1>0, <1>2, PassedOn
<1> QED
  BY <1>0, <1>1, <1>3 DEF Chain, Reach

\* The child writes k bytes back.
LEMMA DownTheWire ==
    ASSUME NEW s, NEW p, NEW back, NEW down, NEW held, NEW up,
           Chain(s, p, back, down, held, up),
           NEW k, NEW down2, NEW held2,
           Passes(down, held, k, down2, held2)
    PROVE  /\ down2 \in Seq(Nat) /\ held2 \in Seq(Nat)
           /\ Len(down2) = Len(down) + k /\ Len(held2) = Len(held) - k
           /\ Chain(s, p, back, down2, held2, up)
           /\ Reach(p, back, down2, held2, up) = Reach(p, back, down, held, up)
<1>0. /\ s \in Seq(Nat) /\ p \in Nat /\ back \in Seq(Nat) /\ down \in Seq(Nat)
      /\ held \in Seq(Nat) /\ up \in Seq(Nat)
  BY DEF Chain
<1>1. PICK q \in Nat : q = p + Len(back)
  BY <1>0
<1>2. Lies(down, s, q) /\ Lies(held, s, q + Len(down))
  BY <1>0, <1>1 DEF Chain
<1>3. /\ down2 \in Seq(Nat) /\ Len(down2) = Len(down) + k
      /\ held2 \in Seq(Nat) /\ Len(held2) = Len(held) - k
      /\ Lies(down2, s, q) /\ Lies(held2, s, q + Len(down2))
      /\ (q + Len(down2)) + Len(held2) = (q + Len(down)) + Len(held)
  BY <1>0, <1>2, PassedOn
<1> QED
  BY <1>0, <1>1, <1>3 DEF Chain, Reach

\* The client reads k bytes of the echo.
LEMMA IntoTheClient ==
    ASSUME NEW s, NEW p, NEW back, NEW down, NEW held, NEW up,
           Chain(s, p, back, down, held, up),
           NEW k, NEW back2, NEW down2,
           Passes(back, down, k, back2, down2)
    PROVE  /\ back2 \in Seq(Nat) /\ down2 \in Seq(Nat)
           /\ Len(back2) = Len(back) + k /\ Len(down2) = Len(down) - k
           /\ Chain(s, p, back2, down2, held, up)
           /\ Reach(p, back2, down2, held, up) = Reach(p, back, down, held, up)
<1>0. /\ s \in Seq(Nat) /\ p \in Nat /\ back \in Seq(Nat) /\ down \in Seq(Nat)
      /\ held \in Seq(Nat) /\ up \in Seq(Nat)
  BY DEF Chain
<1>1. PICK q \in Nat : q = p
  BY <1>0
<1>2. Lies(back, s, q) /\ Lies(down, s, q + Len(back))
  BY <1>0, <1>1 DEF Chain
<1>3. /\ back2 \in Seq(Nat) /\ Len(back2) = Len(back) + k
      /\ down2 \in Seq(Nat) /\ Len(down2) = Len(down) - k
      /\ Lies(back2, s, q) /\ Lies(down2, s, q + Len(back2))
      /\ (q + Len(back2)) + Len(down2) = (q + Len(back)) + Len(down)
  BY <1>0, <1>2, PassedOn
<1> QED
  BY <1>0, <1>1, <1>3 DEF Chain, Reach

\* Nothing is behind what reaches to the stream's end.
LEMMA NothingBehind ==
    ASSUME NEW s, NEW p, NEW back, NEW down, NEW held, NEW up,
           Chain(s, p, back, down, held, up), NEW rest,
           Finish(s, Reach(p, back, down, held, up), rest)
    PROVE  /\ ((p + Len(back)) + Len(down)) + Len(held) = Len(s) => up = << >> /\ rest = << >>
           /\ p + Len(back) = Len(s) => /\ down = << >> /\ held = << >>
                                        /\ up = << >> /\ rest = << >>
<1>0. /\ s \in Seq(Nat) /\ p \in Nat /\ back \in Seq(Nat) /\ down \in Seq(Nat)
      /\ held \in Seq(Nat) /\ up \in Seq(Nat) /\ rest \in Seq(Nat)
  BY DEF Chain, Finish
<1>1. PICK b \in Nat, d \in Nat, h \in Nat, u \in Nat, r \in Nat, l \in Nat :
         /\ b = Len(back) /\ d = Len(down) /\ h = Len(held) /\ u = Len(up)
         /\ r = Len(rest) /\ l = Len(s)
  BY <1>0
<1>2. (((((p + b) + d) + h) + u) + r) = l
  BY <1>0, <1>1 DEF Finish, Reach
<1>3. ASSUME ((p + b) + d) + h = l PROVE u = 0 /\ r = 0
  BY <1>2, <1>3
<1>4. ASSUME p + b = l PROVE d = 0 /\ h = 0 /\ u = 0 /\ r = 0
  BY <1>2, <1>4
<1>5. \A q \in Seq(Nat) : Len(q) = 0 => q = << >>
  BY EmptySeq
<1> QED
  BY <1>0, <1>1, <1>3, <1>4, <1>5

\* A byte is added to what the child holds, and to the stream,
LEMMA ChildSpills ==
    ASSUME NEW s, NEW p, NEW back, NEW down, NEW held, NEW up,
           Chain(s, p, back, down, held, up), NEW e, NEW x \in Nat, NEW t,
           Inserts(s, e, x, t), e = ((p + Len(back)) + Len(down)) + Len(held)
    PROVE  /\ Append(held, x) \in Seq(Nat)
           /\ Chain(t, p, back, down, Append(held, x), up)
           /\ \A rest : Finish(s, Reach(p, back, down, held, up), rest)
                         => Finish(t, Reach(p, back, down, Append(held, x), up), rest)
<1>0. /\ s \in Seq(Nat) /\ t \in Seq(Nat) /\ p \in Nat /\ back \in Seq(Nat)
      /\ down \in Seq(Nat) /\ held \in Seq(Nat) /\ up \in Seq(Nat)
      /\ Len(t) = Len(s) + 1
  BY DEF Chain, Inserts
<1>1. PICK a \in Nat, d \in Nat :
         /\ a = p + Len(back) /\ d = a + Len(down) /\ d + Len(held) = e /\ e \in Nat
  <2>1. p + Len(back) \in Nat /\ (p + Len(back)) + Len(down) \in Nat /\ e \in Nat
    BY <1>0 DEF Inserts
  <2> QED
    BY <2>1
<1>2. Lies(back, s, p) /\ Lies(down, s, a) /\ Lies(held, s, d) /\ Lies(up, s, e)
  BY <1>1 DEF Chain
<1>3. p + Len(back) <= e /\ a + Len(down) <= e
  <2>1. Len(down) \in Nat /\ Len(held) \in Nat
    BY <1>0
  <2> QED
    BY <1>1, <2>1
<1>4. Lies(back, t, p) /\ Lies(down, t, a)
  BY <1>0, <1>1, <1>2, <1>3, LiesBefore
<1>5. /\ Append(held, x) \in Seq(Nat) /\ Len(Append(held, x)) = Len(held) + 1
      /\ Lies(Append(held, x), t, d)
  BY <1>0, <1>1, <1>2, LiesWith
<1>6. Lies(up, t, e + 1)
  BY <1>0, <1>1, <1>2, LiesBehind
<1>7. d + Len(Append(held, x)) = e + 1
  BY <1>0, <1>1, <1>5
<1>8. Chain(t, p, back, down, Append(held, x), up)
  BY <1>0, <1>1, <1>4, <1>5, <1>6, <1>7 DEF Chain
<1>9. /\ Reach(p, back, down, held, up) = e + Len(up)
      /\ Reach(p, back, down, Append(held, x), up) = (e + 1) + Len(up)
  BY <1>1, <1>7 DEF Reach
<1>10. ASSUME NEW rest, Finish(s, e + Len(up), rest)
       PROVE  Finish(t, (e + 1) + Len(up), rest)
  <2>1. PICK q \in Nat : q = e + Len(up) /\ q + 1 = (e + 1) + Len(up) /\ e <= q
    <3>1. /\ e + Len(up) \in Nat /\ (e + Len(up)) + 1 = (e + 1) + Len(up)
          /\ e <= e + Len(up)
      BY <1>0, <1>1
    <3> QED
      BY <3>1
  <2>2. rest \in Seq(Nat) /\ Lies(rest, s, q) /\ q + Len(rest) = Len(s)
    BY <1>10, <2>1 DEF Finish
  <2>3. Lies(rest, t, q + 1)
    BY <1>0, <2>1, <2>2, LiesBehind
  <2>4. (q + 1) + Len(rest) = Len(t)
    <3>1. PICK y \in Nat : y = Len(rest) /\ q + y = Len(s)
      <4>1. Len(rest) \in Nat
        BY <2>2
      <4> QED
        BY <2>2, <4>1
    <3>2. (q + 1) + y = (q + y) + 1
      OBVIOUS
    <3> QED
      BY <1>0, <3>1, <3>2
  <2> QED
    BY <2>1, <2>2, <2>3, <2>4 DEF Finish
<1> QED
  BY <1>5, <1>8, <1>9, <1>10

\* or to what the client has.
LEMMA ClientSpills ==
    ASSUME NEW s, NEW p, NEW back, NEW down, NEW held, NEW up,
           Chain(s, p, back, down, held, up), NEW e, NEW x \in Nat, NEW t,
           Inserts(s, e, x, t), e = p + Len(back)
    PROVE  /\ Append(back, x) \in Seq(Nat)
           /\ Chain(t, p, Append(back, x), down, held, up)
           /\ \A rest : Finish(s, Reach(p, back, down, held, up), rest)
                         => Finish(t, Reach(p, Append(back, x), down, held, up), rest)
<1>0. /\ s \in Seq(Nat) /\ t \in Seq(Nat) /\ p \in Nat /\ back \in Seq(Nat)
      /\ down \in Seq(Nat) /\ held \in Seq(Nat) /\ up \in Seq(Nat)
      /\ Len(t) = Len(s) + 1 /\ e \in Nat
  BY DEF Chain, Inserts
<1>1. PICK d \in Nat, h \in Nat, q \in Nat :
         /\ d = e + Len(down) /\ h = d + Len(held) /\ q = h + Len(up)
         /\ e <= d /\ e <= h /\ e <= q
         /\ d + 1 = (e + 1) + Len(down) /\ h + 1 = (d + 1) + Len(held)
         /\ q + 1 = (h + 1) + Len(up)
  <2>1. PICK m \in Nat, y \in Nat, o \in Nat : m = Len(down) /\ y = Len(held) /\ o = Len(up)
    <3>1. Len(down) \in Nat /\ Len(held) \in Nat /\ Len(up) \in Nat
      BY <1>0
    <3> QED
      BY <3>1
  <2>2. /\ e + m \in Nat /\ (e + m) + y \in Nat /\ ((e + m) + y) + o \in Nat
        /\ e <= e + m /\ e <= (e + m) + y /\ e <= ((e + m) + y) + o
        /\ (e + m) + 1 = (e + 1) + m /\ ((e + m) + y) + 1 = ((e + m) + 1) + y
        /\ (((e + m) + y) + o) + 1 = (((e + m) + y) + 1) + o
    <3>1. e \in Nat
      BY <1>0
    <3> QED
      BY <3>1
  <2> QED
    BY <2>1, <2>2
<1>2. /\ Lies(back, s, p) /\ Lies(down, s, e) /\ Lies(held, s, d) /\ Lies(up, s, h)
      /\ Reach(p, back, down, held, up) = q
  BY <1>1 DEF Chain, Reach
<1>3. /\ Append(back, x) \in Seq(Nat) /\ Len(Append(back, x)) = Len(back) + 1
      /\ Lies(Append(back, x), t, p)
  BY <1>0, <1>2, LiesWith
<1>4. Lies(down, t, e + 1) /\ Lies(held, t, d + 1) /\ Lies(up, t, h + 1)
  <2>1. e <= e
    BY <1>0
  <2>2. Lies(down, t, e + 1)
    BY <1>0, <1>2, <2>1, LiesBehind
  <2>3. Lies(held, t, d + 1)
    BY <1>0, <1>1, <1>2, LiesBehind
  <2>4. Lies(up, t, h + 1)
    BY <1>0, <1>1, <1>2, LiesBehind
  <2> QED
    BY <2>2, <2>3, <2>4
<1>5. p + Len(Append(back, x)) = e + 1
  BY <1>0, <1>3
<1>6. /\ Chain(t, p, Append(back, x), down, held, up)
      /\ Reach(p, Append(back, x), down, held, up) = q + 1
  BY <1>0, <1>1, <1>3, <1>4, <1>5 DEF Chain, Reach
<1>7. ASSUME NEW rest, Finish(s, q, rest) PROVE Finish(t, q + 1, rest)
  <2>1. rest \in Seq(Nat) /\ Lies(rest, s, q) /\ q + Len(rest) = Len(s)
    BY <1>7 DEF Finish
  <2>2. Lies(rest, t, q + 1)
    BY <1>0, <1>1, <2>1, LiesBehind
  <2>3. (q + 1) + Len(rest) = Len(t)
    BY <1>0, <2>1
  <2> QED
    BY <2>1, <2>2, <2>3 DEF Finish
<1> QED
  BY <1>2, <1>3, <1>6, <1>7

----------------------------------------------------------------------------
(* Messages                                                                *)

\* What fgets returns: a line of bytes, not empty, with '\n' at its end only.
IsLine(line) == /\ line \in Seq(Nat) /\ line # << >>
                /\ \A k \in 1 .. Len(line) - 1 : line[k] # NL

LEMMA LinesAre ==
    ASSUME NEW c \in Clients
    PROVE  Len(Lines[c]) \in Nat /\ \A m \in 1 .. Len(Lines[c]) : IsLine(Lines[c][m])
<1>1. Lines[c] \in Seq(Seq(1 .. 255) \ {<< >>})
  BY ForkAssumption
<1>2. ASSUME NEW m \in 1 .. Len(Lines[c]) PROVE IsLine(Lines[c][m])
  <2>1. Lines[c][m] \in Seq(1 .. 255) \ {<< >>}
    BY <1>1, ElementOfSeq
  <2>2. \A k \in 1 .. Len(Lines[c][m]) : Lines[c][m][k] \in Nat
    <3>1. PICK bytes : bytes = 1 .. 255
      OBVIOUS
    <3>2. \A k \in 1 .. Len(Lines[c][m]) : Lines[c][m][k] \in bytes
      BY <2>1, <3>1, ElementOfSeq
    <3>3. \A byte \in bytes : byte \in Nat
      BY <3>1
    <3> QED
      BY <3>2, <3>3
  <2>3. Lines[c][m] \in Seq(Nat)
    BY <2>1, <2>2
  <2> QED
    BY <2>1, <2>3, ForkAssumption DEF IsLine
<1> QED
  BY <1>1, <1>2

\* A packet is the length and the line.
LEMMA PacketIs ==
    ASSUME NEW line, IsLine(line)
    PROVE  /\ Packet(line) \in Seq(Nat) /\ Len(Packet(line)) = LENGTH + Len(line)
           /\ Packet(line)[1] = Len(line)
           /\ SubSeq(Packet(line), LENGTH + 1, Len(Packet(line))) = line
<1>1. LENGTH \in Nat /\ LENGTH >= 1 /\ Len(line) \in Nat /\ line \in Seq(Nat)
  BY ForkAssumption DEF IsLine
<1>2. PICK h \in Seq(Nat) : /\ h = [k \in 1 .. LENGTH |-> Len(line)]
                            /\ Len(h) = LENGTH /\ h[1] = Len(line)
  <2>1. [k \in 1 .. LENGTH |-> Len(line)] \in [1 .. LENGTH -> Nat]
    BY <1>1
  <2>2. [k \in 1 .. LENGTH |-> Len(line)] \in Seq(Nat)
    BY <1>1, <2>1
  <2>3. Len([k \in 1 .. LENGTH |-> Len(line)]) = LENGTH
    BY <1>1
  <2>4. [k \in 1 .. LENGTH |-> Len(line)][1] = Len(line)
    BY <1>1
  <2> QED
    BY <2>2, <2>3, <2>4
<1>3. Packet(line) = h \o line
  BY <1>2 DEF Packet
<1>4. PICK q \in Seq(Nat) :
         /\ q = Packet(line) /\ Len(q) = LENGTH + Len(line)
         /\ \A e \in 1 .. LENGTH + Len(line) :
               q[e] = IF e <= LENGTH THEN h[e] ELSE line[e - LENGTH]
  <2>1. /\ h \o line \in Seq(Nat) /\ Len(h \o line) = Len(h) + Len(line)
        /\ \A e \in 1 .. Len(h) + Len(line) :
              (h \o line)[e] = IF e <= Len(h) THEN h[e] ELSE line[e - Len(h)]
    BY <1>1, ConcatProperties
  <2> QED
    BY <1>2, <1>3, <2>1
<1>5. q[1] = Len(line)
  BY <1>1, <1>2, <1>4
<1>6. SubSeq(q, LENGTH + 1, Len(q)) = line
  <2>1. LENGTH \in 0 .. Len(q) /\ Len(q) - LENGTH = Len(line)
    BY <1>1, <1>4
  <2>2. PICK t \in Seq(Nat) :
           /\ t = SubSeq(q, LENGTH + 1, Len(q)) /\ Len(t) = Len(line)
           /\ \A j \in 1 .. Len(line) : t[j] = q[LENGTH + j]
    <3>1. /\ SubSeq(q, LENGTH + 1, Len(q)) \in Seq(Nat)
          /\ Len(SubSeq(q, LENGTH + 1, Len(q))) = Len(q) - LENGTH
          /\ \A j \in 1 .. Len(q) - LENGTH :
                SubSeq(q, LENGTH + 1, Len(q))[j] = q[LENGTH + j]
      BY <2>1, CutInTwo
    <3> QED
      BY <2>1, <3>1
  <2>3. ASSUME NEW j \in 1 .. Len(line) PROVE q[LENGTH + j] = line[j]
    <3>1. PICK e \in 1 .. LENGTH + Len(line) : e = LENGTH + j
      BY <1>1
    <3>2. ~ e <= LENGTH /\ e - LENGTH = j
      BY <1>1, <3>1
    <3> QED
      BY <1>4, <3>1, <3>2
  <2> QED
    BY <1>1, <2>2, <2>3, SeqEqual
<1> QED
  BY <1>4, <1>5, <1>6

LEMMA MessageIs ==
    ASSUME NEW line, IsLine(line)
    PROVE  /\ Message(line) \in Seq(Nat) /\ Message(line) # << >>
           /\ Len(Message(line)) \in Nat \ {0}
           /\ Text(Message(line)) = line
<1>1. CASE program = "packet"
  <2>1. Len(Packet(line)) \in Nat \ {0}
    BY PacketIs, ForkAssumption DEF IsLine
  <2> QED
    BY <1>1, <2>1, PacketIs, EmptySeq DEF Message, Text
<1>2. CASE program # "packet"
  BY <1>2, EmptySeq DEF IsLine, Message, Text
<1> QED
  BY <1>1, <1>2

\* What is read of a message is whole when all of it has been read.
LEMMA WholeIsAll ==
    ASSUME ForkTypes, Whole, NEW line, IsLine(line), NEW buf \in Seq(Nat), buf # << >>,
           Lies(buf, Message(line), 0), IsWhole(buf)
    PROVE  buf = Message(line)
<1>1. /\ Message(line) \in Seq(Nat) /\ Len(Message(line)) \in Nat /\ Len(buf) \in Nat
      /\ Len(buf) >= 1 /\ Len(buf) <= Len(Message(line))
      /\ \A k \in 1 .. Len(buf) : buf[k] = Message(line)[k]
  <2>1. Len(buf) >= 1
    BY EmptySeq
  <2> QED
    BY <2>1, MessageIs DEF Lies
<1>2. CASE program = "packet"
  <2>1. /\ Message(line) = Packet(line) /\ Len(Packet(line)) = LENGTH + Len(line)
        /\ Len(buf) = Asked(buf)
    BY <1>2, PacketIs DEF Message, IsWhole, PacketWhole, Plain
  <2>2. buf[1] = Len(line)
    BY <1>1, <2>1, PacketIs
  <2>3. LENGTH \in Nat
    BY ForkAssumption
  <2>4. ~ Len(buf) < LENGTH
    BY <1>1, <2>1, <2>3 DEF Asked
  <2>5. Len(buf) = Len(Message(line))
    BY <2>1, <2>2, <2>4 DEF Asked
  <2> QED
    BY <1>1, <2>5, LiesInFull
<1>3. CASE program = "line"
  <2>1. Message(line) = line /\ buf[Len(buf)] = NL
    BY <1>3 DEF Message, IsWhole, LineWhole, Plain
  <2>2. line[Len(buf)] = NL
    BY <1>1, <2>1
  <2>3. Len(buf) = Len(line)
    <3>1. ~ Len(buf) \in 1 .. Len(line) - 1
      BY <2>2 DEF IsLine
    <3> QED
      BY <1>1, <2>1, <3>1
  <2> QED
    BY <1>1, <2>1, <2>3, LiesInFull
<1> QED
  BY <1>2, <1>3 DEF ForkTypes, Programs, Whole, Plain


----------------------------------------------------------------------------
(* Connections                                                             *)

LEMMA ForkInitially == ForkInit => ForkInv
<1> SUFFICES ASSUME ForkInit PROVE ForkInv
  OBVIOUS
<1>1. ForkTypes /\ OneChild
  BY DEF ForkInit, ForkTypes, OneChild
<1>2. ASSUME NEW c \in Clients PROVE Faithful(c)
  <2>1. /\ client[c] = "none" /\ child[c] = "none"
        /\ sendrecvbuf[c] = << >> /\ recvbuf[c] = << >> /\ owed[c] = << >>
        /\ output[c] = << >> /\ toServer[c] = << >> /\ toClient[c] = << >>
    BY DEF ForkInit
  <2>2. Stream(c) = << >> /\ Start(c) = 0 /\ Back(c) = << >> /\ Rest(c) = << >>
    BY <2>1 DEF Stream, Start, Back, Rest, Busy
  <2>3. Lies(<< >>, << >>, 0)
    BY DEF Lies
  <2>4. OnTheWay(c)
    BY <2>1, <2>2, <2>3 DEF OnTheWay, Chain, Reach, Finish
  <2>5. Words(c) /\ Buffers(c) /\ InTurn(c)
    BY <2>1, <2>2, <2>3 DEF Words, Buffers, InTurn, Busy
  <2> QED
    BY <2>4, <2>5 DEF Faithful
<1> QED
  BY <1>1, <1>2 DEF ForkInv

\* What becomes of the others, and of the parent, does not touch a connection.
LEMMA Undisturbed ==
    ASSUME NEW b \in Clients, Faithful(b), program' = program,
           client'[b] = client[b], typed'[b] = typed[b], recvbuf'[b] = recvbuf[b],
           sendrecvbuf'[b] = sendrecvbuf[b], owed'[b] = owed[b],
           output'[b] = output[b], toServer'[b] = toServer[b],
           toClient'[b] = toClient[b], child'[b] = "echo" <=> child[b] = "echo",
           Closed(b) => Closed(b)'
    PROVE  Faithful(b)'
<1>1. /\ Back(b)' = Back(b) /\ Rest(b)' = Rest(b) /\ Stream(b)' = Stream(b)
      /\ Start(b)' = Start(b) /\ Whole' = Whole /\ Busy(b)' = Busy(b)
  BY DEF Back, Rest, Stream, Start, Whole, Plain, Busy, Message
<1>2. ASSUME client[b] # "ended" PROVE Faithful(b)'
  <2>1. Words(b) /\ Buffers(b) /\ OnTheWay(b) /\ (Whole => InTurn(b))
    BY <1>2 DEF Faithful
  <2>2. Words(b)'
    BY <1>1, <2>1 DEF Words
  <2>3. Buffers(b)'
    BY <1>1, <2>1 DEF Buffers
  <2>4. OnTheWay(b)'
    BY <1>1, <2>1 DEF OnTheWay, Chain
  <2>5. Whole' => InTurn(b)'
    BY <1>1, <2>1 DEF InTurn
  <2> QED
    BY <2>2, <2>3, <2>4, <2>5 DEF Faithful
<1>3. client[b] = "ended" => Faithful(b)'
  BY DEF Faithful
<1> QED
  BY <1>2, <1>3

\* A connection that is closed stays so.
LEMMA ClosedOfParent ==
    ASSUME ForkTypes, OneChild, Parent, NEW b \in Clients, Closed(b)
    PROVE  Closed(b)'
<1>0. backlog \in Seq(Clients) /\ None \notin Clients
  BY ForkAssumption DEF ForkTypes
<1>1. Listening
  BY DEF Parent, Goes, Accept, AcceptFails, Fork, ForkFails, CloseConn, Listening
<1>2. ~ Queued(b) /\ conn # b /\ child[b] \in {"none", "done"}
  BY <1>1 DEF Closed, Held
<1>3. CASE Accept
  <2>1. /\ backlog # << >> /\ conn' = Head(backlog) /\ backlog' = Tail(backlog)
        /\ child' = child
    BY <1>3 DEF Accept, children
  <2>2. /\ Head(backlog) = backlog[1] /\ 1 \in 1 .. Len(backlog)
        /\ Len(Tail(backlog)) = Len(backlog) - 1
        /\ \A k \in 1 .. Len(Tail(backlog)) : Tail(backlog)[k] = backlog[k + 1]
    BY <1>0, <2>1, HeadTailProperties
  <2>3. conn' # b
    BY <1>2, <2>1, <2>2 DEF Queued
  <2>4. ~ Queued(b)'
    <3>1. ASSUME NEW k \in 1 .. Len(backlog') PROVE backlog'[k] # b
      <4>1. k \in 1 .. Len(Tail(backlog)) /\ k + 1 \in 1 .. Len(backlog)
        BY <1>0, <2>1, <2>2
      <4>2. backlog'[k] = backlog[k + 1]
        BY <2>1, <2>2, <4>1
      <4> QED
        BY <1>2, <4>1, <4>2 DEF Queued
    <3> QED
      BY <3>1 DEF Queued
  <2> QED
    BY <1>2, <2>1, <2>3, <2>4 DEF Closed, Held
<1>4. CASE Fork
  BY <1>2, <1>4 DEF Fork, ForkTypes, Closed, Held, Queued
<1>5. CASE ForkFails \/ CloseConn
  BY <1>0, <1>2, <1>5 DEF ForkFails, CloseConn, children, Closed, Held, Queued
<1>6. CASE AcceptFails
  BY <1>2, <1>6 DEF AcceptFails, children, Closed, Held, Queued
<1> QED
  BY <1>3, <1>4, <1>5, <1>6 DEF Parent, Goes

LEMMA ClosedOfChild ==
    ASSUME ForkTypes, NEW c \in Clients, Child(c), NEW b \in Clients, Closed(b)
    PROVE  Closed(b)'
<1>1. /\ UNCHANGED parent
      /\ child[c] \in {"start", "read", "echo"}
      /\ child'[c] \in {"read", "echo", "done"}
      /\ \A a \in Clients \ {c} : child'[a] = child[a]
  <2>1. CASE CloseListenfd(c)
    BY <2>1 DEF CloseListenfd, ForkTypes
  <2>2. CASE ChildReads(c)
    BY <2>2 DEF ChildReads, ForkTypes
  <2>3. CASE ChildReadsFull(c)
    BY <2>3 DEF ChildReadsFull, ForkTypes
  <2>4. CASE ChildEnds(c)
    BY <2>4 DEF ChildEnds, ForkTypes
  <2>5. CASE ChildWrites(c)
    BY <2>5 DEF ChildWrites, ForkTypes
  <2>6. CASE ChildWritesInVain(c)
    BY <2>6 DEF ChildWritesInVain, ForkTypes
  <2> QED
    BY <2>1, <2>2, <2>3, <2>4, <2>5, <2>6 DEF Child
<1>2. Queued(b)' = Queued(b) /\ conn' = conn /\ ppc' = ppc
  BY <1>1 DEF Queued, parent
<1>3. CASE Queued(b)
  <2>1. ~ Listening
    BY <1>3 DEF Closed
  <2>2. ~ Listening'
    BY <1>1, <1>2, <2>1 DEF Listening
  <2> QED
    BY <1>2, <1>3, <2>2 DEF Closed
<1>4. CASE ~ Queued(b)
  <2>1. ~ Held(b)
    BY <1>4 DEF Closed
  <2>2. b # c
    BY <1>1, <2>1 DEF Held
  <2>3. ~ Held(b)'
    BY <1>1, <1>2, <2>1, <2>2 DEF Held
  <2> QED
    BY <1>2, <1>4, <2>3 DEF Closed
<1> QED
  BY <1>3, <1>4

LEMMA ClosedOfClient ==
    ASSUME ForkTypes, NEW c \in Clients, Client(c), NEW b \in Clients, Closed(b),
           ~ (b = c /\ Connect(c))
    PROVE  Closed(b)'
<1>1. CASE Connect(c)
  <2>1. backlog' = Append(backlog, c) /\ UNCHANGED <<ppc, conn, child>> /\ b # c
    BY <1>1 DEF Connect, children
  <2>2. Queued(b)' <=> Queued(b)
    <3>1. backlog \in Seq(Clients) /\ Len(backlog) \in Nat
      BY DEF ForkTypes
    <3>2. /\ Len(backlog') = Len(backlog) + 1
          /\ \A k \in 1 .. Len(backlog) : backlog'[k] = backlog[k]
          /\ backlog'[Len(backlog) + 1] = c
      BY <2>1, <3>1
    <3>3. \A k \in 1 .. Len(backlog') : k \in 1 .. Len(backlog) \/ k = Len(backlog) + 1
      BY <3>1, <3>2
    <3>4. 1 .. Len(backlog) \subseteq 1 .. Len(backlog')
      BY <3>1, <3>2
    <3> QED
      BY <2>1, <3>2, <3>3, <3>4 DEF Queued
  <2> QED
    BY <2>1, <2>2 DEF Closed, Held, Listening
<1>2. CASE ~ Connect(c)
  <2>1. UNCHANGED <<parent, child>>
    BY <1>2 DEF Client, Type, Runs, ClientWrites, ClientReads, ClientReadsFull,
                ServerClosed, GoesOnUnaware, Leave, children
  <2> QED
    BY <2>1 DEF Closed, Held, Listening, Queued, parent
<1> QED
  BY <1>1, <1>2


\* The kernel's buffers and the programs' hold bytes.
LEMMA BytesMoved ==
    ASSUME NEW f \in [Clients -> Seq(Nat)], NEW c \in Clients, NEW k \in 0 .. Len(f[c])
    PROVE  /\ SubSeq(f[c], 1, k) \in Seq(Nat) /\ SubSeq(f[c], k + 1, Len(f[c])) \in Seq(Nat)
           /\ [f EXCEPT ![c] = SubSeq(@, k + 1, Len(@))] \in [Clients -> Seq(Nat)]
           /\ \A g \in [Clients -> Seq(Nat)] :
                 [g EXCEPT ![c] = @ \o SubSeq(f[c], 1, k)] \in [Clients -> Seq(Nat)]
<1>1. f[c] \in Seq(Nat)
  OBVIOUS
<1>2. SubSeq(f[c], 1, k) \in Seq(Nat) /\ SubSeq(f[c], k + 1, Len(f[c])) \in Seq(Nat)
  BY <1>1, CutInTwo
<1>3. \A s \in Seq(Nat) : s \o SubSeq(f[c], 1, k) \in Seq(Nat)
  BY <1>2, ConcatProperties
<1> QED
  BY <1>2, <1>3

\* How many bytes a read takes, and a write.
LEMMA Amounts ==
    ASSUME ForkTypes, NEW buf \in Seq(Nat), NEW wire \in Seq(Nat)
    PROVE  /\ \A k \in Takes(buf, wire) : k \in 1 .. Len(wire)
           /\ Writable(buf, wire) > 0 => Writable(buf, wire) \in 1 .. Len(buf)
<1>1. \A k \in Takes(buf, wire) : k \in 1 .. Len(wire)
  <2>1. CASE program = "packet"
    <3>1. ASSUME NEW k \in PacketTakes(buf, wire) PROVE k \in 1 .. Len(wire)
      <4>1. Asked(buf) - Len(buf) \in Int
        <5>1. LENGTH \in Nat /\ Len(buf) \in Nat
          BY ForkAssumption
        <5>2. ~ Len(buf) < LENGTH => buf[1] \in Nat
          BY <5>1, ForkAssumption, ElementOfSeq
        <5> QED
          BY <5>1, <5>2 DEF Asked
      <4> QED
        BY <4>1 DEF PacketTakes, Lesser
    <3> QED
      BY <2>1, <3>1 DEF Takes, Plain
  <2>2. CASE program = "line"
    BY <2>2 DEF Takes, LineTakes, Plain
  <2>3. CASE Plain
    <3>1. MAXLINE \in Nat /\ Len(wire) \in Nat
      BY ForkAssumption
    <3>2. Takes(buf, wire) = PlainTakes(wire)
      BY <2>3 DEF Takes, Plain
    <3> QED
      BY <3>1, <3>2 DEF PlainTakes, Lesser
  <2> QED
    BY <2>1, <2>2, <2>3 DEF ForkTypes, Programs, Plain
<1>2. Writable(buf, wire) > 0 => Writable(buf, wire) \in 1 .. Len(buf)
  <2>1. SOCKBUF \in Nat /\ Len(buf) \in Nat /\ Len(wire) \in Nat
    BY ForkAssumption
  <2> QED
    BY <2>1 DEF Writable, Lesser
<1> QED
  BY <1>1, <1>2

----------------------------------------------------------------------------
(* The parent                                                              *)

LEMMA TypesOfParent ==
    ASSUME ForkTypes, OneChild, Parent, UNCHANGED program
    PROVE  ForkTypes' /\ OneChild'
<1>0. /\ backlog \in Seq(Clients) /\ Len(backlog) \in Nat
      /\ \A k \in 1 .. Len(backlog) : backlog[k] \in Clients
      /\ None \notin Clients
  BY ForkAssumption, ElementOfSeq DEF ForkTypes
<1>1. CASE Accept
  <2>1. /\ backlog # << >> /\ conn' = Head(backlog) /\ backlog' = Tail(backlog)
        /\ ppc' = "fork" /\ UNCHANGED <<children, clients, wires>>
    BY <1>1 DEF Accept
  <2>2. /\ Head(backlog) = backlog[1] /\ 1 \in 1 .. Len(backlog)
        /\ Tail(backlog) \in Seq(Clients) /\ Len(Tail(backlog)) = Len(backlog) - 1
        /\ \A k \in 1 .. Len(Tail(backlog)) : Tail(backlog)[k] = backlog[k + 1]
    BY <1>0, <2>1, HeadTailProperties
  <2>3. \A k \in 1 .. Len(backlog') : k + 1 \in 1 .. Len(backlog) /\ k + 1 # 1
                                      /\ backlog'[k] = backlog[k + 1]
    BY <1>0, <2>1, <2>2
  <2>4. ForkTypes'
    BY <1>0, <2>1, <2>2 DEF ForkTypes, children, clients, wires
  <2>5. conn' = backlog[1] /\ conn' \in Clients
    BY <1>0, <2>1, <2>2
  <2>6. \A k \in 1 .. Len(backlog') :
           backlog'[k] # conn' /\ client[backlog'[k]] # "none" /\ child[backlog'[k]] = "none"
    BY <2>2, <2>3, <2>5 DEF OneChild
  <2>7. \A j, k \in 1 .. Len(backlog') : backlog'[j] = backlog'[k] => j = k
    <3> SUFFICES ASSUME NEW j \in 1 .. Len(backlog'), NEW k \in 1 .. Len(backlog'),
                        backlog'[j] = backlog'[k]
                 PROVE  j = k
      OBVIOUS
    <3>1. j + 1 = k + 1
      BY <2>3 DEF OneChild
    <3> QED
      BY <3>1
  <2>8. client[conn'] # "none" /\ child[conn'] = "none"
    BY <2>2, <2>5 DEF OneChild
  <2> QED
    BY <1>0, <2>1, <2>4, <2>5, <2>6, <2>7, <2>8 DEF OneChild, children, clients
<1>2. CASE Fork
  <2>1. /\ ppc = "fork" /\ child' = [child EXCEPT ![conn] = "start"] /\ ppc' = "close"
        /\ UNCHANGED <<conn, backlog, recvbuf, clients, wires>>
    BY <1>2 DEF Fork
  <2>2. ForkTypes'
    BY <2>1 DEF ForkTypes, clients, wires
  <2>3. conn \in Clients /\ client[conn] # "none"
    BY <2>1 DEF OneChild, ForkTypes
  <2>4. /\ child'[conn] = "start"
        /\ \A c \in Clients \ {conn} : child'[c] = child[c]
    BY <2>1, <2>3 DEF ForkTypes
  <2>5. \A k \in 1 .. Len(backlog) : child'[backlog[k]] = "none"
    BY <1>0, <2>4 DEF OneChild
  <2> QED
    BY <2>1, <2>2, <2>3, <2>4, <2>5 DEF OneChild, clients
<1>3. CASE ForkFails \/ CloseConn
  <2>1. /\ ppc' \in {"dead", "accept"} /\ conn' = None
        /\ UNCHANGED <<backlog, children, clients, wires>>
    BY <1>3 DEF ForkFails, CloseConn
  <2>2. ForkTypes'
    BY <2>1 DEF ForkTypes, children, clients, wires
  <2> QED
    BY <1>0, <2>1, <2>2 DEF OneChild, children, clients
<1>4. CASE AcceptFails
  <2>1. ppc' = "dead" /\ UNCHANGED <<conn, backlog, children, clients, wires>>
    BY <1>4 DEF AcceptFails
  <2> QED
    BY <2>1 DEF ForkTypes, OneChild, children, clients, wires
<1> QED
  BY <1>1, <1>2, <1>3, <1>4 DEF Parent, Goes

LEMMA ForkInvOfParent ==
    ASSUME ForkInv, Parent, UNCHANGED program
    PROVE  ForkInv' /\ UNCHANGED <<clients, wires, recvbuf>>
<1>1. ForkTypes /\ OneChild /\ UNCHANGED <<clients, wires, recvbuf>>
  BY DEF ForkInv, Parent, Goes, Accept, AcceptFails, Fork, ForkFails, CloseConn, children
<1>2. \A b \in Clients : child'[b] = "echo" <=> child[b] = "echo"
  <2>1. CASE Fork
    <3>1. child' = [child EXCEPT ![conn] = "start"] /\ child[conn] = "none"
      BY <1>1, <2>1 DEF Fork, OneChild
    <3> QED
      BY <1>1, <3>1 DEF ForkTypes
  <2>2. CASE ~ Fork
    BY <2>2 DEF Parent, Goes, Accept, AcceptFails, ForkFails, CloseConn, children
  <2> QED
    BY <2>1, <2>2
<1>3. ASSUME NEW b \in Clients PROVE Faithful(b)'
  <2>1. Faithful(b) /\ (Closed(b) => Closed(b)')
    BY <1>1, ClosedOfParent DEF ForkInv
  <2> QED
    BY <1>1, <1>2, <2>1, Undisturbed DEF clients, wires
<1> QED
  BY <1>1, <1>3, TypesOfParent DEF ForkInv


----------------------------------------------------------------------------
(* A child                                                                 *)

\* Where a child's step takes it, and what it leaves alone.
LEMMA ChildMoves ==
    ASSUME ForkTypes, NEW c \in Clients, Child(c)
    PROVE  /\ UNCHANGED <<parent, client, typed, sendrecvbuf, output>>
           /\ ChildReadsFull(c) \/ UNCHANGED owed
           /\ child[c] \in {"start", "read", "echo"}
           /\ child' \in [Clients -> {"none", "start", "read", "echo", "done"}]
           /\ child'[c] \in {"read", "echo", "done"}
           /\ child'[c] = "done" => client[c] = "ended"
           /\ \A b \in Clients \ {c} : child'[b] = child[b]
<1>1. CASE CloseListenfd(c)
  BY <1>1 DEF CloseListenfd, ForkTypes, clients
<1>2. CASE ChildReads(c)
  BY <1>2 DEF ChildReads, ForkTypes, clients
<1>3. CASE ChildReadsFull(c)
  BY <1>3 DEF ChildReadsFull, ForkTypes
<1>4. CASE ChildEnds(c)
  BY <1>4 DEF ChildEnds, ForkTypes, clients
<1>5. CASE ChildWrites(c)
  BY <1>5 DEF ChildWrites, ForkTypes, clients
<1>6. CASE ChildWritesInVain(c)
  BY <1>6 DEF ChildWritesInVain, ForkTypes, clients
<1> QED
  BY <1>1, <1>2, <1>3, <1>4, <1>5, <1>6 DEF Child

\* And which bytes it moves.
ChildMovesBytes(c) ==
    /\ recvbuf' \in [Clients -> Seq(Nat)] /\ toServer' \in [Clients -> Seq(Nat)]
    /\ toClient' \in [Clients -> Seq(Nat)] /\ owed' \in [Clients -> Seq(Nat)]
    /\ \A b \in Clients \ {c} : /\ recvbuf'[b] = recvbuf[b]
                                /\ toServer'[b] = toServer[b]
                                /\ toClient'[b] = toClient[b]
                                /\ owed'[b] = owed[b]

LEMMA ChildReadsBytes ==
    ASSUME ForkTypes, NEW c \in Clients, ChildReads(c)
    PROVE  /\ ChildMovesBytes(c) /\ UNCHANGED toClient
           /\ \E k \in 1 .. Len(toServer[c]) :
                 Passes(recvbuf[c], toServer[c], k, recvbuf'[c], toServer'[c])
<1>1. PICK k \in Takes(recvbuf[c], toServer[c]) :
         /\ recvbuf' = [recvbuf EXCEPT ![c] = @ \o SubSeq(toServer[c], 1, k)]
         /\ toServer' = [toServer EXCEPT ![c] = SubSeq(@, k + 1, Len(@))]
         /\ UNCHANGED <<toClient, owed>>
  BY DEF ChildReads, clients
<1>2. /\ recvbuf \in [Clients -> Seq(Nat)] /\ toServer \in [Clients -> Seq(Nat)]
      /\ toClient \in [Clients -> Seq(Nat)] /\ owed \in [Clients -> Seq(Nat)]
  BY DEF ForkTypes
<1>3. k \in 1 .. Len(toServer[c]) /\ k \in 0 .. Len(toServer[c])
  BY <1>2, Amounts
<1>4. recvbuf' \in [Clients -> Seq(Nat)] /\ toServer' \in [Clients -> Seq(Nat)]
  BY <1>1, <1>2, <1>3, BytesMoved
<1>5. /\ recvbuf'[c] = recvbuf[c] \o SubSeq(toServer[c], 1, k)
      /\ toServer'[c] = SubSeq(toServer[c], k + 1, Len(toServer[c]))
      /\ \A b \in Clients \ {c} : recvbuf'[b] = recvbuf[b] /\ toServer'[b] = toServer[b]
  BY <1>1, <1>2
<1> QED
  BY <1>1, <1>2, <1>3, <1>4, <1>5 DEF ChildMovesBytes, Passes

LEMMA ChildWritesBytes ==
    ASSUME ForkTypes, NEW c \in Clients, ChildWrites(c)
    PROVE  /\ ChildMovesBytes(c) /\ UNCHANGED toServer
           /\ \E k \in 1 .. Len(recvbuf[c]) :
                 Passes(toClient[c], recvbuf[c], k, toClient'[c], recvbuf'[c])
<1>1. PICK k : /\ k = Writable(recvbuf[c], toClient[c]) /\ k > 0
               /\ toClient' = [toClient EXCEPT ![c] = @ \o SubSeq(recvbuf[c], 1, k)]
               /\ recvbuf' = [recvbuf EXCEPT ![c] = SubSeq(@, k + 1, Len(@))]
               /\ UNCHANGED <<toServer, owed>>
  BY DEF ChildWrites, clients
<1>2. /\ recvbuf \in [Clients -> Seq(Nat)] /\ toServer \in [Clients -> Seq(Nat)]
      /\ toClient \in [Clients -> Seq(Nat)] /\ owed \in [Clients -> Seq(Nat)]
  BY DEF ForkTypes
<1>3. k \in 1 .. Len(recvbuf[c]) /\ k \in 0 .. Len(recvbuf[c])
  BY <1>1, <1>2, Amounts
<1>4. recvbuf' \in [Clients -> Seq(Nat)] /\ toClient' \in [Clients -> Seq(Nat)]
  BY <1>1, <1>2, <1>3, BytesMoved
<1>5. /\ toClient'[c] = toClient[c] \o SubSeq(recvbuf[c], 1, k)
      /\ recvbuf'[c] = SubSeq(recvbuf[c], k + 1, Len(recvbuf[c]))
      /\ \A b \in Clients \ {c} : recvbuf'[b] = recvbuf[b] /\ toClient'[b] = toClient[b]
  BY <1>1, <1>2
<1> QED
  BY <1>1, <1>2, <1>3, <1>4, <1>5 DEF ChildMovesBytes, Passes

LEMMA ChildBytes ==
    ASSUME ForkTypes, NEW c \in Clients, Child(c), ~ ChildReadsFull(c)
    PROVE  ChildMovesBytes(c)
<1>1. CASE CloseListenfd(c) \/ ChildEnds(c)
  BY <1>1 DEF CloseListenfd, ChildEnds, ChildMovesBytes, ForkTypes, clients, wires
<1>2. CASE ChildWritesInVain(c)
  BY <1>2, EmptySeq DEF ChildWritesInVain, ChildMovesBytes, ForkTypes, clients, wires
<1> QED
  BY <1>1, <1>2, ChildReadsBytes, ChildWritesBytes DEF Child

LEMMA TypesOfChild ==
    ASSUME ForkTypes, OneChild, NEW c \in Clients, Child(c), ChildMovesBytes(c),
           UNCHANGED program
    PROVE  ForkTypes' /\ OneChild'
<1>1. ForkTypes'
  BY ChildMoves DEF ForkTypes, ChildMovesBytes, parent
<1>2. \A k \in 1 .. Len(backlog) : backlog[k] \in Clients /\ child[backlog[k]] = "none"
  BY ElementOfSeq DEF ForkTypes, OneChild
<1>3. \A b \in Clients : child[b] = "none" => child'[b] = "none"
  BY ChildMoves
<1>4. ppc = "fork" => conn \in Clients /\ child'[conn] = "none"
  BY <1>3 DEF ForkTypes, OneChild
<1> QED
  BY <1>1, <1>2, <1>3, <1>4, ChildMoves DEF OneChild, parent

----------------------------------------------------------------------------
(* A connection's bytes                                                    *)

\* What the chain is made of.
LEMMA ChainOf ==
    ASSUME ForkTypes, NEW c \in Clients, Words(c)
    PROVE  /\ Stream(c) \in Seq(Nat) /\ Start(c) \in Nat
           /\ Back(c) \in Seq(Nat) /\ Rest(c) \in Seq(Nat)
           /\ toClient[c] \in Seq(Nat) /\ recvbuf[c] \in Seq(Nat) /\ toServer[c] \in Seq(Nat)
           /\ owed[c] \in Seq(Nat) /\ output[c] \in Seq(Nat) /\ sendrecvbuf[c] \in Seq(Nat)
           /\ Whole /\ Busy(c) => /\ IsLine(Lines[c][typed[c]])
                                  /\ Stream(c) = Message(Lines[c][typed[c]])
<1>1. Whole /\ Busy(c) => /\ IsLine(Lines[c][typed[c]])
                          /\ Stream(c) = Message(Lines[c][typed[c]])
  BY LinesAre DEF Words, Stream
<1>2. Stream(c) \in Seq(Nat)
  <2>1. CASE Whole /\ Busy(c)
    BY <1>1, <2>1, MessageIs
  <2>2. CASE ~ (Whole /\ Busy(c))
    BY <2>2, EmptySeq DEF Stream, ForkTypes
  <2> QED
    BY <2>1, <2>2
<1>3. Back(c) \in Seq(Nat) /\ Rest(c) \in Seq(Nat) /\ Start(c) \in Nat
  BY EmptySeq DEF Back, Rest, Start, ForkTypes
<1> QED
  BY <1>1, <1>2, <1>3 DEF ForkTypes

\* What a chain that does not follow the client's own steps is made of.
LEMMA ChainStands ==
    ASSUME NEW c \in Clients, program' = program, client'[c] = client[c],
           typed'[c] = typed[c], sendrecvbuf'[c] = sendrecvbuf[c],
           owed'[c] = owed[c], output'[c] = output[c]
    PROVE  /\ Back(c)' = Back(c) /\ Rest(c)' = Rest(c) /\ Stream(c)' = Stream(c)
           /\ Start(c)' = Start(c) /\ Whole' = Whole /\ Busy(c)' = Busy(c)
           /\ Words(c) => Words(c)'
<1>1. /\ Back(c)' = Back(c) /\ Rest(c)' = Rest(c) /\ Stream(c)' = Stream(c)
      /\ Start(c)' = Start(c) /\ Whole' = Whole /\ Busy(c)' = Busy(c)
  BY DEF Back, Rest, Stream, Start, Whole, Plain, Busy, Message
<1> QED
  BY <1>1 DEF Words

\* The child reads a part of what is on the way to it; when its message is
\* whole, nothing more is.
LEMMA FaithfulOfChildReads ==
    ASSUME ForkTypes, NEW c \in Clients, Faithful(c), ChildReads(c),
           UNCHANGED program, Closed(c) => Closed(c)', client[c] # "ended"
    PROVE  Faithful(c)'
<1>1. /\ UNCHANGED <<clients, toClient>>
      /\ child'[c] = IF IsWhole(recvbuf'[c]) THEN "echo" ELSE "read"
  BY DEF ChildReads, ForkTypes
<1>2. PICK k \in 1 .. Len(toServer[c]) :
         Passes(recvbuf[c], toServer[c], k, recvbuf'[c], toServer'[c])
  BY ChildReadsBytes
<1>3. Words(c) /\ Buffers(c) /\ OnTheWay(c) /\ (Whole => InTurn(c))
  BY DEF Faithful
<1>4. /\ Stream(c) \in Seq(Nat) /\ Start(c) \in Nat
      /\ Back(c) \in Seq(Nat) /\ Rest(c) \in Seq(Nat)
      /\ toClient[c] \in Seq(Nat) /\ recvbuf[c] \in Seq(Nat) /\ toServer[c] \in Seq(Nat)
  BY <1>3, ChainOf
<1>5. /\ Back(c)' = Back(c) /\ Rest(c)' = Rest(c) /\ Stream(c)' = Stream(c)
      /\ Start(c)' = Start(c) /\ Whole' = Whole /\ Words(c)'
      /\ toClient'[c] = toClient[c] /\ client'[c] = client[c]
      /\ sendrecvbuf'[c] = sendrecvbuf[c]
  BY <1>1, <1>3, ChainStands DEF clients
<1>6. Chain(Stream(c), Start(c), Back(c), toClient[c], recvbuf[c], toServer[c])
  BY <1>3 DEF OnTheWay
<1>7. /\ Chain(Stream(c), Start(c), Back(c), toClient[c], recvbuf'[c], toServer'[c])
      /\ Reach(Start(c), Back(c), toClient[c], recvbuf'[c], toServer'[c])
            = Reach(Start(c), Back(c), toClient[c], recvbuf[c], toServer[c])
  BY <1>2, <1>6, IntoTheChild
<1>8. OnTheWay(c)'
  BY <1>3, <1>5, <1>7 DEF OnTheWay
<1>9. recvbuf'[c] # << >>
  <2>1. SubSeq(toServer[c], 1, k) \in Seq(Nat) /\ Len(SubSeq(toServer[c], 1, k)) = k
    BY <1>4, CutInTwo
  <2>2. SubSeq(toServer[c], 1, k) # << >>
    BY <2>1, EmptySeq
  <2>3. recvbuf'[c] = recvbuf[c] \o SubSeq(toServer[c], 1, k)
    BY <1>2 DEF Passes
  <2> QED
    BY <1>4, <2>1, <2>2, <2>3, ConcatEqualIffEmpty
<1>10. Buffers(c)'
  BY <1>3, <1>5, <1>9 DEF Buffers
<1>11. ASSUME Whole PROVE InTurn(c)'
  <2>1. toServer[c] # << >>
    BY <1>4, EmptySeq
  <2>2. Back(c) = << >> /\ toClient[c] = << >>
    BY <1>3, <1>11, <2>1 DEF InTurn
  <2>3. ASSUME child'[c] = "echo" PROVE toServer'[c] = << >> /\ Rest(c) = << >>
    <3>1. IsWhole(recvbuf'[c])
      BY <1>1, <2>3
    <3>2. Start(c) = 0 /\ Len(Back(c)) = 0 /\ Len(toClient[c]) = 0
      BY <1>11, <2>2, EmptySeq DEF Start
    <3>3. Lies(recvbuf'[c], Stream(c), 0)
      BY <1>7, <3>2 DEF Chain
    <3>4. Busy(c)
      <4>1. Len(recvbuf'[c]) \in Nat \ {0} /\ Len(recvbuf'[c]) <= Len(Stream(c))
        BY <1>7, <1>9, <3>3, EmptySeq DEF Lies
      <4>2. Stream(c) # << >>
        BY <4>1, EmptySeq
      <4> QED
        BY <1>11, <4>2 DEF Stream
    <3>5. recvbuf'[c] = Stream(c)
      <4>1. recvbuf'[c] \in Seq(Nat)
        BY <1>7 DEF Chain
      <4> QED
        BY <1>3, <1>9, <1>11, <3>1, <3>3, <3>4, <4>1, ChainOf, WholeIsAll
    <3>6. ((Start(c) + Len(Back(c))) + Len(toClient[c])) + Len(recvbuf'[c]) = Len(Stream(c))
      BY <1>4, <3>2, <3>5
    <3>7. Finish(Stream(c), Reach(Start(c), Back(c), toClient[c], recvbuf'[c],
                                  toServer'[c]), Rest(c))
      BY <1>3, <1>7, <1>11 DEF OnTheWay
    <3> QED
      BY <1>7, <3>6, <3>7, NothingBehind
  <2> QED
    BY <1>5, <2>2, <2>3 DEF InTurn
<1> QED
  BY <1>5, <1>8, <1>10, <1>11 DEF Faithful

\* The child writes a part of the message back.
LEMMA FaithfulOfChildWrites ==
    ASSUME ForkTypes, NEW c \in Clients, Faithful(c), ChildWrites(c),
           UNCHANGED program, Closed(c) => Closed(c)'
    PROVE  Faithful(c)'
<1>1. /\ UNCHANGED <<clients, toServer>> /\ client[c] # "ended" /\ child[c] = "echo"
      /\ child'[c] = IF recvbuf'[c] = << >> THEN "read" ELSE "echo"
  BY DEF ChildWrites, ForkTypes
<1>2. PICK k \in 1 .. Len(recvbuf[c]) :
         Passes(toClient[c], recvbuf[c], k, toClient'[c], recvbuf'[c])
  BY ChildWritesBytes
<1>3. Words(c) /\ Buffers(c) /\ OnTheWay(c) /\ (Whole => InTurn(c))
  BY <1>1 DEF Faithful
<1>4. /\ Stream(c) \in Seq(Nat) /\ Start(c) \in Nat
      /\ Back(c) \in Seq(Nat) /\ Rest(c) \in Seq(Nat)
      /\ toClient[c] \in Seq(Nat) /\ recvbuf[c] \in Seq(Nat) /\ toServer[c] \in Seq(Nat)
  BY <1>3, ChainOf
<1>5. /\ Back(c)' = Back(c) /\ Rest(c)' = Rest(c) /\ Stream(c)' = Stream(c)
      /\ Start(c)' = Start(c) /\ Whole' = Whole /\ Words(c)'
      /\ toServer'[c] = toServer[c] /\ client'[c] = client[c]
      /\ sendrecvbuf'[c] = sendrecvbuf[c]
  BY <1>1, <1>3, ChainStands DEF clients
<1>6. Chain(Stream(c), Start(c), Back(c), toClient[c], recvbuf[c], toServer[c])
  BY <1>3 DEF OnTheWay
<1>7. /\ Chain(Stream(c), Start(c), Back(c), toClient'[c], recvbuf'[c], toServer[c])
      /\ Reach(Start(c), Back(c), toClient'[c], recvbuf'[c], toServer[c])
            = Reach(Start(c), Back(c), toClient[c], recvbuf[c], toServer[c])
  BY <1>2, <1>6, DownTheWire
<1>8. OnTheWay(c)'
  BY <1>3, <1>5, <1>7 DEF OnTheWay
<1>9. Buffers(c)'
  BY <1>1, <1>3, <1>5 DEF Buffers
<1>10. ASSUME Whole PROVE InTurn(c)'
  BY <1>1, <1>3, <1>5, <1>10 DEF InTurn
<1> QED
  BY <1>5, <1>8, <1>9, <1>10 DEF Faithful

\* The child reads a string that fills its buffer: what it adds is owed from
\* then on, at its place in the echo.
LEMMA FaithfulOfChildReadsFull ==
    ASSUME ForkTypes, NEW c \in Clients, Faithful(c), ChildReadsFull(c),
           UNCHANGED program, Closed(c) => Closed(c)'
    PROVE  /\ Faithful(c)' /\ ChildMovesBytes(c)
           /\ \E k \in Len(output[c]) + MAXLINE .. Len(owed[c]) :
                 owed' = [owed EXCEPT ![c] = InsertAt(owed[c], k + 1, Beyond)]
<1>1. /\ UNCHANGED <<client, typed, sendrecvbuf, output, toClient>>
      /\ client[c] # "ended" /\ child'[c] = "echo"
      /\ MAXLINE \in 1 .. Len(toServer[c]) /\ ~ Whole
  BY ForkAssumption DEF ChildReadsFull, ForkTypes, Whole, Plain
<1>2. Words(c) /\ Buffers(c) /\ OnTheWay(c)
  BY <1>1 DEF Faithful
<1>3. /\ Stream(c) = owed[c] /\ Start(c) = Len(output[c])
      /\ Whole' = Whole /\ Stream(c)' = owed'[c] /\ Start(c)' = Len(output[c])
      /\ Back(c)' = Back(c) /\ Rest(c)' = Rest(c)
  BY <1>1 DEF Stream, Start, Back, Rest, Whole, Plain
<1>4. /\ owed[c] \in Seq(Nat) /\ output[c] \in Seq(Nat) /\ toClient[c] \in Seq(Nat)
      /\ recvbuf[c] \in Seq(Nat) /\ Back(c) = << >>
      /\ << >> \in Seq(Nat) /\ Len(<< >>) = 0 /\ Beyond \in Nat
  <2>1. Back(c) = << >>
    BY <1>1, <1>2 DEF Back, Buffers
  <2> QED
    BY <2>1, EmptySeq DEF ForkTypes, Beyond
<1>5. PICK held : held = recvbuf[c] \o SubSeq(toServer[c], 1, MAXLINE)
  OBVIOUS
<1>6. /\ recvbuf' = [recvbuf EXCEPT ![c] = Append(held, Beyond)]
      /\ toServer' = [toServer EXCEPT ![c] = SubSeq(@, MAXLINE + 1, Len(@))]
  BY <1>5 DEF ChildReadsFull, ForkTypes
<1>7. recvbuf'[c] = Append(held, Beyond)
  BY <1>6 DEF ForkTypes
<1>8. Passes(recvbuf[c], toServer[c], MAXLINE, held, toServer'[c])
  BY <1>1, <1>5, <1>6 DEF Passes, ForkTypes
<1>9. Chain(owed[c], Len(output[c]), << >>, toClient[c], recvbuf[c], toServer[c])
  BY <1>2, <1>3, <1>4 DEF OnTheWay
<1>10. /\ Chain(owed[c], Len(output[c]), << >>, toClient[c], held, toServer'[c])
       /\ Reach(Len(output[c]), << >>, toClient[c], held, toServer'[c])
             = Reach(Len(output[c]), << >>, toClient[c], recvbuf[c], toServer[c])
  BY <1>8, <1>9, IntoTheChild
<1>11. /\ held \in Seq(Nat) /\ Len(held) = Len(recvbuf[c]) + MAXLINE
       /\ toServer'[c] \in Seq(Nat)
  BY <1>8, <1>9, IntoTheChild
<1>12. PICK e \in Len(output[c]) + MAXLINE .. Len(owed[c]) :
          /\ e \in 0 .. Len(owed[c])
          /\ e = ((Len(output[c]) + Len(<< >>)) + Len(toClient[c])) + Len(held)
          /\ e + 1 = (Len(output[c]) + Len(toClient[c])) + Len(Append(held, Beyond))
  <2>1. PICK o \in Nat, w \in Nat, r \in Nat, m \in Nat, l \in Nat :
           /\ o = Len(output[c]) /\ w = Len(toClient[c]) /\ r = Len(recvbuf[c])
           /\ m = MAXLINE /\ l = Len(owed[c])
    <3>1. /\ Len(output[c]) \in Nat /\ Len(toClient[c]) \in Nat /\ Len(recvbuf[c]) \in Nat
          /\ MAXLINE \in Nat /\ Len(owed[c]) \in Nat
      BY <1>4, ForkAssumption
    <3> QED
      BY <3>1
  <2>2. Len(held) = r + m /\ Len(Append(held, Beyond)) = (r + m) + 1
    <3>1. Len(Append(held, Beyond)) = Len(held) + 1
      BY <1>4, <1>11
    <3> QED
      BY <1>11, <2>1, <3>1
  <2>3. ((o + 0) + w) + (r + m) <= l
    BY <1>4, <1>10, <2>1, <2>2 DEF Chain, Lies
  <2>4. PICK e \in o + m .. l : /\ e \in 0 .. l /\ e = ((o + 0) + w) + (r + m)
                               /\ e + 1 = (o + w) + ((r + m) + 1)
    <3>1. /\ ((o + 0) + w) + (r + m) \in o + m .. l
          /\ ((o + 0) + w) + (r + m) \in 0 .. l
          /\ (((o + 0) + w) + (r + m)) + 1 = (o + w) + ((r + m) + 1)
      BY <2>3
    <3> QED
      BY <3>1
  <2> QED
    BY <1>4, <2>1, <2>2, <2>4
<1>13. owed' = [owed EXCEPT ![c] = InsertAt(owed[c], e + 1, Beyond)]
  <2>1. owed' = [owed EXCEPT ![c] =
                    InsertAt(owed[c], (Len(output[c]) + Len(toClient[c])) + Len(recvbuf'[c]),
                             Beyond)]
    BY DEF ChildReadsFull, ForkTypes
  <2> QED
    BY <1>7, <1>12, <2>1
<1>14. Inserts(owed[c], e, Beyond, owed'[c])
  <2>1. owed'[c] = InsertAt(owed[c], e + 1, Beyond)
    BY <1>13 DEF ForkTypes
  <2> QED
    BY <1>4, <1>12, <2>1, Inserted
<1>15. /\ Append(held, Beyond) \in Seq(Nat)
       /\ Chain(owed'[c], Len(output[c]), << >>, toClient[c], recvbuf'[c], toServer'[c])
       /\ \A rest :
             Finish(owed[c], Reach(Len(output[c]), << >>, toClient[c], held, toServer'[c]),
                    rest)
             => Finish(owed'[c], Reach(Len(output[c]), << >>, toClient[c], recvbuf'[c],
                                       toServer'[c]), rest)
  BY <1>4, <1>7, <1>10, <1>12, <1>14, ChildSpills
<1>16. OnTheWay(c)'
  BY <1>1, <1>2, <1>3, <1>4, <1>10, <1>15 DEF OnTheWay
<1>17. Words(c)'
  <2>1. Lies(output[c], owed[c], 0) /\ 0 + Len(output[c]) <= e
    <3>1. Len(output[c]) \in Nat /\ MAXLINE \in Nat /\ Len(owed[c]) \in Nat
      BY <1>4, ForkAssumption
    <3>2. \A o \in Nat, m \in Nat, l \in Nat : e \in o + m .. l => 0 + o <= e
      OBVIOUS
    <3>3. 0 + Len(output[c]) <= e
      BY <3>1, <3>2
    <3> QED
      BY <1>1, <1>2, <3>3 DEF Words
  <2>2. Lies(output[c], owed'[c], 0)
    BY <1>4, <1>14, <2>1, LiesBefore
  <2>3. client[c] # "none"
    <3>1. owed[c] # << >>
      <4>1. Len(owed[c]) # 0
        <5>1. Len(output[c]) \in Nat /\ MAXLINE \in Nat \ {0} /\ Len(owed[c]) \in Nat
          BY <1>4, ForkAssumption
        <5>2. \A o \in Nat, m \in Nat \ {0}, l \in Nat : e \in o + m .. l => l # 0
          OBVIOUS
        <5> QED
          BY <5>1, <5>2
      <4> QED
        BY <4>1, EmptySeq
    <3> QED
      BY <1>2, <3>1 DEF Words
  <2> QED
    BY <1>1, <1>3, <2>2, <2>3 DEF Words
<1>18. Buffers(c)'
  <2>1. recvbuf'[c] # << >>
    <3>1. Len(recvbuf'[c]) # 0
      BY <1>4, <1>7, <1>11
    <3> QED
      BY <3>1, EmptySeq
  <2> QED
    BY <1>1, <1>2, <1>3, <2>1 DEF Buffers
<1>19. ChildMovesBytes(c)
  <2>1. owed'[c] \in Seq(Nat)
    BY <1>14 DEF Inserts
  <2> QED
    BY <1>1, <1>6, <1>11, <1>13, <1>15, <2>1 DEF ChildMovesBytes, ForkTypes
<1> QED
  BY <1>1, <1>3, <1>12, <1>13, <1>16, <1>17, <1>18, <1>19 DEF Faithful

\* Nothing reaches a client by its child that was not typed into it, but for
\* what an overrun adds.
LEMMA ForkInvOfChild ==
    ASSUME ForkInv, NEW c \in Clients, Child(c), UNCHANGED program
    PROVE  /\ ForkInv' /\ UNCHANGED <<client, typed, output>>
           /\ \/ UNCHANGED owed
              \/ /\ ~ Whole /\ client[c] # "ended"
                 /\ \E k \in Len(output[c]) + MAXLINE .. Len(owed[c]) :
                       owed' = [owed EXCEPT ![c] = InsertAt(owed[c], k + 1, Beyond)]
<1>1. /\ ForkTypes /\ OneChild /\ UNCHANGED <<client, typed, sendrecvbuf, output>>
      /\ ChildReadsFull(c) \/ UNCHANGED owed
      /\ \A b \in Clients : Faithful(b) /\ (Closed(b) => Closed(b)')
      /\ \A b \in Clients \ {c} : child'[b] = child[b]
  BY ClosedOfChild, ChildMoves DEF ForkInv
<1>2. ChildMovesBytes(c)
  BY <1>1, ChildBytes, FaithfulOfChildReadsFull
<1>3. ASSUME NEW b \in Clients \ {c} PROVE Faithful(b)'
  <2>1. /\ child'[b] = child[b] /\ recvbuf'[b] = recvbuf[b] /\ owed'[b] = owed[b]
        /\ toServer'[b] = toServer[b] /\ toClient'[b] = toClient[b]
    BY <1>1, <1>2 DEF ChildMovesBytes
  <2> QED
    BY <1>1, <2>1, Undisturbed
<1>4. ASSUME ~ ChildReadsFull(c) PROVE Faithful(c)'
  <2>1. CASE client[c] = "ended"
    BY <1>1, <2>1 DEF Faithful
  <2>2. CASE client[c] # "ended"
    <3>1. CASE CloseListenfd(c)
      <4>1. child[c] = "start" /\ child'[c] = "read" /\ UNCHANGED <<recvbuf, clients, wires>>
        BY <1>1, <3>1 DEF CloseListenfd, ForkTypes
      <4> QED
        BY <1>1, <4>1, Undisturbed DEF clients, wires
    <3>2. CASE ChildReads(c)
      BY <1>1, <2>2, <3>2, FaithfulOfChildReads
    <3>3. CASE ChildWrites(c)
      BY <1>1, <3>3, FaithfulOfChildWrites
    <3>4. ~ ChildEnds(c) /\ ~ ChildWritesInVain(c)
      BY <2>2 DEF ChildEnds, ChildWritesInVain
    <3> QED
      BY <1>4, <3>1, <3>2, <3>3, <3>4 DEF Child
  <2> QED
    BY <2>1, <2>2
<1>5. ASSUME ChildReadsFull(c)
      PROVE  /\ Faithful(c)' /\ ~ Whole /\ client[c] # "ended"
             /\ \E k \in Len(output[c]) + MAXLINE .. Len(owed[c]) :
                   owed' = [owed EXCEPT ![c] = InsertAt(owed[c], k + 1, Beyond)]
  <2>1. ~ Whole /\ client[c] # "ended"
    BY <1>5 DEF ChildReadsFull, Whole, Plain
  <2> QED
    BY <1>1, <1>5, <2>1, FaithfulOfChildReadsFull
<1>6. ForkTypes' /\ OneChild'
  BY <1>1, <1>2, TypesOfChild
<1> QED
  BY <1>1, <1>3, <1>4, <1>5, <1>6 DEF ForkInv


----------------------------------------------------------------------------
(* A client                                                                *)

\* What a client's step leaves alone.
ClientMovesBytes(c) ==
    /\ typed' \in [Clients -> Nat] /\ owed' \in [Clients -> Seq(Nat)]
    /\ output' \in [Clients -> Seq(Nat)] /\ sendrecvbuf' \in [Clients -> Seq(Nat)]
    /\ toServer' \in [Clients -> Seq(Nat)] /\ toClient' \in [Clients -> Seq(Nat)]
    /\ UNCHANGED recvbuf
    /\ \A b \in Clients \ {c} :
          /\ typed'[b] = typed[b] /\ owed'[b] = owed[b] /\ output'[b] = output[b]
          /\ sendrecvbuf'[b] = sendrecvbuf[b]
          /\ toServer'[b] = toServer[b] /\ toClient'[b] = toClient[b]

LEMMA ClientGoes ==
    ASSUME ForkTypes, NEW c \in Clients, Client(c)
    PROVE  /\ UNCHANGED <<ppc, conn, child>>
           /\ client[c] # "ended" /\ client'[c] # "none"
           /\ client' \in [Clients -> {"none", "type", "write", "read", "ended"}]
           /\ \A b \in Clients \ {c} : client'[b] = client[b]
           /\ IF client[c] = "none" THEN backlog' = Append(backlog, c)
                                    ELSE UNCHANGED backlog
<1>1. CASE Connect(c)
  BY <1>1 DEF Connect, ForkTypes, children
<1>2. CASE Type(c)
  BY <1>2 DEF Type, ForkTypes, parent, children
<1>3. CASE ClientWrites(c)
  BY <1>3 DEF ClientWrites, ForkTypes, parent, children
<1>4. CASE ClientReads(c)
  <2>1. /\ UNCHANGED <<ppc, conn, backlog, child>> /\ client[c] = "read"
        /\ client' = client \/ client' = [client EXCEPT ![c] = "type"]
    BY <1>4 DEF ClientReads, parent, children
  <2> QED
    BY <2>1 DEF ForkTypes
<1>5. CASE ServerClosed(c)
  BY <1>5 DEF ServerClosed, Deserted, ForkTypes, parent, children
<1>6. CASE GoesOnUnaware(c)
  BY <1>6 DEF GoesOnUnaware, Deserted, ForkTypes, parent, children
<1>7. CASE Leave(c)
  BY <1>7 DEF Leave, ForkTypes, parent, children
<1>8. CASE ClientReadsFull(c)
  BY <1>8 DEF ClientReadsFull, ForkTypes, parent, children
<1> QED
  BY <1>1, <1>2, <1>3, <1>4, <1>5, <1>6, <1>7, <1>8 DEF Client, Runs

\* fgets returns the next line, and its message is to be written.
LEMMA TypeMoves ==
    ASSUME ForkTypes, NEW c \in Clients, Type(c)
    PROVE  /\ ClientMovesBytes(c) /\ UNCHANGED <<toServer, toClient, output>>
           /\ client[c] = "type" /\ client'[c] = "write"
           /\ typed'[c] \in 1 .. Len(Lines[c]) /\ IsLine(Lines[c][typed'[c]])
           /\ owed'[c] = owed[c] \o Lines[c][typed'[c]]
           /\ sendrecvbuf'[c] = Message(Lines[c][typed'[c]])
<1>1. /\ client[c] = "type" /\ typed[c] < Len(Lines[c])
      /\ typed' = [typed EXCEPT ![c] = @ + 1]
      /\ client' = [client EXCEPT ![c] = "write"]
      /\ UNCHANGED <<parent, children, output, wires>>
  BY DEF Type
<1>2. PICK line : line = Lines[c][typed'[c]]
  OBVIOUS
<1>3. /\ owed' = [owed EXCEPT ![c] = @ \o line]
      /\ sendrecvbuf' = [sendrecvbuf EXCEPT ![c] = Message(line)]
  BY <1>2 DEF Type
<1>4. typed'[c] \in 1 .. Len(Lines[c]) /\ typed' \in [Clients -> Nat]
  <2>1. typed \in [Clients -> Nat] /\ Len(Lines[c]) \in Nat
    BY LinesAre DEF ForkTypes
  <2>2. typed'[c] = typed[c] + 1 /\ typed' \in [Clients -> Nat]
    BY <1>1, <2>1
  <2> QED
    BY <1>1, <2>1, <2>2
<1>5. IsLine(line)
  BY <1>2, <1>4, LinesAre
<1>6. line \in Seq(Nat) /\ Message(line) \in Seq(Nat)
  BY <1>5, MessageIs DEF IsLine
<1>7. owed[c] \o line \in Seq(Nat)
  BY <1>6, ConcatProperties DEF ForkTypes
<1>8. ClientMovesBytes(c)
  BY <1>1, <1>3, <1>4, <1>6, <1>7 DEF ClientMovesBytes, ForkTypes, children, wires
<1>9. client'[c] = "write" /\ UNCHANGED <<toServer, toClient, output>>
  BY <1>1 DEF ForkTypes, wires
<1>10. owed'[c] = owed[c] \o line /\ sendrecvbuf'[c] = Message(line)
  BY <1>3 DEF ForkTypes
<1> QED
  BY <1>1, <1>2, <1>4, <1>5, <1>8, <1>9, <1>10

LEMMA ClientWritesBytes ==
    ASSUME ForkTypes, NEW c \in Clients, ClientWrites(c)
    PROVE  /\ ClientMovesBytes(c) /\ UNCHANGED <<typed, owed, output, toClient>>
           /\ client[c] = "write" /\ ~ Closed(c)
           /\ client'[c] = IF sendrecvbuf'[c] = << >> THEN "read" ELSE "write"
           /\ \E k \in 1 .. Len(sendrecvbuf[c]) :
                 Passes(toServer[c], sendrecvbuf[c], k, toServer'[c], sendrecvbuf'[c])
<1>1. PICK k : /\ k = Writable(sendrecvbuf[c], toServer[c]) /\ k > 0
               /\ toServer' = [toServer EXCEPT ![c] = @ \o SubSeq(sendrecvbuf[c], 1, k)]
               /\ sendrecvbuf' = [sendrecvbuf EXCEPT ![c] = SubSeq(@, k + 1, Len(@))]
               /\ client[c] = "write" /\ ~ Closed(c)
               /\ UNCHANGED <<recvbuf, typed, owed, output, toClient>>
  BY DEF ClientWrites, children
<1>2. /\ sendrecvbuf \in [Clients -> Seq(Nat)] /\ toServer \in [Clients -> Seq(Nat)]
      /\ client'[c] = IF sendrecvbuf'[c] = << >> THEN "read" ELSE "write"
  BY DEF ForkTypes, ClientWrites
<1>3. k \in 1 .. Len(sendrecvbuf[c]) /\ k \in 0 .. Len(sendrecvbuf[c])
  BY <1>1, <1>2, Amounts
<1>4. sendrecvbuf' \in [Clients -> Seq(Nat)] /\ toServer' \in [Clients -> Seq(Nat)]
  BY <1>1, <1>2, <1>3, BytesMoved
<1>5. /\ toServer'[c] = toServer[c] \o SubSeq(sendrecvbuf[c], 1, k)
      /\ sendrecvbuf'[c] = SubSeq(sendrecvbuf[c], k + 1, Len(sendrecvbuf[c]))
      /\ \A b \in Clients \ {c} : /\ sendrecvbuf'[b] = sendrecvbuf[b]
                                  /\ toServer'[b] = toServer[b]
  BY <1>1, <1>2
<1>6. ClientMovesBytes(c)
  BY <1>1, <1>4, <1>5 DEF ClientMovesBytes, ForkTypes
<1>7. Passes(toServer[c], sendrecvbuf[c], k, toServer'[c], sendrecvbuf'[c])
  BY <1>3, <1>5 DEF Passes
<1> QED
  BY <1>1, <1>2, <1>3, <1>6, <1>7

\* What was read is printed, or kept.
LEMMA ClientReadsBytes ==
    ASSUME ForkTypes, NEW c \in Clients, ClientReads(c)
    PROVE  /\ UNCHANGED <<typed, owed, toServer, recvbuf>> /\ client[c] = "read"
           /\ toClient' \in [Clients -> Seq(Nat)]
           /\ \A b \in Clients \ {c} : toClient'[b] = toClient[b]
           /\ \E k \in 1 .. Len(toClient[c]), buf \in Seq(Nat) :
                 /\ Passes(sendrecvbuf[c], toClient[c], k, buf, toClient'[c])
                 /\ buf # << >>
                 /\ IF IsWhole(buf)
                    THEN /\ output' = [output EXCEPT ![c] = @ \o Text(buf)]
                         /\ sendrecvbuf' = [sendrecvbuf EXCEPT ![c] = << >>]
                         /\ client'[c] = "type"
                    ELSE /\ sendrecvbuf' = [sendrecvbuf EXCEPT ![c] = buf]
                         /\ UNCHANGED <<output, client>>
<1>1. PICK k \in Takes(sendrecvbuf[c], toClient[c]) :
         LET buf == sendrecvbuf[c] \o SubSeq(toClient[c], 1, k) IN
          /\ toClient' = [toClient EXCEPT ![c] = SubSeq(@, k + 1, Len(@))]
          /\ IF IsWhole(buf)
             THEN /\ output' = [output EXCEPT ![c] = @ \o Text(buf)]
                  /\ sendrecvbuf' = [sendrecvbuf EXCEPT ![c] = << >>]
                  /\ client' = [client EXCEPT ![c] = "type"]
             ELSE /\ sendrecvbuf' = [sendrecvbuf EXCEPT ![c] = buf]
                  /\ UNCHANGED <<output, client>>
  BY DEF ClientReads
<1>2. /\ sendrecvbuf \in [Clients -> Seq(Nat)] /\ toClient \in [Clients -> Seq(Nat)]
      /\ client \in [Clients -> {"none", "type", "write", "read", "ended"}]
      /\ UNCHANGED <<typed, owed, toServer, recvbuf>> /\ client[c] = "read"
  BY DEF ForkTypes, ClientReads, children
<1>3. k \in 1 .. Len(toClient[c]) /\ k \in 0 .. Len(toClient[c])
  BY <1>2, Amounts
<1>4. PICK buf : buf = sendrecvbuf[c] \o SubSeq(toClient[c], 1, k)
  OBVIOUS
<1>5. /\ IF IsWhole(buf)
         THEN /\ output' = [output EXCEPT ![c] = @ \o Text(buf)]
              /\ sendrecvbuf' = [sendrecvbuf EXCEPT ![c] = << >>]
              /\ client' = [client EXCEPT ![c] = "type"]
         ELSE /\ sendrecvbuf' = [sendrecvbuf EXCEPT ![c] = buf]
              /\ UNCHANGED <<output, client>>
      /\ toClient' = [toClient EXCEPT ![c] = SubSeq(@, k + 1, Len(@))]
  BY <1>1, <1>4
<1>6. /\ SubSeq(toClient[c], 1, k) \in Seq(Nat) /\ Len(SubSeq(toClient[c], 1, k)) = k
      /\ toClient' \in [Clients -> Seq(Nat)]
  BY <1>2, <1>3, <1>5, BytesMoved, CutInTwo
<1>7. buf \in Seq(Nat) /\ Len(buf) = Len(sendrecvbuf[c]) + k
  <2>1. sendrecvbuf[c] \in Seq(Nat)
    BY <1>2
  <2> QED
    BY <1>4, <1>6, <2>1, ConcatProperties
<1>8. buf # << >>
  <2>1. Len(buf) # 0
    BY <1>2, <1>3, <1>7
  <2> QED
    BY <1>7, <2>1, EmptySeq
<1>9. /\ toClient'[c] = SubSeq(toClient[c], k + 1, Len(toClient[c]))
      /\ \A b \in Clients \ {c} : toClient'[b] = toClient[b]
  BY <1>2, <1>5
<1>10. Passes(sendrecvbuf[c], toClient[c], k, buf, toClient'[c])
  BY <1>3, <1>4, <1>9 DEF Passes
<1>11. IsWhole(buf) => client'[c] = "type"
  BY <1>2, <1>5
<1> QED
  BY <1>2, <1>3, <1>5, <1>6, <1>7, <1>8, <1>9, <1>10, <1>11


LEMMA ClientBytes ==
    ASSUME ForkTypes, NEW c \in Clients, Client(c), ~ ClientReadsFull(c)
    PROVE  ClientMovesBytes(c)
<1>1. CASE Connect(c) \/ ServerClosed(c) \/ Leave(c)
  BY <1>1 DEF Connect, ServerClosed, Leave, ClientMovesBytes, ForkTypes, wires, children
<1>2. CASE GoesOnUnaware(c)
  BY <1>2, EmptySeq DEF GoesOnUnaware, ClientMovesBytes, ForkTypes, wires, children
<1>3. CASE ClientReads(c)
  <2>1. /\ UNCHANGED <<typed, owed, toServer, recvbuf>>
        /\ toClient' \in [Clients -> Seq(Nat)]
        /\ \A b \in Clients \ {c} : toClient'[b] = toClient[b]
    BY <1>3, ClientReadsBytes
  <2>2. PICK buf \in Seq(Nat) :
           IF IsWhole(buf)
           THEN /\ output' = [output EXCEPT ![c] = @ \o Text(buf)]
                /\ sendrecvbuf' = [sendrecvbuf EXCEPT ![c] = << >>]
           ELSE /\ sendrecvbuf' = [sendrecvbuf EXCEPT ![c] = buf]
                /\ UNCHANGED output
    BY <1>3, ClientReadsBytes
  <2>3. /\ sendrecvbuf' \in [Clients -> Seq(Nat)]
        /\ \A b \in Clients \ {c} : sendrecvbuf'[b] = sendrecvbuf[b]
    <3>1. PICK rest \in Seq(Nat) : sendrecvbuf' = [sendrecvbuf EXCEPT ![c] = rest]
      <4>1. << >> \in Seq(Nat)
        BY EmptySeq
      <4> QED
        BY <2>2, <4>1
    <3> QED
      BY <3>1 DEF ForkTypes
  <2>4. Text(buf) \in Seq(Nat)
    <3>1. CASE program = "packet"
      <4>1. LENGTH \in Nat \ {0} /\ Len(buf) \in Nat
        BY ForkAssumption
      <4>2. \A k \in LENGTH + 1 .. Len(buf) : buf[k] \in Nat
        BY <4>1, ElementOfSeq
      <4> QED
        BY <3>1, <4>1, <4>2, SubSeqProperties DEF Text
    <3>2. CASE program # "packet"
      BY <3>2 DEF Text
    <3> QED
      BY <3>1, <3>2
  <2>5. output[c] \o Text(buf) \in Seq(Nat)
    BY <2>4, ConcatProperties DEF ForkTypes
  <2>6. /\ output' \in [Clients -> Seq(Nat)]
        /\ \A b \in Clients \ {c} : output'[b] = output[b]
    BY <2>2, <2>5 DEF ForkTypes
  <2> QED
    BY <2>1, <2>3, <2>6 DEF ClientMovesBytes, ForkTypes
<1> QED
  BY <1>1, <1>2, <1>3, TypeMoves, ClientWritesBytes DEF Client, Runs

LEMMA TypesOfClient ==
    ASSUME ForkTypes, OneChild, NEW c \in Clients, Client(c), ClientMovesBytes(c),
           UNCHANGED program
    PROVE  ForkTypes' /\ OneChild'
<1>1. /\ backlog \in Seq(Clients) /\ Len(backlog) \in Nat
      /\ \A k \in 1 .. Len(backlog) : backlog[k] \in Clients
      /\ None \notin Clients
  BY ForkAssumption, ElementOfSeq DEF ForkTypes
<1>2. /\ UNCHANGED <<ppc, conn, child>>
      /\ client[c] # "ended" /\ client'[c] # "none"
      /\ \A b \in Clients \ {c} : client'[b] = client[b]
  BY ClientGoes
<1>3. \A b \in Clients : /\ client[b] # "none" => client'[b] # "none"
                         /\ client'[b] = "none" => child[b] = "none"
                         /\ child[b] = "done" => client'[b] = "ended"
  BY <1>2 DEF OneChild
<1>4. conn \in Clients \cup {None}
  BY DEF ForkTypes
<1>5. CASE client[c] # "none"
  <2>1. UNCHANGED backlog
    BY <1>5, ClientGoes
  <2>2. ForkTypes'
    BY <1>2, <2>1, ClientGoes DEF ForkTypes, ClientMovesBytes
  <2> QED
    BY <1>1, <1>2, <1>3, <1>4, <2>1, <2>2 DEF OneChild
<1>6. CASE client[c] = "none"
  <2>1. backlog' = Append(backlog, c) /\ child[c] = "none" /\ conn # c
    BY <1>1, <1>6, ClientGoes DEF OneChild
  <2>2. /\ backlog' \in Seq(Clients) /\ Len(backlog') = Len(backlog) + 1
        /\ \A k \in 1 .. Len(backlog) : backlog'[k] = backlog[k]
        /\ backlog'[Len(backlog) + 1] = c
    BY <1>1, <2>1
  <2>3. ForkTypes'
    BY <1>2, <2>2, ClientGoes DEF ForkTypes, ClientMovesBytes
  <2>4. \A k \in 1 .. Len(backlog') : k \in 1 .. Len(backlog) \/ k = Len(backlog) + 1
    BY <1>1, <2>2
  <2>5. \A k \in 1 .. Len(backlog) : backlog[k] # c
    BY <1>6 DEF OneChild
  <2>6. \A k \in 1 .. Len(backlog') :
           backlog'[k] # conn /\ client'[backlog'[k]] # "none" /\ child[backlog'[k]] = "none"
    BY <1>1, <1>2, <1>3, <2>1, <2>2, <2>4 DEF OneChild
  <2>7. \A j, k \in 1 .. Len(backlog') : backlog'[j] = backlog'[k] => j = k
    BY <2>2, <2>4, <2>5 DEF OneChild
  <2>8. conn # None => client'[conn] # "none"
    BY <1>3, <1>4 DEF OneChild
  <2> QED
    BY <1>2, <1>3, <2>3, <2>6, <2>7, <2>8 DEF OneChild
<1> QED
  BY <1>5, <1>6


----------------------------------------------------------------------------
(* A client's step keeps its bytes                                         *)

LEMMA FaithfulOfConnect ==
    ASSUME ForkTypes, NEW c \in Clients, Faithful(c), Connect(c), UNCHANGED program
    PROVE  Faithful(c)'
<1>1. /\ client[c] = "none" /\ client'[c] = "type"
      /\ UNCHANGED <<children, typed, sendrecvbuf, owed, output, wires>>
  BY DEF Connect, ForkTypes
<1>2. Words(c) /\ Buffers(c) /\ OnTheWay(c) /\ (Whole => InTurn(c))
  BY <1>1 DEF Faithful
<1>3. /\ Busy(c)' = Busy(c) /\ Whole' = Whole /\ Stream(c)' = Stream(c)
      /\ Back(c)' = Back(c) /\ Rest(c)' = Rest(c) /\ Start(c)' = Start(c)
      /\ ~ Busy(c) /\ Back(c) = << >> /\ Rest(c) = << >>
  BY <1>1 DEF Busy, Whole, Plain, Stream, Back, Rest, Start
<1>4. owed[c] = << >> /\ Stream(c) = << >>
  BY <1>1, <1>2, <1>3 DEF Words, Stream
<1>5. Words(c)' /\ Buffers(c)' /\ (Whole' => InTurn(c)')
  BY <1>1, <1>2, <1>3 DEF Words, Buffers, InTurn, children, wires
<1>6. /\ Chain(Stream(c), Start(c), Back(c), toClient[c], recvbuf[c], toServer[c])
      /\ Finish(Stream(c), Reach(Start(c), Back(c), toClient[c], recvbuf[c], toServer[c]),
                Rest(c))
  <2>1. Chain(<< >>, Start(c), << >>, toClient[c], recvbuf[c], toServer[c])
    BY <1>2, <1>3, <1>4 DEF OnTheWay
  <2>2. PICK p \in Nat, d \in Nat, h \in Nat, u \in Nat :
           p = Start(c) /\ d = Len(toClient[c]) /\ h = Len(recvbuf[c]) /\ u = Len(toServer[c])
    <3>1. /\ Start(c) \in Nat /\ Len(toClient[c]) \in Nat
          /\ Len(recvbuf[c]) \in Nat /\ Len(toServer[c]) \in Nat
      BY <2>1 DEF Chain
    <3> QED
      BY <3>1
  <2>3. Len(<< >>) = 0 /\ << >> \in Seq(Nat)
    BY EmptySeq
  <2>4. (((p + 0) + d) + h) + u <= 0
    BY <2>1, <2>2, <2>3 DEF Chain, Lies
  <2>5. p = 0 /\ d = 0 /\ h = 0 /\ u = 0
    BY <2>4
  <2>6. Reach(Start(c), << >>, toClient[c], recvbuf[c], toServer[c]) = 0
    BY <2>2, <2>3, <2>5 DEF Reach
  <2>7. Finish(<< >>, 0, << >>)
    BY <2>3 DEF Finish, Lies
  <2> QED
    BY <1>3, <1>4, <2>1, <2>6, <2>7
<1>7. OnTheWay(c)'
  BY <1>1, <1>3, <1>6 DEF OnTheWay, children, wires
<1> QED
  BY <1>5, <1>7 DEF Faithful

\* With a longer stream a chain is still one, and what was added is to come.
LEMMA ChainFurther ==
    ASSUME NEW s, NEW p, NEW back, NEW down, NEW held, NEW up,
           Chain(s, p, back, down, held, up), NEW t \in Seq(Nat)
    PROVE  /\ s \o t \in Seq(Nat)
           /\ Chain(s \o t, p, back, down, held, up)
           /\ Finish(s, Reach(p, back, down, held, up), << >>) =>
                 Finish(s \o t, Reach(p, back, down, held, up), t)
<1>0. /\ s \in Seq(Nat) /\ p \in Nat /\ back \in Seq(Nat) /\ down \in Seq(Nat)
      /\ held \in Seq(Nat) /\ up \in Seq(Nat)
  BY DEF Chain
<1>1. PICK u \in Seq(Nat) :
         /\ u = s \o t /\ Len(u) = Len(s) + Len(t) /\ Lies(t, u, Len(s))
         /\ \A b \in Seq(Nat), q \in Nat : Lies(b, s, q) => Lies(b, u, q)
  BY <1>0, LiesFurther
<1>2. Chain(u, p, back, down, held, up)
  <2>1. PICK a \in Nat, d \in Nat, h \in Nat :
           /\ a = p + Len(back) /\ d = a + Len(down) /\ h = d + Len(held)
    <3>1. /\ p + Len(back) \in Nat /\ (p + Len(back)) + Len(down) \in Nat
          /\ ((p + Len(back)) + Len(down)) + Len(held) \in Nat
      BY <1>0
    <3> QED
      BY <3>1
  <2>2. Lies(back, s, p) /\ Lies(down, s, a) /\ Lies(held, s, d) /\ Lies(up, s, h)
    BY <2>1 DEF Chain
  <2>3. Lies(back, u, p) /\ Lies(down, u, a) /\ Lies(held, u, d) /\ Lies(up, u, h)
    BY <1>0, <1>1, <2>2
  <2> QED
    BY <1>0, <2>1, <2>3 DEF Chain
<1>3. PICK r \in Nat : r = Reach(p, back, down, held, up)
  BY <1>0 DEF Reach
<1>4. ASSUME Finish(s, r, << >>) PROVE Finish(u, r, t)
  <2>1. r = Len(s)
    BY <1>0, <1>4, EmptySeq DEF Finish
  <2> QED
    BY <1>1, <2>1 DEF Finish
<1> QED
  BY <1>1, <1>2, <1>3, <1>4

\* A line is typed when, with whole messages, the connection is empty.
LEMMA FaithfulOfType ==
    ASSUME ForkTypes, NEW c \in Clients, Faithful(c), Type(c), UNCHANGED program,
           Closed(c) => Closed(c)'
    PROVE  Faithful(c)'
<1>1. /\ UNCHANGED <<toServer, toClient, output, children>> /\ ClientMovesBytes(c)
      /\ client[c] = "type" /\ client'[c] = "write"
      /\ typed'[c] \in 1 .. Len(Lines[c])
  BY TypeMoves DEF Type
<1>2. PICK line : /\ line = Lines[c][typed'[c]] /\ IsLine(line)
                  /\ owed'[c] = owed[c] \o line
                  /\ sendrecvbuf'[c] = Message(line)
  BY TypeMoves
<1>3. Words(c) /\ Buffers(c) /\ OnTheWay(c) /\ (Whole => InTurn(c))
  BY <1>1 DEF Faithful
<1>4. /\ Message(line) \in Seq(Nat) /\ Message(line) # << >> /\ line \in Seq(Nat)
      /\ << >> \in Seq(Nat) /\ Len(<< >>) = 0
  BY <1>2, MessageIs, EmptySeq DEF IsLine
<1>5. /\ Busy(c)' /\ ~ Busy(c) /\ Whole' = Whole /\ Start(c)' = Start(c)
      /\ Back(c) = << >> /\ Back(c)' = << >> /\ Rest(c) = << >>
      /\ Rest(c)' = Message(line)
  BY <1>1, <1>2 DEF Busy, Whole, Plain, Start, Back, Rest
<1>6. CASE Whole
  <2>1. Stream(c) = << >> /\ Start(c) = 0 /\ Stream(c)' = Message(line)
    BY <1>2, <1>5, <1>6 DEF Stream, Start, Message
  <2>2. Chain(<< >>, 0, << >>, toClient[c], recvbuf[c], toServer[c])
    BY <1>3, <1>5, <2>1 DEF OnTheWay
  <2>3. toClient[c] = << >> /\ recvbuf[c] = << >> /\ toServer[c] = << >>
    <3>1. Finish(<< >>, Reach(0, << >>, toClient[c], recvbuf[c], toServer[c]), << >>)
      BY <1>3, <1>5, <1>6, <2>1 DEF OnTheWay
    <3>2. 0 + Len(<< >>) = Len(<< >>)
      BY <1>4
    <3> QED
      BY <2>2, <3>1, <3>2, NothingBehind
  <2>4. Chain(Message(line), 0, << >>, << >>, << >>, << >>)
    BY <1>4 DEF Chain, Lies
  <2>5. Finish(Message(line), Reach(0, << >>, << >>, << >>, << >>), Message(line))
    <3>1. Reach(0, << >>, << >>, << >>, << >>) = 0
      BY <1>4 DEF Reach
    <3>2. Finish(Message(line), 0, Message(line))
      BY <1>4 DEF Finish, Lies
    <3> QED
      BY <3>1, <3>2
  <2>6. OnTheWay(c)'
    BY <1>1, <1>5, <2>1, <2>3, <2>4, <2>5 DEF OnTheWay, children
  <2>7. Words(c)'
    BY <1>1, <1>2, <1>3, <1>5, <1>6 DEF Words
  <2>8. child'[c] # "echo"
    BY <1>1, <1>3, <2>3 DEF Buffers, children
  <2>9. Buffers(c)' /\ InTurn(c)'
    BY <1>1, <1>2, <1>4, <1>5, <2>3, <2>8 DEF Buffers, InTurn
  <2> QED
    BY <2>6, <2>7, <2>9 DEF Faithful
<1>7. CASE ~ Whole
  <2>1. /\ Stream(c) = owed[c] /\ Stream(c)' = owed[c] \o line
        /\ Message(line) = line /\ Start(c) = Len(output[c])
    BY <1>2, <1>5, <1>7 DEF Stream, Start, Message, Whole, Plain
  <2>2. Chain(owed[c], Start(c), << >>, toClient[c], recvbuf[c], toServer[c])
    BY <1>3, <1>5, <2>1 DEF OnTheWay
  <2>3. /\ Chain(owed[c] \o line, Start(c), << >>, toClient[c], recvbuf[c], toServer[c])
        /\ ~ Closed(c) =>
             Finish(owed[c] \o line,
                    Reach(Start(c), << >>, toClient[c], recvbuf[c], toServer[c]), line)
    <3>1. ~ Closed(c) =>
             Finish(owed[c], Reach(Start(c), << >>, toClient[c], recvbuf[c], toServer[c]), << >>)
      BY <1>3, <1>5, <2>1 DEF OnTheWay
    <3> QED
      BY <1>4, <2>2, <3>1, ChainFurther
  <2>4. OnTheWay(c)'
    BY <1>1, <1>5, <1>7, <2>1, <2>3 DEF OnTheWay, children
  <2>5. Words(c)'
    <3>1. owed[c] \in Seq(Nat) /\ output[c] \in Seq(Nat)
      BY DEF ForkTypes
    <3>2. Lies(output[c], owed[c], 0)
      BY <1>3, <1>7 DEF Words
    <3>3. Lies(output[c], owed[c] \o line, 0)
      BY <1>4, <3>1, <3>2, LiesFurther
    <3> QED
      BY <1>1, <1>2, <1>5, <1>7, <3>3 DEF Words
  <2>6. Buffers(c)'
    BY <1>1, <1>2, <1>3, <1>4 DEF Buffers, children
  <2> QED
    BY <1>5, <1>7, <2>4, <2>5, <2>6 DEF Faithful
<1> QED
  BY <1>6, <1>7


\* The client writes a part of its message.
LEMMA FaithfulOfClientWrites ==
    ASSUME ForkTypes, NEW c \in Clients, Faithful(c), ClientWrites(c), UNCHANGED program
    PROVE  Faithful(c)'
<1>1. /\ ClientMovesBytes(c) /\ UNCHANGED <<typed, owed, output, toClient, recvbuf, child>>
      /\ client[c] = "write" /\ ~ Closed(c)
      /\ client'[c] = IF sendrecvbuf'[c] = << >> THEN "read" ELSE "write"
  BY ClientWritesBytes DEF ClientWrites, children
<1>2. PICK k \in 1 .. Len(sendrecvbuf[c]) :
         Passes(toServer[c], sendrecvbuf[c], k, toServer'[c], sendrecvbuf'[c])
  BY ClientWritesBytes
<1>3. Words(c) /\ Buffers(c) /\ OnTheWay(c) /\ (Whole => InTurn(c))
  BY <1>1 DEF Faithful
<1>4. /\ Busy(c) /\ Busy(c)' /\ Whole' = Whole /\ Start(c)' = Start(c)
      /\ Stream(c)' = Stream(c)
      /\ Back(c) = << >> /\ Rest(c) = sendrecvbuf[c]
      /\ Back(c)' = << >> /\ Rest(c)' = sendrecvbuf'[c]
  BY <1>1 DEF Busy, Whole, Plain, Start, Stream, Back, Rest, Message
<1>5. /\ Chain(Stream(c), Start(c), << >>, toClient[c], recvbuf[c], toServer'[c])
      /\ Finish(Stream(c), Reach(Start(c), << >>, toClient[c], recvbuf[c], toServer'[c]),
                sendrecvbuf'[c])
  <2>1. /\ Chain(Stream(c), Start(c), << >>, toClient[c], recvbuf[c], toServer[c])
        /\ Finish(Stream(c), Reach(Start(c), << >>, toClient[c], recvbuf[c], toServer[c]),
                  sendrecvbuf[c])
    BY <1>1, <1>3, <1>4 DEF OnTheWay
  <2> QED
    BY <1>2, <2>1, UpTheWire
<1>6. OnTheWay(c)'
  BY <1>1, <1>4, <1>5 DEF OnTheWay
<1>7. Words(c)'
  BY <1>1, <1>3, <1>4 DEF Words
<1>8. Buffers(c)'
  BY <1>1, <1>3 DEF Buffers
<1>9. ASSUME Whole PROVE InTurn(c)'
  <2>1. Rest(c) # << >>
    BY <1>1, <1>3, <1>4 DEF Buffers
  <2>2. toClient[c] = << >> /\ child[c] # "echo"
    BY <1>3, <1>9, <2>1 DEF InTurn
  <2> QED
    BY <1>1, <1>4, <2>2 DEF InTurn
<1> QED
  BY <1>4, <1>6, <1>7, <1>8, <1>9 DEF Faithful

\* What the client reads of the echo is no whole message yet.
LEMMA FaithfulOfPart ==
    ASSUME ForkTypes, NEW c \in Clients, Faithful(c), ClientReads(c), UNCHANGED program,
           Closed(c) => Closed(c)',
           NEW k \in 1 .. Len(toClient[c]), NEW buf \in Seq(Nat), buf # << >>,
           Passes(sendrecvbuf[c], toClient[c], k, buf, toClient'[c]),
           ~ IsWhole(buf), sendrecvbuf' = [sendrecvbuf EXCEPT ![c] = buf],
           UNCHANGED <<output, client>>
    PROVE  Faithful(c)'
<1>1. /\ UNCHANGED <<typed, owed, toServer, recvbuf, child>> /\ client[c] = "read"
      /\ sendrecvbuf'[c] = buf
  BY ClientReadsBytes DEF ClientReads, children, ForkTypes
<1>2. Whole
  BY DEF IsWhole, ForkTypes, Programs, Whole, Plain
<1>3. Words(c) /\ Buffers(c) /\ OnTheWay(c) /\ InTurn(c)
  BY <1>1, <1>2 DEF Faithful
<1>4. /\ Busy(c)' = Busy(c) /\ Whole' /\ Start(c)' = Start(c) /\ Stream(c)' = Stream(c)
      /\ Back(c) = sendrecvbuf[c] /\ Rest(c) = << >> /\ Back(c)' = buf /\ Rest(c)' = << >>
  BY <1>1, <1>2 DEF Busy, Whole, Plain, Start, Stream, Back, Rest, Message
<1>5. /\ Chain(Stream(c), Start(c), buf, toClient'[c], recvbuf[c], toServer[c])
      /\ Reach(Start(c), buf, toClient'[c], recvbuf[c], toServer[c])
            = Reach(Start(c), Back(c), toClient[c], recvbuf[c], toServer[c])
  <2>1. Chain(Stream(c), Start(c), sendrecvbuf[c], toClient[c], recvbuf[c], toServer[c])
    BY <1>3, <1>4 DEF OnTheWay
  <2> QED
    BY <1>4, <2>1, IntoTheClient
<1>6. OnTheWay(c)'
  BY <1>1, <1>2, <1>3, <1>4, <1>5 DEF OnTheWay
<1>7. Words(c)'
  BY <1>1, <1>2, <1>3, <1>4 DEF Words
<1>8. Buffers(c)'
  BY <1>1, <1>3, <1>4 DEF Buffers
<1>9. InTurn(c)'
  <2>1. toClient[c] # << >>
    BY EmptySeq DEF ForkTypes
  <2> QED
    BY <1>1, <1>3, <1>4, <2>1 DEF InTurn
<1> QED
  BY <1>4, <1>6, <1>7, <1>8, <1>9 DEF Faithful

\* It is whole: the line that was typed, and nothing else is on the way.
LEMMA FaithfulOfWhole ==
    ASSUME ForkTypes, NEW c \in Clients, Faithful(c), ClientReads(c), UNCHANGED program,
           NEW k \in 1 .. Len(toClient[c]), NEW buf \in Seq(Nat), buf # << >>,
           Passes(sendrecvbuf[c], toClient[c], k, buf, toClient'[c]),
           Whole, IsWhole(buf), output' = [output EXCEPT ![c] = @ \o Text(buf)],
           sendrecvbuf' = [sendrecvbuf EXCEPT ![c] = << >>], client'[c] = "type"
    PROVE  Faithful(c)' /\ output[c] # owed[c] /\ output'[c] = owed[c]
<1>1. /\ UNCHANGED <<typed, owed, toServer, recvbuf, child>> /\ client[c] = "read"
      /\ sendrecvbuf'[c] = << >>
  BY ClientReadsBytes DEF ClientReads, children, ForkTypes
<1>2. Words(c) /\ Buffers(c) /\ OnTheWay(c) /\ InTurn(c)
  BY <1>1 DEF Faithful
<1>3. PICK line : /\ line = Lines[c][typed[c]] /\ IsLine(line)
                  /\ Stream(c) = Message(line) /\ owed[c] = output[c] \o line
  <2>1. Busy(c)
    BY <1>1 DEF Busy
  <2> QED
    BY <1>2, <2>1, ChainOf DEF Words
<1>4. Start(c) = 0 /\ Back(c) = sendrecvbuf[c] /\ Rest(c) = << >>
  BY <1>1 DEF Start, Back, Rest
<1>5. /\ Chain(Message(line), 0, buf, toClient'[c], recvbuf[c], toServer[c])
      /\ Finish(Message(line), Reach(0, buf, toClient'[c], recvbuf[c], toServer[c]), << >>)
  <2>1. /\ Chain(Message(line), 0, sendrecvbuf[c], toClient[c], recvbuf[c], toServer[c])
        /\ Finish(Message(line), Reach(0, sendrecvbuf[c], toClient[c], recvbuf[c],
                                       toServer[c]), << >>)
    BY <1>2, <1>3, <1>4 DEF OnTheWay
  <2>2. /\ Chain(Message(line), 0, buf, toClient'[c], recvbuf[c], toServer[c])
        /\ Reach(0, buf, toClient'[c], recvbuf[c], toServer[c])
              = Reach(0, sendrecvbuf[c], toClient[c], recvbuf[c], toServer[c])
    BY <2>1, IntoTheClient
  <2> QED
    BY <2>1, <2>2
<1>6. buf = Message(line)
  <2>1. Lies(buf, Message(line), 0)
    BY <1>5 DEF Chain
  <2> QED
    BY <1>3, <2>1, WholeIsAll
<1>7. toClient'[c] = << >> /\ recvbuf[c] = << >> /\ toServer[c] = << >>
  <2>1. 0 + Len(buf) = Len(Message(line))
    BY <1>6
  <2> QED
    BY <1>5, <2>1, NothingBehind
<1>8. output'[c] = owed[c] /\ output[c] # owed[c]
  <2>1. output[c] \in Seq(Nat) /\ line \in Seq(Nat) /\ line # << >>
    BY <1>3 DEF IsLine, ForkTypes
  <2>2. output[c] \o line # output[c]
    BY <2>1, ConcatEqualIffEmpty
  <2>3. output'[c] = output[c] \o Text(buf)
    BY DEF ForkTypes
  <2>4. Text(buf) = line
    BY <1>3, <1>6, MessageIs
  <2> QED
    BY <1>3, <2>2, <2>3, <2>4
<1>9. /\ ~ Busy(c)' /\ Whole' /\ Start(c)' = 0 /\ Stream(c)' = << >>
      /\ Back(c)' = << >> /\ Rest(c)' = << >>
  BY DEF Busy, Whole, Plain, Start, Stream, Back, Rest
<1>10. OnTheWay(c)'
  <2>1. << >> \in Seq(Nat) /\ Len(<< >>) = 0
    BY EmptySeq
  <2>2. Chain(<< >>, 0, << >>, << >>, << >>, << >>)
    BY <2>1 DEF Chain, Lies
  <2>3. Finish(<< >>, Reach(0, << >>, << >>, << >>, << >>), << >>)
    BY <2>1 DEF Finish, Reach, Lies
  <2> QED
    BY <1>1, <1>7, <1>9, <2>2, <2>3 DEF OnTheWay
<1>11. Words(c)'
  BY <1>1, <1>8, <1>9 DEF Words
<1>12. Buffers(c)' /\ InTurn(c)'
  BY <1>1, <1>2, <1>7, <1>9 DEF Buffers, InTurn
<1> QED
  BY <1>8, <1>10, <1>11, <1>12 DEF Faithful


\* With plain read and write it is whatever the read took: more of what was
\* typed.
LEMMA FaithfulOfRaw ==
    ASSUME ForkTypes, NEW c \in Clients, Faithful(c), ClientReads(c), UNCHANGED program,
           Closed(c) => Closed(c)',
           NEW k \in 1 .. Len(toClient[c]), NEW buf \in Seq(Nat), buf # << >>,
           Passes(sendrecvbuf[c], toClient[c], k, buf, toClient'[c]),
           ~ Whole, output' = [output EXCEPT ![c] = @ \o Text(buf)],
           sendrecvbuf' = [sendrecvbuf EXCEPT ![c] = << >>], client'[c] = "type"
    PROVE  /\ Faithful(c)'
           /\ \E m \in Len(output[c]) + 1 .. Len(owed[c]) :
                 output'[c] = SubSeq(owed[c], 1, m)
<1>1. /\ UNCHANGED <<typed, owed, toServer, recvbuf, child>> /\ client[c] = "read"
      /\ sendrecvbuf'[c] = << >>
  BY ClientReadsBytes DEF ClientReads, children, ForkTypes
<1>2. Words(c) /\ Buffers(c) /\ OnTheWay(c)
  BY <1>1 DEF Faithful
<1>3. /\ Stream(c) = owed[c] /\ Start(c) = Len(output[c]) /\ Back(c) = << >>
      /\ Rest(c) = << >> /\ sendrecvbuf[c] = << >>
  BY <1>1, <1>2 DEF Stream, Start, Back, Rest, Buffers
<1>4. /\ output'[c] = output[c] \o buf /\ owed[c] \in Seq(Nat) /\ output[c] \in Seq(Nat)
      /\ toClient[c] \in Seq(Nat) /\ k \in 0 .. Len(toClient[c])
      /\ << >> \in Seq(Nat) /\ Len(<< >>) = 0
  <2>1. Text(buf) = buf
    BY DEF Text, Whole, Plain
  <2>2. output'[c] = output[c] \o Text(buf)
    BY DEF ForkTypes
  <2> QED
    BY <2>1, <2>2, EmptySeq DEF ForkTypes
<1>5. Passes(output[c], toClient[c], k, output'[c], toClient'[c])
  <2>1. SubSeq(toClient[c], 1, k) \in Seq(Nat)
    BY <1>4, CutInTwo
  <2>2. buf = SubSeq(toClient[c], 1, k)
    BY <1>3, <2>1, ConcatEmptySeq DEF Passes
  <2> QED
    BY <1>4, <2>2 DEF Passes
<1>6. Chain(owed[c], Len(output[c]), << >>, toClient[c], recvbuf[c], toServer[c])
  BY <1>2, <1>3 DEF OnTheWay
<1>7. /\ Chain(owed[c], 0, output[c], toClient[c], recvbuf[c], toServer[c])
      /\ Reach(0, output[c], toClient[c], recvbuf[c], toServer[c])
            = Reach(Len(output[c]), << >>, toClient[c], recvbuf[c], toServer[c])
  <2>1. Lies(output[c], owed[c], 0)
    BY <1>2 DEF Words
  <2>2. 0 + Len(output[c]) = Len(output[c]) /\ Len(output[c]) + Len(<< >>) = Len(output[c])
    BY <1>4
  <2> QED
    BY <1>4, <1>6, <2>1, <2>2 DEF Chain, Reach
<1>8. /\ Chain(owed[c], 0, output'[c], toClient'[c], recvbuf[c], toServer[c])
      /\ Reach(0, output'[c], toClient'[c], recvbuf[c], toServer[c])
            = Reach(0, output[c], toClient[c], recvbuf[c], toServer[c])
  BY <1>5, <1>7, IntoTheClient
<1>9. Len(output'[c]) = Len(output[c]) + Len(buf) /\ Len(buf) \in Nat \ {0}
  <2>1. Len(output[c] \o buf) = Len(output[c]) + Len(buf)
    BY <1>4, ConcatProperties
  <2>2. Len(buf) \in Nat \ {0}
    BY EmptySeq
  <2> QED
    BY <1>4, <2>1, <2>2
<1>10. /\ Chain(owed[c], Len(output'[c]), << >>, toClient'[c], recvbuf[c], toServer[c])
       /\ Reach(Len(output'[c]), << >>, toClient'[c], recvbuf[c], toServer[c])
             = Reach(0, output'[c], toClient'[c], recvbuf[c], toServer[c])
  <2>1. /\ output'[c] \in Seq(Nat) /\ Len(output'[c]) \in Nat
        /\ Len(output'[c]) <= Len(owed[c])
    BY <1>8 DEF Chain, Lies
  <2>2. /\ 0 + Len(output'[c]) = Len(output'[c])
        /\ Len(output'[c]) + Len(<< >>) = Len(output'[c])
    BY <1>4, <2>1
  <2>3. Lies(<< >>, owed[c], Len(output'[c]))
    BY <1>4, <2>1 DEF Lies
  <2> QED
    BY <1>4, <1>8, <2>1, <2>2, <2>3 DEF Chain, Reach
<1>11. /\ Whole' = Whole /\ Stream(c)' = owed[c] /\ Start(c)' = Len(output'[c])
       /\ Back(c)' = << >> /\ Rest(c)' = << >>
  BY <1>1 DEF Whole, Plain, Stream, Start, Back, Rest
<1>12. OnTheWay(c)'
  <2>1. ~ Closed(c)' =>
           Finish(owed[c], Reach(Len(output[c]), << >>, toClient[c], recvbuf[c],
                                  toServer[c]), << >>)
    BY <1>2, <1>3 DEF OnTheWay
  <2> QED
    BY <1>1, <1>7, <1>8, <1>10, <1>11, <2>1 DEF OnTheWay
<1>13. Words(c)' /\ Buffers(c)'
  <2>1. Lies(output'[c], owed[c], 0)
    BY <1>8 DEF Chain
  <2> QED
    BY <1>1, <1>2, <1>11, <2>1 DEF Words, Buffers
<1>14. \E m \in Len(output[c]) + 1 .. Len(owed[c]) : output'[c] = SubSeq(owed[c], 1, m)
  <2>1. /\ output'[c] \in Seq(Nat) /\ Lies(output'[c], owed[c], 0)
    BY <1>8 DEF Chain
  <2>2. output'[c] = SubSeq(owed[c], 1, Len(output'[c]))
    BY <1>4, <2>1, LiesInFront
  <2>3. Len(output'[c]) \in Len(output[c]) + 1 .. Len(owed[c])
    BY <1>4, <1>9, <2>1 DEF Lies
  <2> QED
    BY <2>2, <2>3
<1> QED
  BY <1>11, <1>12, <1>13, <1>14 DEF Faithful

\* A read that fills the client's buffer: what it prints behind it is owed from
\* then on, at its place.
LEMMA FaithfulOfClientReadsFull ==
    ASSUME ForkTypes, NEW c \in Clients, Faithful(c), ClientReadsFull(c),
           UNCHANGED program, Closed(c) => Closed(c)'
    PROVE  /\ Faithful(c)' /\ ClientMovesBytes(c)
           /\ \E k \in Len(output[c]) + MAXLINE .. Len(owed[c]) :
                 /\ owed' = [owed EXCEPT ![c] = InsertAt(owed[c], k + 1, Beyond)]
                 /\ output' = [output EXCEPT ![c] = SubSeq(owed'[c], 1, k + 1)]
<1>1. /\ UNCHANGED <<typed, sendrecvbuf, toServer, recvbuf, child>>
      /\ client[c] = "read" /\ client'[c] = "type"
      /\ MAXLINE \in 1 .. Len(toClient[c]) /\ MAXLINE \in 0 .. Len(toClient[c]) /\ ~ Whole
  BY ForkAssumption DEF ClientReadsFull, children, ForkTypes, Whole, Plain
<1>2. Words(c) /\ Buffers(c) /\ OnTheWay(c)
  BY <1>1 DEF Faithful
<1>3. /\ Stream(c) = owed[c] /\ Start(c) = Len(output[c]) /\ sendrecvbuf[c] = << >>
      /\ Back(c) = << >> /\ Rest(c) = << >>
      /\ Whole' = Whole /\ Stream(c)' = owed'[c] /\ Start(c)' = Len(output'[c])
      /\ Back(c)' = << >> /\ Rest(c)' = << >>
  BY <1>1, <1>2 DEF Stream, Start, Back, Rest, Whole, Plain, Buffers
<1>4. /\ owed[c] \in Seq(Nat) /\ output[c] \in Seq(Nat) /\ toClient[c] \in Seq(Nat)
      /\ Len(output[c]) \in Nat /\ MAXLINE \in Nat /\ Beyond \in Nat
      /\ << >> \in Seq(Nat) /\ Len(<< >>) = 0
  BY <1>1, EmptySeq DEF ForkTypes, Beyond
<1>5. PICK out : out = output[c] \o SubSeq(toClient[c], 1, MAXLINE)
  OBVIOUS
<1>6. /\ output' = [output EXCEPT ![c] = Append(out, Beyond)]
      /\ toClient' = [toClient EXCEPT ![c] = SubSeq(@, MAXLINE + 1, Len(@))]
      /\ owed' = [owed EXCEPT ![c] = InsertAt(owed[c], Len(output'[c]), Beyond)]
  BY <1>5 DEF ClientReadsFull, ForkTypes
<1>7. output'[c] = Append(out, Beyond)
  BY <1>6 DEF ForkTypes
<1>8. Passes(output[c], toClient[c], MAXLINE, out, toClient'[c])
  BY <1>1, <1>5, <1>6 DEF Passes, ForkTypes
<1>9. /\ Chain(owed[c], 0, output[c], toClient[c], recvbuf[c], toServer[c])
      /\ Reach(0, output[c], toClient[c], recvbuf[c], toServer[c])
            = Reach(Len(output[c]), << >>, toClient[c], recvbuf[c], toServer[c])
  <2>1. Chain(owed[c], Len(output[c]), << >>, toClient[c], recvbuf[c], toServer[c])
    BY <1>2, <1>3 DEF OnTheWay
  <2>2. Lies(output[c], owed[c], 0)
    BY <1>1, <1>2 DEF Words
  <2>3. 0 + Len(output[c]) = Len(output[c]) /\ Len(output[c]) + Len(<< >>) = Len(output[c])
    BY <1>4
  <2> QED
    BY <1>4, <2>1, <2>2, <2>3 DEF Chain, Reach
<1>10. /\ out \in Seq(Nat) /\ Len(out) = Len(output[c]) + MAXLINE /\ toClient'[c] \in Seq(Nat)
       /\ Chain(owed[c], 0, out, toClient'[c], recvbuf[c], toServer[c])
       /\ Reach(0, out, toClient'[c], recvbuf[c], toServer[c])
             = Reach(0, output[c], toClient[c], recvbuf[c], toServer[c])
  BY <1>8, <1>9, IntoTheClient
<1>11. PICK e \in Len(output[c]) + MAXLINE .. Len(owed[c]) :
          /\ e \in 0 .. Len(owed[c]) /\ e = 0 + Len(out) /\ e + 1 = Len(Append(out, Beyond))
  <2>1. 0 + Len(out) <= Len(owed[c])
    BY <1>10 DEF Chain, Lies
  <2>2. /\ 0 + Len(out) \in Len(output[c]) + MAXLINE .. Len(owed[c])
        /\ 0 + Len(out) \in 0 .. Len(owed[c])
        /\ (0 + Len(out)) + 1 = Len(Append(out, Beyond))
    <3>1. Len(Append(out, Beyond)) = Len(out) + 1
      BY <1>4, <1>10
    <3>2. PICK o \in Nat, m \in Nat, l \in Nat :
             o = Len(output[c]) /\ m = MAXLINE /\ l = Len(owed[c])
      <4>1. Len(owed[c]) \in Nat
        BY <1>4
      <4> QED
        BY <1>4, <4>1
    <3>3. Len(out) = o + m /\ 0 + (o + m) <= l
      BY <1>10, <2>1, <3>2
    <3> QED
      BY <3>1, <3>2, <3>3
  <2> QED
    BY <2>2
<1>12. owed' = [owed EXCEPT ![c] = InsertAt(owed[c], e + 1, Beyond)]
  BY <1>6, <1>7, <1>11
<1>13. Inserts(owed[c], e, Beyond, owed'[c])
  <2>1. owed'[c] = InsertAt(owed[c], e + 1, Beyond)
    BY <1>12 DEF ForkTypes
  <2> QED
    BY <1>4, <1>11, <2>1, Inserted
<1>14. /\ output'[c] \in Seq(Nat) /\ owed'[c] \in Seq(Nat)
       /\ Chain(owed'[c], 0, output'[c], toClient'[c], recvbuf[c], toServer[c])
       /\ \A rest :
             Finish(owed[c], Reach(0, out, toClient'[c], recvbuf[c], toServer[c]), rest)
             => Finish(owed'[c], Reach(0, output'[c], toClient'[c], recvbuf[c], toServer[c]),
                       rest)
  <2>1. owed'[c] \in Seq(Nat)
    BY <1>13 DEF Inserts
  <2> QED
    BY <1>4, <1>7, <1>10, <1>11, <1>13, <2>1, ClientSpills
<1>15. /\ Chain(owed'[c], Len(output'[c]), << >>, toClient'[c], recvbuf[c], toServer[c])
       /\ Reach(Len(output'[c]), << >>, toClient'[c], recvbuf[c], toServer[c])
             = Reach(0, output'[c], toClient'[c], recvbuf[c], toServer[c])
  <2>1. Len(output'[c]) \in Nat /\ Len(output'[c]) <= Len(owed'[c])
    BY <1>14 DEF Chain, Lies
  <2>2. /\ 0 + Len(output'[c]) = Len(output'[c])
        /\ Len(output'[c]) + Len(<< >>) = Len(output'[c])
    BY <1>4, <2>1
  <2>3. Lies(<< >>, owed'[c], Len(output'[c]))
    BY <1>4, <2>1 DEF Lies
  <2> QED
    BY <1>4, <1>14, <2>1, <2>2, <2>3 DEF Chain, Reach
<1>16. OnTheWay(c)'
  <2>1. ~ Closed(c)' =>
           Finish(owed[c], Reach(Len(output[c]), << >>, toClient[c], recvbuf[c],
                                 toServer[c]), << >>)
    BY <1>2, <1>3 DEF OnTheWay
  <2> QED
    BY <1>1, <1>3, <1>9, <1>10, <1>14, <1>15, <2>1 DEF OnTheWay
<1>17. Words(c)' /\ Buffers(c)'
  <2>1. Lies(output'[c], owed'[c], 0)
    BY <1>14 DEF Chain
  <2> QED
    BY <1>1, <1>2, <1>3, <2>1 DEF Words, Buffers
<1>18. output' = [output EXCEPT ![c] = SubSeq(owed'[c], 1, e + 1)]
  <2>1. output'[c] = SubSeq(owed'[c], 1, Len(output'[c]))
    <3>1. Lies(output'[c], owed'[c], 0)
      BY <1>14 DEF Chain
    <3> QED
      BY <1>14, <3>1, LiesInFront
  <2> QED
    BY <1>6, <1>7, <1>11, <2>1
<1>19. ClientMovesBytes(c)
  BY <1>1, <1>6, <1>10, <1>12, <1>14, <1>7 DEF ClientMovesBytes, ForkTypes
<1>20. Faithful(c)'
  BY <1>1, <1>3, <1>16, <1>17 DEF Faithful
<1> QED
  BY <1>11, <1>12, <1>18, <1>19, <1>20

\* With plain read and write the client goes on after its connection is closed.
LEMMA FaithfulOfGoesOn ==
    ASSUME ForkTypes, NEW c \in Clients, Faithful(c), GoesOnUnaware(c), UNCHANGED program,
           Closed(c) => Closed(c)'
    PROVE  Faithful(c)'
<1>1. /\ UNCHANGED <<typed, owed, output, toServer, toClient, recvbuf, child>>
      /\ client[c] \in {"write", "read"} /\ client'[c] \in {"type", "ended"}
      /\ sendrecvbuf'[c] = << >> /\ Closed(c) /\ ~ Whole
  BY DEF GoesOnUnaware, Deserted, children, wires, ForkTypes, Whole
<1>2. Words(c) /\ Buffers(c) /\ OnTheWay(c)
  BY <1>1 DEF Faithful
<1>3. /\ Whole' = Whole /\ Stream(c)' = Stream(c) /\ Start(c)' = Start(c)
      /\ Back(c)' = << >> /\ Back(c) = << >>
  BY <1>1, <1>2 DEF Whole, Plain, Stream, Start, Back, Buffers
<1>4. OnTheWay(c)'
  BY <1>1, <1>2, <1>3 DEF OnTheWay
<1>5. Words(c)' /\ Buffers(c)'
  BY <1>1, <1>2, <1>3 DEF Words, Buffers
<1> QED
  BY <1>1, <1>3, <1>4, <1>5 DEF Faithful


----------------------------------------------------------------------------
(* The steps of the whole                                                  *)

\* The clients that have ended.
Over == {c \in Clients : client[c] = "ended"}

\* One client's step can only end that one.
LEMMA OverOf ==
    ASSUME ForkTypes, NEW c \in Clients, \A b \in Clients \ {c} : client'[b] = client[b]
    PROVE  /\ (client[c] = "ended" <=> client'[c] = "ended") => Over' = Over
           /\ client'[c] = "ended" => Over' = Over \cup {c}
BY DEF Over

\* A client's step keeps the invariant, and is a step of EchoService or none.
LEMMA ClientStep ==
    ASSUME ForkInv, NEW c \in Clients, Client(c), UNCHANGED program
    PROVE  /\ ForkInv'
           /\ \/ Echo!Type(c) \/ Echo!PrintLine(c) \/ Echo!PrintPiece(c)
              \/ Echo!Overrun(c) \/ Echo!End(c)
              \/ UNCHANGED <<typed, owed, output, Over>>
<1>1. /\ ForkTypes /\ OneChild /\ client[c] # "ended"
      /\ \A b \in Clients \ {c} : client'[b] = client[b]
      /\ \A b \in Clients : Faithful(b)
  BY ClientGoes DEF ForkInv
<1>2. \A b \in Clients : Closed(b) /\ ~ (b = c /\ Connect(c)) => Closed(b)'
  BY <1>1, ClosedOfClient
<1>0. ClientMovesBytes(c)
  <2>1. CASE ClientReadsFull(c)
    <3>1. ~ Connect(c)
      BY <2>1 DEF ClientReadsFull, Connect
    <3> QED
      BY <1>1, <1>2, <2>1, <3>1, FaithfulOfClientReadsFull
  <2>2. CASE ~ ClientReadsFull(c)
    BY <1>1, <2>2, ClientBytes
  <2> QED
    BY <2>1, <2>2
<1>3. ASSUME NEW b \in Clients \ {c} PROVE Faithful(b)'
  <2>1. /\ client'[b] = client[b] /\ typed'[b] = typed[b] /\ recvbuf'[b] = recvbuf[b]
        /\ sendrecvbuf'[b] = sendrecvbuf[b] /\ owed'[b] = owed[b]
        /\ output'[b] = output[b] /\ toServer'[b] = toServer[b]
        /\ toClient'[b] = toClient[b] /\ child'[b] = child[b]
    BY <1>0, <1>1, ClientGoes DEF ClientMovesBytes
  <2>2. Closed(b) => Closed(b)'
    BY <1>2
  <2> QED
    BY <1>1, <2>1, <2>2, Undisturbed
<1>4. ForkTypes' /\ OneChild'
  BY <1>0, <1>1, TypesOfClient
<1>5. client'[c] = "ended" => Over' = Over \cup {c}
  BY <1>1, OverOf
<1>6. client'[c] # "ended" => Over' = Over
  BY <1>1, OverOf
<1>7. c \notin Over
  BY <1>1 DEF Over
<1> SUFFICES /\ Faithful(c)'
             /\ \/ Echo!Type(c) \/ Echo!PrintLine(c) \/ Echo!PrintPiece(c)
                \/ Echo!Overrun(c) \/ Echo!End(c)
                \/ UNCHANGED <<typed, owed, output, Over>>
  BY <1>3, <1>4 DEF ForkInv
<1>8. CASE Connect(c)
  <2>1. client'[c] = "type" /\ UNCHANGED <<typed, owed, output>>
    BY <1>1, <1>8 DEF Connect, ForkTypes
  <2> QED
    BY <1>1, <1>6, <1>8, <2>1, FaithfulOfConnect
<1>9. CASE Type(c)
  <2>1. Faithful(c)'
    <3>1. ~ Connect(c)
      BY <1>9 DEF Connect, Type
    <3> QED
      BY <1>1, <1>2, <1>9, <3>1, FaithfulOfType
  <2>2. client'[c] = "write" /\ client[c] = "type"
    BY <1>1, <1>9, TypeMoves
  <2>3. ~ Plain => output[c] = owed[c]
    BY <1>1, <2>2 DEF Faithful, Words, Whole, Busy
  <2>4. /\ typed[c] < Len(Lines[c])
        /\ typed' = [typed EXCEPT ![c] = @ + 1]
        /\ owed' = [owed EXCEPT ![c] = @ \o Lines[c][typed'[c]]]
        /\ UNCHANGED output
    BY <1>9 DEF Type
  <2>5. Echo!Type(c)
    BY <1>6, <1>7, <2>2, <2>3, <2>4 DEF Echo!Type, Over, Plain
  <2> QED
    BY <2>1, <2>5
<1>10. CASE ClientWrites(c)
  <2>1. client'[c] # "ended" /\ UNCHANGED <<typed, owed, output>>
    BY <1>1, <1>10, ClientWritesBytes
  <2> QED
    BY <1>1, <1>6, <1>10, <2>1, FaithfulOfClientWrites
<1>11. CASE ClientReads(c)
  <2>1. PICK k \in 1 .. Len(toClient[c]), buf \in Seq(Nat) :
           /\ Passes(sendrecvbuf[c], toClient[c], k, buf, toClient'[c])
           /\ buf # << >>
           /\ IF IsWhole(buf)
              THEN /\ output' = [output EXCEPT ![c] = @ \o Text(buf)]
                   /\ sendrecvbuf' = [sendrecvbuf EXCEPT ![c] = << >>]
                   /\ client'[c] = "type"
              ELSE /\ sendrecvbuf' = [sendrecvbuf EXCEPT ![c] = buf]
                   /\ UNCHANGED <<output, client>>
    BY <1>1, <1>11, ClientReadsBytes
  <2>2. UNCHANGED <<typed, owed>> /\ client[c] = "read"
    BY <1>1, <1>11, ClientReadsBytes
  <2>3. Closed(c) => Closed(c)'
    BY <1>2, <2>2 DEF Connect
  <2>4. CASE ~ IsWhole(buf)
    <3>1. client'[c] # "ended" /\ UNCHANGED output
      BY <1>1, <2>1, <2>4
    <3>2. Faithful(c)'
      BY <1>1, <1>11, <2>1, <2>3, <2>4, FaithfulOfPart
    <3> QED
      BY <1>6, <2>2, <3>1, <3>2
  <2>5. CASE IsWhole(buf) /\ Whole
    <3>1. Faithful(c)' /\ output[c] # owed[c] /\ output'[c] = owed[c]
      BY <1>1, <1>11, <2>1, <2>5, FaithfulOfWhole
    <3>2. output' = [output EXCEPT ![c] = owed[c]]
      BY <1>1, <2>1, <2>5, <3>1 DEF ForkTypes
    <3>3. Over' = Over
      BY <1>6, <2>1, <2>5
    <3>4. Echo!PrintLine(c)
      BY <1>7, <2>2, <2>5, <3>1, <3>2, <3>3 DEF Echo!PrintLine, Over, Whole, Plain
    <3> QED
      BY <3>1, <3>4
  <2>6. CASE IsWhole(buf) /\ ~ Whole
    <3>1. PICK m \in Len(output[c]) + 1 .. Len(owed[c]) :
             Faithful(c)' /\ output'[c] = SubSeq(owed[c], 1, m)
      BY <1>1, <1>11, <2>1, <2>3, <2>6, FaithfulOfRaw
    <3>2. output' = [output EXCEPT ![c] = SubSeq(owed[c], 1, m)]
      BY <1>1, <2>1, <2>6, <3>1 DEF ForkTypes
    <3>3. Over' = Over
      BY <1>6, <2>1, <2>6
    <3>4. Echo!PrintPiece(c)
      BY <1>7, <2>2, <2>6, <3>2, <3>3 DEF Echo!PrintPiece, Over, Whole, Plain
    <3> QED
      BY <3>1, <3>4
  <2> QED
    BY <2>4, <2>5, <2>6
<1>12. CASE ServerClosed(c) \/ Leave(c)
  <2>1. client'[c] = "ended" /\ UNCHANGED <<typed, owed, output>>
    BY <1>1, <1>12 DEF ServerClosed, Leave, ForkTypes
  <2>2. Faithful(c)'
    BY <2>1 DEF Faithful
  <2>3. Echo!End(c)
    BY <1>5, <2>1 DEF Echo!End, Over, Plain
  <2> QED
    BY <2>2, <2>3
<1>13. CASE GoesOnUnaware(c)
  <2>1. UNCHANGED <<typed, owed, output>> /\ client[c] # "none"
    BY <1>1, <1>13 DEF GoesOnUnaware, Deserted
  <2>2. Faithful(c)'
    <3>1. Closed(c) => Closed(c)'
      BY <1>2, <2>1 DEF Connect
    <3> QED
      BY <1>1, <1>13, <3>1, FaithfulOfGoesOn
  <2>3. client'[c] = "ended" => Echo!End(c)
    BY <1>5, <2>1 DEF Echo!End, Over, Plain
  <2> QED
    BY <1>6, <2>1, <2>2, <2>3
<1>14. CASE ClientReadsFull(c)
  <2>1. /\ ~ Connect(c) /\ ~ Whole /\ client'[c] # "ended" /\ UNCHANGED typed
    BY <1>1, <1>14 DEF ClientReadsFull, Connect, Whole, Plain, ForkTypes
  <2>2. Faithful(c)'
    BY <1>1, <1>2, <1>14, <2>1, FaithfulOfClientReadsFull
  <2>3. PICK k \in Len(output[c]) + MAXLINE .. Len(owed[c]) :
           /\ owed' = [owed EXCEPT ![c] = InsertAt(owed[c], k + 1, Beyond)]
           /\ output' = [output EXCEPT ![c] = SubSeq(owed'[c], 1, k + 1)]
    BY <1>1, <1>2, <1>14, <2>1, FaithfulOfClientReadsFull
  <2>4. Over' = Over
    BY <1>6, <2>1
  <2>5. Echo!Overrun(c)
    BY <1>7, <2>1, <2>3, <2>4
       DEF Echo!Overrun, Echo!InsertAt, InsertAt, Over, Whole, Plain
  <2> QED
    BY <2>2, <2>5
<1> QED
  BY <1>8, <1>9, <1>10, <1>11, <1>12, <1>13, <1>14 DEF Client, Runs


\* Every step keeps the invariant and is one of EchoService, or none.
LEMMA ForkStep ==
    ForkInv /\ [ForkNext]_forkVars => ForkInv' /\ [Echo!Next]_(Echo!vars)
<1> SUFFICES ASSUME ForkInv, [ForkNext]_forkVars
             PROVE  ForkInv' /\ [Echo!Next]_(Echo!vars)
  OBVIOUS
<1>1. CASE Parent /\ UNCHANGED program
  <2>1. ForkInv' /\ UNCHANGED <<clients, program>>
    BY <1>1, ForkInvOfParent
  <2>2. UNCHANGED Echo!vars
    BY <2>1 DEF clients, Echo!vars, Plain
  <2> QED
    BY <2>1, <2>2
<1>2. ASSUME NEW c \in Clients, Child(c), UNCHANGED program
      PROVE  ForkInv' /\ [Echo!Next]_(Echo!vars)
  <2>1. ForkInv' /\ UNCHANGED <<client, typed, output, program>>
    BY <1>2, ForkInvOfChild
  <2>2. CASE UNCHANGED owed
    <3>1. UNCHANGED Echo!vars
      BY <2>1, <2>2 DEF Echo!vars, Plain
    <3> QED
      BY <2>1, <3>1
  <2>3. CASE ~ UNCHANGED owed
    <3>1. PICK k \in Len(output[c]) + MAXLINE .. Len(owed[c]) :
             /\ owed' = [owed EXCEPT ![c] = InsertAt(owed[c], k + 1, Beyond)]
             /\ ~ Whole /\ client[c] # "ended"
      BY <1>2, <2>3, ForkInvOfChild
    <3>2. Echo!Overrun(c)
      BY <2>1, <3>1 DEF Echo!Overrun, Echo!InsertAt, InsertAt, Whole, Plain
    <3> QED
      BY <2>1, <3>2 DEF Echo!Next
  <2> QED
    BY <2>2, <2>3
<1>3. ASSUME NEW c \in Clients, Client(c), UNCHANGED program
      PROVE  ForkInv' /\ [Echo!Next]_(Echo!vars)
  <2>1. ForkInv'
    BY <1>3, ClientStep
  <2>2. CASE \/ Echo!Type(c) \/ Echo!PrintLine(c) \/ Echo!PrintPiece(c)
             \/ Echo!Overrun(c) \/ Echo!End(c)
    BY <2>1, <2>2 DEF Echo!Next
  <2>3. CASE UNCHANGED <<typed, owed, output, Over>>
    <3>1. UNCHANGED Echo!vars
      BY <1>3, <2>3 DEF Over, Echo!vars, Plain
    <3> QED
      BY <2>1, <3>1
  <2> QED
    BY <1>3, <2>2, <2>3, ClientStep
<1>4. CASE UNCHANGED forkVars
  <2>1. UNCHANGED <<program, ppc, conn, backlog, child, recvbuf, client, typed,
                    sendrecvbuf, owed, output, toServer, toClient>>
    BY <1>4 DEF forkVars, parent, children, clients, wires
  <2>2. ForkTypes' /\ OneChild'
    BY <2>1 DEF ForkInv, ForkTypes, OneChild
  <2>3. ASSUME NEW b \in Clients PROVE Faithful(b)'
    <3>1. Faithful(b) /\ (Closed(b) => Closed(b)')
      BY <2>1 DEF ForkInv, Closed, Queued, Held, Listening
    <3> QED
      BY <2>1, <3>1, Undisturbed
  <2>4. UNCHANGED Echo!vars
    BY <2>1 DEF Echo!vars, Plain
  <2> QED
    BY <2>2, <2>3, <2>4 DEF ForkInv
<1> QED
  BY <1>1, <1>2, <1>3, <1>4 DEF ForkNext

\* Whatever the cuts of the messages, and whatever becomes of the parent, the
\* children and the other clients: a client prints what was typed into it, and
\* only overruns of full buffers add to that, when it is behind by a buffer.
THEOREM ForkRefinesEcho == ForkSpec => ImplementsEcho
<1>1. ForkInit => ForkInv
  BY ForkInitially
<1>2. ForkInit => Echo!Init
  BY DEF ForkInit, Echo!Init
<1>3. ForkInv /\ [ForkNext]_forkVars => ForkInv' /\ [Echo!Next]_(Echo!vars)
  BY ForkStep
<1> QED
  BY <1>1, <1>2, <1>3, PTL DEF ForkSpec, ImplementsEcho, Echo!Spec
=============================================================================
