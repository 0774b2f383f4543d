------------------------- MODULE ProducerConsumer -------------------------
(***************************************************************************)
(* multithread/threads_producer_consumer.c: a producer and a consumer that *)
(* share a ring buffer guarded by one mutex and two condition variables,   *)
(* and the main thread that joins them.                                    *)
(*                                                                         *)
(* The ring keeps one slot empty: readpos = writepos means empty, writepos *)
(* one behind readpos means full.  A thread leaves a condition variable    *)
(* when it is signalled ("relock") and goes on once it owns the mutex      *)
(* again.  Both put and get test the buffer with `if`, not `while`: they   *)
(* do not look again after the wait.                                       *)
(*                                                                         *)
(* A definition named Bug... is the one after it with a plausible mistake; *)
(* no specification uses it, it serves to see a property fail.             *)
(***************************************************************************)
EXTENDS Integers, Sequences

CONSTANTS BUFFER_SIZE,  \* slots of the ring (16 in the code)
          Items         \* numbers the producer sends before OVER (10000)

ASSUME SizeAssumption == BUFFER_SIZE \in Nat /\ BUFFER_SIZE >= 2
ASSUME ItemsAssumption == Items \in Nat

VARIABLES buffer,    \* b->buffer
          readpos,   \* b->readpos
          writepos,  \* b->writepos
          lock,      \* the owner of b->lock, or "free"
          pc,        \* where each thread is
          n,         \* how many calls of put have returned (the counter n)
          got        \* the values get has read, in order (the output)

vars == <<buffer, readpos, writepos, lock, pc, n, got>>

Peers == {"producer", "consumer"}
Peer(t) == IF t = "producer" THEN "consumer" ELSE "producer"
Slots == 0 .. BUFFER_SIZE - 1
OVER == -1

\* The argument of the k-th call of put: the counter, then OVER.
Item(k) == IF k < Items THEN k ELSE OVER

Init == /\ buffer = [s \in Slots |-> 0]
        /\ readpos = 0
        /\ writepos = 0
        /\ lock = "free"
        /\ pc = [t \in Peers \cup {"main"} |->
                   IF t = "main" THEN "join" ELSE "lock"]
        /\ n = 0
        /\ got = << >>

Full == (writepos + 1) % BUFFER_SIZE = readpos
Empty == writepos = readpos

\* A position after its increment and its wrap.
Advance(pos) == IF pos + 1 >= BUFFER_SIZE THEN 0 ELSE pos + 1

----------------------------------------------------------------------------
(* What the two threads do with the mutex and the condition variables.     *)

Goto(t, place) == pc' = [pc EXCEPT ![t] = place]

\* pthread_mutex_lock at the head of put and get.
Lock(t) == /\ pc[t] = "lock"
           /\ lock = "free"
           /\ lock' = t
           /\ Goto(t, "check")
           /\ UNCHANGED <<buffer, readpos, writepos, n, got>>

\* What the `if` of put and of get tests before waiting.
BugFullNoWrap(t) == IF t = "producer" THEN writepos + 1 = readpos ELSE Empty
MustWait(t) == IF t = "producer" THEN Full ELSE Empty

\* The wait that the `if` guards releases the mutex as it starts to wait.
Wait(t) == /\ pc[t] = "check"
           /\ MustWait(t)
           /\ lock' = "free"
           /\ Goto(t, "waiting")
           /\ UNCHANGED <<buffer, readpos, writepos, n, got>>

GoOn(t) == /\ pc[t] = "check"
           /\ ~ MustWait(t)
           /\ Goto(t, "access")
           /\ UNCHANGED <<buffer, readpos, writepos, lock, n, got>>

\* pthread_cond_wait returns: the signalled thread has the mutex again.
BugNoMutex(t) == /\ pc[t] = "relock"
                 /\ lock' = t
                 /\ Goto(t, "access")
                 /\ UNCHANGED <<buffer, readpos, writepos, n, got>>
Relock(t) == /\ pc[t] = "relock"
             /\ lock = "free"
             /\ lock' = t
             /\ Goto(t, "access")
             /\ UNCHANGED <<buffer, readpos, writepos, n, got>>

\* Each signals the condition that only its peer waits on.  A signal that
\* nobody waits for is lost.
BugNoSignal(t) == /\ pc[t] = "signal"
                  /\ Goto(t, "unlock")
                  /\ UNCHANGED <<buffer, readpos, writepos, lock, n, got>>
Signal(t) == /\ pc[t] = "signal"
             /\ pc' = [pc EXCEPT ![t] = "unlock",
                                 ![Peer(t)] = IF @ = "waiting" THEN "relock"
                                              ELSE @]
             /\ UNCHANGED <<buffer, readpos, writepos, lock, n, got>>

----------------------------------------------------------------------------
(* put and the producer's loop                                             *)

Write == /\ pc["producer"] = "access"
         /\ buffer' = [buffer EXCEPT ![writepos] = Item(n)]
         /\ writepos' = Advance(writepos)
         /\ Goto("producer", "signal")
         /\ UNCHANGED <<readpos, lock, n, got>>

\* The producer puts 0, ..., Items - 1 and OVER, then returns.
PutReturns == /\ pc["producer"] = "unlock"
              /\ lock' = "free"
              /\ n' = n + 1
              /\ Goto("producer", IF n = Items THEN "done" ELSE "lock")
              /\ UNCHANGED <<buffer, readpos, writepos, got>>

(* get and the consumer's loop                                             *)

BugReadNext == /\ pc["consumer"] = "access"
               /\ got' = Append(got, buffer[Advance(readpos)])
               /\ readpos' = Advance(readpos)
               /\ Goto("consumer", "signal")
               /\ UNCHANGED <<buffer, writepos, lock, n>>
Read == /\ pc["consumer"] = "access"
        /\ got' = Append(got, buffer[readpos])
        /\ readpos' = Advance(readpos)
        /\ Goto("consumer", "signal")
        /\ UNCHANGED <<buffer, writepos, lock, n>>

\* The consumer stops at OVER: got's last element is what this get returns.
GetReturns == /\ pc["consumer"] = "unlock"
              /\ lock' = "free"
              /\ Goto("consumer", IF got[Len(got)] = OVER THEN "done" ELSE "lock")
              /\ UNCHANGED <<buffer, readpos, writepos, n, got>>

\* Both pthread_join calls have returned: main ends.
Join == /\ pc["main"] = "join"
        /\ \A t \in Peers : pc[t] = "done"
        /\ Goto("main", "done")
        /\ UNCHANGED <<buffer, readpos, writepos, lock, n, got>>

----------------------------------------------------------------------------
Producer == \/ Lock("producer") \/ Wait("producer") \/ GoOn("producer")
            \/ Relock("producer") \/ Write \/ Signal("producer") \/ PutReturns

Consumer == \/ Lock("consumer") \/ Wait("consumer") \/ GoOn("consumer")
            \/ Relock("consumer") \/ Read \/ Signal("consumer") \/ GetReturns

Next == Producer \/ Consumer \/ Join

SafeSpec == Init /\ [][Next]_vars

\* The scheduler runs every thread that can run.
Spec == SafeSpec /\ WF_vars(Producer) /\ WF_vars(Consumer) /\ WF_vars(Join)

\* POSIX lets pthread_cond_wait return without a signal.
SpuriousWakeup(t) == /\ pc[t] = "waiting"
                     /\ Goto(t, "relock")
                     /\ UNCHANGED <<buffer, readpos, writepos, lock, n, got>>

SpuriousSpec == Init /\ [][Next \/ \E t \in Peers : SpuriousWakeup(t)]_vars

----------------------------------------------------------------------------
(* The refinement mapping                                                  *)

Occupied == IF writepos >= readpos THEN writepos - readpos
            ELSE writepos - readpos + BUFFER_SIZE

\* The slot k places after readpos.
SlotAfter(k) == IF readpos + k < BUFFER_SIZE THEN readpos + k
                ELSE readpos + k - BUFFER_SIZE

Contents == [k \in 1 .. Occupied |-> buffer[SlotAfter(k - 1)]]

\* Items written so far: put has written before it returns.
Written == IF pc["producer"] \in {"signal", "unlock"} THEN n + 1 ELSE n

Fifo == INSTANCE BoundedFifo WITH Capacity <- BUFFER_SIZE - 1, Last <- Items,
                                  queue <- Contents, puts <- Written,
                                  taken <- got

----------------------------------------------------------------------------
(* Properties                                                              *)

Places == {"lock", "check", "waiting", "relock", "access", "signal",
           "unlock", "done"}
Holding == {"check", "access", "signal", "unlock"}

\* The types of the variables.
TypeOK == /\ buffer \in [Slots -> Int]
          /\ readpos \in Slots
          /\ writepos \in Slots
          /\ lock \in Peers \cup {"free"}
          /\ pc \in [Peers \cup {"main"} -> Places \cup {"join"}]
          /\ n \in 0 .. Items + 1
          /\ got \in Seq(Int)

\* The mutex makes put and get exclude one another, also across the wait: a
\* thread that runs between lock and unlock is the one that owns b->lock.
LockHeld == \A t \in Peers : pc[t] \in Holding <=> lock = t

\* Testing with `if` is enough with one thread on each side: when put writes
\* the buffer is not full and when get reads it is not empty, although
\* neither looks again after its wait.
AccessAllowed == /\ pc["producer"] = "access" => ~ Full
                 /\ pc["consumer"] = "access" => ~ Empty

\* No lost wakeup: a thread waits only while its condition is false or the
\* peer, which has just changed the buffer, is about to signal.  So the two
\* threads never wait for one another.
NoLostWakeup == \A t \in Peers :
    pc[t] = "waiting" => MustWait(t) \/ pc[Peer(t)] = "signal"

\* The ring buffer is a bounded queue: what the producer puts is what the
\* consumer gets, once each and in order, and put never overwrites an item
\* that get has not read.
ImplementsFifo == Fifo!Spec

\* When both threads have ended the consumer got the whole stream, and main
\* ends: no deadlock in any interleaving.
RunsToTheEnd == <>(/\ pc["main"] = "done"
                   /\ got = [k \in 1 .. Items + 1 |-> Item(k - 1)])
=============================================================================
