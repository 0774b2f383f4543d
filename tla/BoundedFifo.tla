---------------------------- MODULE BoundedFifo ----------------------------
(***************************************************************************)
(* What the bounded buffer of multithread/threads_producer_consumer.c      *)
(* promises: a first-in first-out queue with room for Capacity items, into *)
(* which the stream Item(0), ..., Item(Last) is put in order and from      *)
(* which every item is taken once, in the same order.                      *)
(***************************************************************************)
EXTENDS Integers, Sequences

CONSTANTS Capacity,   \* how many items the queue holds at most
          Last,       \* the index of the last item of the stream
          Item(_)     \* the item at each index of the stream

VARIABLES queue,      \* the items put and not yet taken
          puts,       \* how many items have been put
          taken       \* the items taken, in the order they were

vars == <<queue, puts, taken>>

Init == /\ queue = << >>
        /\ puts = 0
        /\ taken = << >>

Put == /\ puts <= Last
       /\ Len(queue) < Capacity
       /\ queue' = Append(queue, Item(puts))
       /\ puts' = puts + 1
       /\ UNCHANGED taken

Get == /\ queue # << >>
       /\ taken' = Append(taken, Head(queue))
       /\ queue' = Tail(queue)
       /\ UNCHANGED puts

Next == Put \/ Get

Spec == Init /\ [][Next]_vars
=============================================================================
