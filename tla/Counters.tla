------------------------------ MODULE Counters ------------------------------
(***************************************************************************)
(* multithread/multithread.c: main starts two threads, which add to        *)
(* `number` in a loop, and joins them.  `number` is guarded by a mutex.    *)
(* The loop counter is the global `i`, which both threads set to 0, test   *)
(* and step without a lock; a step is a load and a store.                  *)
(*                                                                         *)
(* A definition named Bug... is the one after it with a plausible mistake; *)
(* no specification uses it, it serves to see a property fail.             *)
(***************************************************************************)
EXTENDS Integers

CONSTANTS MAX,         \* how far the loops go (10)
          MaxNumber,   \* bound on number: each store of a stale i repeats steps
          Unlocked     \* nobody holds the mutex

Threads == {1, 2}

ASSUME CountersAssumption == /\ MAX \in Nat \ {0}
                             /\ MaxNumber \in Nat
                             /\ Unlocked \notin Threads

VARIABLES mainpc,      \* main: "create", "join", "end"
          created,     \* the threads whose pthread_create has succeeded
          next,        \* the thread that main creates or joins next
          at,          \* where each thread is; "none" before it is created
          i,           \* the loop counter
          number,
          mut,         \* who holds the mutex
          reg          \* what a thread has loaded, of number or of i

mainVars == <<mainpc, created, next>>
counters == <<mainVars, at, i, number, mut, reg>>

CountersInit == /\ mainpc = "create" /\ created = {} /\ next = 1
                /\ at = [t \in Threads |-> "none"]
                /\ i = 0 /\ number = 0
                /\ mut = Unlocked
                /\ reg = [t \in Threads |-> 0]

Go(t, from, to) == at[t] = from /\ at' = [at EXCEPT ![t] = to]

----------------------------------------------------------------------------
(* main                                                                    *)

Onwards(then) == IF next = 1
                 THEN next' = 2 /\ UNCHANGED mainpc
                 ELSE next' = 1 /\ mainpc' = then

Create == /\ mainpc = "create"
          /\ created' = created \union {next}
          /\ Go(next, "none", "init")
          /\ Onwards("join")
          /\ UNCHANGED <<i, number, mut, reg>>

\* thread[k] stays 0, the value from memset, so that no join follows.  POSIX
\* leaves it undefined after a failure; glibc does not store it when there is
\* no memory for the thread's stack.
CreateFails == /\ mainpc = "create"
               /\ Onwards("join")
               /\ UNCHANGED <<created, at, i, number, mut, reg>>

\* pthread_join waits for a thread that was created.
Joined(t) == at[t] \in {"none", "ended"}

JoinThreads == /\ mainpc = "join"
               /\ Joined(next)
               /\ Onwards("end")
               /\ UNCHANGED <<created, at, i, number, mut, reg>>

----------------------------------------------------------------------------
(* A thread                                                                *)

SetI(t) == /\ Go(t, "init", "test")
           /\ i' = 0
           /\ UNCHANGED <<number, mut, reg>>

TestI(t) == /\ Go(t, "test", IF i < MAX THEN "lock" ELSE "ended")
            /\ UNCHANGED <<i, number, mut, reg>>

BugFree == TRUE
Free == mut = Unlocked

LockNumber(t) == /\ Go(t, "lock", "load")
                 /\ Free
                 /\ number < MaxNumber
                 /\ mut' = t
                 /\ UNCHANGED <<i, number, reg>>

LoadNumber(t) == /\ Go(t, "load", "store")
                 /\ reg' = [reg EXCEPT ![t] = number]
                 /\ UNCHANGED <<i, number, mut>>

StoreNumber(t) == /\ Go(t, "store", "unlock")
                  /\ number' = reg[t] + 1
                  /\ UNCHANGED <<i, mut, reg>>

Unlock(t) == /\ Go(t, "unlock", "loadi")
             /\ mut' = Unlocked
             /\ UNCHANGED <<i, number, reg>>

LoadI(t) == /\ Go(t, "loadi", "storei")
            /\ reg' = [reg EXCEPT ![t] = i]
            /\ UNCHANGED <<i, number, mut>>

StoreI(t) == /\ Go(t, "storei", "test")
             /\ i' = reg[t] + 1
             /\ UNCHANGED <<number, mut, reg>>

Counts(t) == /\ \/ SetI(t) \/ TestI(t) \/ LockNumber(t) \/ LoadNumber(t)
                \/ StoreNumber(t) \/ Unlock(t) \/ LoadI(t) \/ StoreI(t)
             /\ UNCHANGED mainVars

----------------------------------------------------------------------------
CountersNext == Create \/ CreateFails \/ JoinThreads \/ \E t \in Threads : Counts(t)

CountersSpec == CountersInit /\ [][CountersNext]_counters

----------------------------------------------------------------------------
(* Properties                                                              *)

\* Although the threads overwrite each other's loop counter, the work is never
\* done short: when main ends no thread is left running, and if one was created
\* number has been counted up at least MAX times.
AllCounted ==
    mainpc = "end" => /\ \A t \in created : at[t] = "ended"
                      /\ created # {} => number >= MAX
=============================================================================
