---------------------------- MODULE EchoService ----------------------------
(***************************************************************************)
(* What the forking echo servers and their clients promise a user: each    *)
(* client prints what was typed into it, in order and unchanged, and other *)
(* clients make no difference.  With packets or lines it prints each line  *)
(* as a whole, after it was typed and before the next is.  With plain read *)
(* and write it prints the same bytes in pieces, in step with the lines or *)
(* behind them; only for a client that is behind by as much as a buffer    *)
(* holds may bytes be put in that nobody typed, and even then none of the  *)
(* bytes that were typed is lost, doubled or moved.                        *)
(***************************************************************************)
EXTENDS Integers, Sequences, SequencesExt

CONSTANTS Clients,     \* the clients
          Lines,       \* the lines typed into each
          MAXLINE,     \* the bytes a buffer holds
          Beyond       \* what is put in: a byte from beyond a buffer

VARIABLES whole,       \* the service is one of packets or lines
          typed,       \* how many lines a client has been given
          owed,        \* the bytes of these lines, and what was put in
          output,      \* the bytes it has printed
          over         \* the clients that have ended

vars == <<whole, typed, owed, output, over>>

Init == /\ whole \in BOOLEAN
        /\ typed = [c \in Clients |-> 0]
        /\ owed = [c \in Clients |-> << >>]
        /\ output = [c \in Clients |-> << >>]
        /\ over = {}

Type(c) == /\ c \notin over
           /\ whole => output[c] = owed[c]
           /\ typed[c] < Len(Lines[c])
           /\ typed' = [typed EXCEPT ![c] = @ + 1]
           /\ owed' = [owed EXCEPT ![c] = @ \o Lines[c][typed'[c]]]
           /\ UNCHANGED <<whole, output, over>>

\* The line just typed is the only one still to be printed.
PrintLine(c) == /\ whole /\ c \notin over
                /\ output[c] # owed[c]
                /\ output' = [output EXCEPT ![c] = owed[c]]
                /\ UNCHANGED <<whole, typed, owed, over>>

PrintPiece(c) == /\ ~ whole /\ c \notin over
                 /\ \E k \in Len(output[c]) + 1 .. Len(owed[c]) :
                       output' = [output EXCEPT ![c] = SubSeq(owed[c], 1, k)]
                 /\ UNCHANGED <<whole, typed, owed, over>>

\* A full buffer is overrun: by what sends the echo, or by the client itself,
\* which prints it.
Overrun(c) == /\ ~ whole /\ c \notin over
              /\ \E k \in Len(output[c]) + MAXLINE .. Len(owed[c]) :
                    /\ owed' = [owed EXCEPT ![c] = InsertAt(@, k + 1, Beyond)]
                    /\ \/ UNCHANGED output
                       \/ output' = [output EXCEPT ![c] = SubSeq(owed'[c], 1, k + 1)]
              /\ UNCHANGED <<whole, typed, over>>

End(c) == /\ over' = over \cup {c}
          /\ UNCHANGED <<whole, typed, owed, output>>

Next == \E c \in Clients : \/ Type(c) \/ PrintLine(c) \/ PrintPiece(c)
                           \/ Overrun(c) \/ End(c)

Spec == Init /\ [][Next]_vars
=============================================================================
