---------------------------- MODULE MCReadline ----------------------------
(* Every stream of at most six bytes, each '\n' or another byte, read with *)
(* a buffer of three: lines shorter than it, as long and longer, several   *)
(* lines in one peek, and a line cut anywhere by TCP or by a short read.   *)
EXTENDS Readline

MCStreams == UNION {[1 .. k -> {NL, 1}] : k \in 0 .. 6}
=============================================================================
