---------------------------- MODULE MCTimeouts ----------------------------
(* Waits of 0, 1 and 2 seconds: none, the shortest, and one that a signal  *)
(* can interrupt half-way.                                                 *)
EXTENDS Timeouts
=============================================================================
