------------------------- MODULE MCShutdownSession -------------------------
(* Short lines, a long one and a rest without '\n'; a socket holds two      *)
(* bytes, so that lines are cut anywhere and both sides can block.          *)
EXTENDS ShutdownSession, TLC

MCStream == me :> <<NL, 1, NL, NL, 2, 3, NL, NL, 4>>
=============================================================================
