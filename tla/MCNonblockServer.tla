------------------------- MODULE MCNonblockServer -------------------------
(* Three clients for two slots, with descriptors for all of them.  A recv  *)
(* takes two pieces: alice's line comes in two parts, bob sends two lines.*)
EXTENDS NonblockServer, TLC

CONSTANTS alice, bob, carol

MCStream == alice :> <<1, NL>> @@ bob :> <<NL, NL>> @@ carol :> << >>
=============================================================================
