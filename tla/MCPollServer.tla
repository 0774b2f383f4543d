--------------------------- MODULE MCPollServer ---------------------------
(* Three clients and a table with room for two connections, so that slots  *)
(* are used again and the table overflows; descriptors suffice.            *)
EXTENDS PollServer, TLC

CONSTANTS alice, bob, carol

MCStream == alice :> <<1, NL, 2>> @@ bob :> <<3, 4, NL>> @@ carol :> << >>
=============================================================================
