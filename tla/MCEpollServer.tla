--------------------------- MODULE MCEpollServer ---------------------------
(* Three clients, descriptors for two of them, and an array of three      *)
(* events: a batch that fills it is too many.                              *)
EXTENDS EpollServer, TLC

CONSTANTS alice, bob, carol

MCStream == alice :> <<1, NL, 2, NL>> @@ bob :> <<NL>> @@ carol :> << >>
=============================================================================
