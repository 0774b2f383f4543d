-------------------------- MODULE MCSelectServer --------------------------
(***************************************************************************)
(* Three clients on a server with room for two connections (descriptors 4  *)
(* and 5).  recvbuf holds three bytes and a socket two.  alice sends two   *)
(* lines, bob three bytes that fill recvbuf and end no line, carol only    *)
(* connects and leaves.                                                    *)
(***************************************************************************)
EXTENDS SelectServer, TLC

CONSTANTS alice, bob, carol

MCStream == alice :> <<NL, 1, NL>> @@ bob :> <<2, 3, 4>> @@ carol :> << >>
=============================================================================
