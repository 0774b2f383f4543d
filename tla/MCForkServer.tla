--------------------------- MODULE MCForkServer ---------------------------
(* Two clients, one of which types nothing and may keep its child.  Lines of *)
(* three bytes, one without '\n', a length of two bytes, connections and     *)
(* buffers of four: messages are cut anywhere, buffers are filled and        *)
(* overrun at both ends, and plain writes jam.                               *)
EXTENDS ForkServer, TLC

CONSTANTS alice, bob

MCLines == alice :> << <<1, 2, NL>>, <<3, 4, NL>>, <<5, 6, 7>>, <<8, 9, NL>> >> @@ bob :> << >>
=============================================================================
