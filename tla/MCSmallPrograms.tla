-------------------------- MODULE MCSmallPrograms --------------------------
(***************************************************************************)
(* Four programs that have nothing to do with one another, in one run:     *)
(* which of them runs is chosen at the start, the others stand still.      *)
(*   Timeouts: waits of 0, 1 and 2 seconds: none, the shortest, and one    *)
(*     that a signal can interrupt half-way;                               *)
(*   Chat: two lines a side, of one and two bytes, in messages of three,   *)
(*     and room for four: a read takes a message, a part, or parts of two; *)
(*   UdpEcho: a connected and an unconnected client, two lines each, and a *)
(*     server that ends twice;                                             *)
(*   Counters: loops of three steps, repeated until number is eight.       *)
(***************************************************************************)
EXTENDS Timeouts, Chat, UdpEcho, Counters, TLC

CONSTANTS alice, bob

MCTexts == "server" :> << <<1, 2>>, <<3>> >> @@ "client" :> << <<4>>, <<5, 6>> >>
MCUdpLines == alice :> 2 @@ bob :> 2

VARIABLE program       \* the one that runs

smallVars == <<program, timeoutsVars, chatVars, udpVars, counters>>

SmallInit == /\ program \in {"timeouts", "chat", "udp", "counters"}
             /\ TimeoutsInit /\ ChatInit /\ UdpInit /\ CountersInit

InTimeouts(A) == /\ program = "timeouts" /\ A
                 /\ UNCHANGED <<program, chatVars, udpVars, counters>>
InChat(A) == /\ program = "chat" /\ A
             /\ UNCHANGED <<program, timeoutsVars, udpVars, counters>>
InUdp(A) == /\ program = "udp" /\ A
            /\ UNCHANGED <<program, timeoutsVars, chatVars, counters>>
InCounters(A) == /\ program = "counters" /\ A
                 /\ UNCHANGED <<program, timeoutsVars, chatVars, udpVars>>

SmallNext == \/ InTimeouts(TimeoutsNext)
             \/ InChat(ChatNext)
             \/ InUdp(UdpNext)
             \/ InCounters(CountersNext)

\* The fairness of each program's own specification.
SmallSpec ==
    /\ SmallInit /\ [][SmallNext]_smallVars
    /\ WF_smallVars(InTimeouts(Caller)) /\ WF_smallVars(InTimeouts(Second))
    /\ \A s \in Sides : /\ WF_smallVars(InChat(Sender(s)))
                        /\ WF_smallVars(InChat(Receiver(s)))
    /\ WF_smallVars(InUdp(UdpServer))
    /\ \A c \in UdpClients : WF_smallVars(InUdp(UdpClient(c)))
=============================================================================
