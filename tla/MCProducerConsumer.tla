------------------------ MODULE MCProducerConsumer ------------------------
(* A ring of three slots, so that both the empty slot and the wrap matter, *)
(* and enough items to go round it more than twice.                        *)
EXTENDS ProducerConsumer

\* Bounds: BUFFER_SIZE = 3, Items = 7 (see the cfg).
\* Both ended: the only state in which nothing may happen.
Ended == pc["main"] = "done"

Stop == Ended /\ UNCHANGED vars

MCNext == Next \/ Stop
MCSpec == Init /\ [][MCNext]_vars /\ WF_vars(Producer) /\ WF_vars(Consumer)
          /\ WF_vars(Join)
=============================================================================
