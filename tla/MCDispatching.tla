---------------------------- MODULE MCDispatching ----------------------------
(* Two messages, one of them from the API with the track id of b, over        *)
(* webhooks, of which a refuses groups, and a queue q.                       *)
EXTENDS Dispatching, TLC

MCMessages == {
    [kind |-> "text", from |-> "group", internal |-> FALSE, track |-> ""],
    [kind |-> "text", from |-> "chat", internal |-> TRUE, track |-> "t"]}

MCType == [u \in Urls |-> IF u = "q" THEN "rabbitmq" ELSE "webhook"]
MCRefuses == [u \in Urls |-> IF u = "a" THEN {"group"} ELSE {}]
\* append doubles an array that is full
MCCapacity == [n \in 0..(Cardinality(Urls) + MaxOps) |->
    IF n = 0 THEN 0 ELSE CHOOSE c \in {1, 2, 4, 8} : n <= c /\ c < 2 * n]
MCTrackId == [u \in Urls |-> IF u = "b" THEN "t" ELSE ""]
=============================================================================
