--------------------------- MODULE RabbitMQOutbox ---------------------------
(***************************************************************************)
(* What a RabbitMQClient promises to the dispatching code, without its     *)
(* goroutines: a message given to it is written once, or held until it can *)
(* be, or dropped because the cache is full or because it cannot be        *)
(* marshalled; a client that has been closed sends nothing.                *)
(* RabbitMQClient implements this specification.                           *)
(***************************************************************************)
EXTENDS Naturals, FiniteSets

CONSTANTS Messages, CacheCap

VARIABLES
    fate,       \* of each message
    open,       \* Close has not returned
    broken      \* the messages that cannot be marshalled

Fates == {"pending", "held", "sent", "gone"}

TypeOK ==
    /\ fate \in [Messages -> Fates] /\ open \in BOOLEAN
    /\ broken \subseteq Messages

HeldMessages == {m \in Messages : fate[m] = "held"}

Init ==
    /\ fate = [m \in Messages |-> "pending"] /\ open = TRUE
    /\ broken \in SUBSET Messages

Hold(m) ==
    /\ fate[m] = "pending"
    /\ fate' = [fate EXCEPT ![m] = "held"]
    /\ UNCHANGED <<open, broken>>

Send(m) ==
    /\ open /\ m \notin broken
    /\ fate[m] \in {"pending", "held"}
    /\ fate' = [fate EXCEPT ![m] = "sent"]
    /\ UNCHANGED <<open, broken>>

\* a message is given up only when the cache is full of messages that are held,
\* or when it can never be sent
Drop(m) ==
    /\ fate[m] \in {"pending", "held"}
    /\ m \in broken \/ Cardinality(HeldMessages) >= CacheCap
    /\ fate' = [fate EXCEPT ![m] = "gone"]
    /\ UNCHANGED <<open, broken>>

Shut == open /\ open' = FALSE /\ UNCHANGED <<fate, broken>>

Next == Shut \/ \E m \in Messages : Hold(m) \/ Send(m) \/ Drop(m)

Spec == Init /\ [][Next]_<<fate, open, broken>>

=============================================================================
