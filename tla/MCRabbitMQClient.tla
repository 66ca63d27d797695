-------------------------- MODULE MCRabbitMQClient --------------------------
(* RabbitMQClient on small instances                                        *)
EXTENDS RabbitMQClient, TLC

\* the goroutines of two messages differ in nothing
Symmetry == Permutations(Messages)
=============================================================================
