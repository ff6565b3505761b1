-------------------------- MODULE MCOutboxPublisher --------------------------
(***************************************************************************)
(* Instances of OutboxPublisher for TLC: two workers, three events and     *)
(* batches of two, so that a batch can be full and rows left over.         *)
(***************************************************************************)
EXTENDS OutboxPublisher, TLC

CONSTANTS w1, w2

\* The workers run the same code.
AllWorkers == Permutations(Workers)
=============================================================================
