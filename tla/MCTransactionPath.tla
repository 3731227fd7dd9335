------------------------- MODULE MCTransactionPath -------------------------
(* Constants for model checking TransactionPath. *)
EXTENDS TransactionPath

\* No configured nonce, or one: of a circuit with public deposit and fee slots
\* for two or six outputs, or of one that has no circuit.
ConfiguredNonces == {{}, {0}, {3}, {6}, {7}}
=============================================================================
