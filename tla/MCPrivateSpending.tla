-------------------------- MODULE MCPrivateSpending --------------------------
(* Instances of PrivateSpending for TLC. *)
EXTENDS SpendingRequirements, TLC

CONSTANTS n1, n2

\* Two notes: an amount of 2 takes the larger one or both, 4 takes both.
TwoNotes == n1 :> 3 @@ n2 :> 2

CallerSymmetry == Permutations(Callers)
=============================================================================
