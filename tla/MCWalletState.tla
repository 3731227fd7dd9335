--------------------------- MODULE MCWalletState ---------------------------
(* Constants for model checking WalletState. *)
EXTENDS WalletState, TLC

CONSTANTS main, side, c1, c2

\* Two pools: a larger one, and a smaller one whose calls cost more.
LeavesOfPools == main :> 4 @@ side :> 2
CostOfPools == main :> 1 @@ side :> 2

\* The wallet that is hydrated: one asset, two addresses.
SnapshotAssets == <<"xlm">>
SnapshotNonces == <<"1", "2">>

Symmetry == Permutations({c1, c2})
=============================================================================
