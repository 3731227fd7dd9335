--------------------------- MODULE MCRelayRuntime ---------------------------
(***************************************************************************)
(* Instances of RelayRuntime for TLC.                                      *)
(***************************************************************************)
EXTENDS RelayRequirements, FiniteSets, TLC

\* Some order of the operations in the store.
MCListRank == CHOOSE rank \in [Ops -> 1..Cardinality(Ops)] :
                  \A p, q \in Ops : rank[p] = rank[q] => p = q

\* Every status the relayer can show, or the two that matter for fallback.
AllStatuses  == InProgress
CoreStatuses == {"accepted", "submitted"}

\* The callers are interchangeable.
CallerSymmetry == Permutations(Callers)
=============================================================================
