---------------------------- MODULE WalletState ----------------------------
(***************************************************************************)
(* What a wallet keeps beside its private records: the Merkle caches, the  *)
(* registry cache, and its assets, deliveries and addresses.  The three    *)
(* write different containers of the tree and call none of each other's    *)
(* operations, so a behaviour of one says nothing of another: a behaviour  *)
(* here is one of any of them, the other two at rest.                      *)
(***************************************************************************)
EXTENDS MerkleCache, RegistryCache, WalletStore

VARIABLE concern    \* "trees", "registry" or "store"

walletStateVars == <<cacheVars, registryVars, storeVars, concern>>

\* The part at rest starts in one state, whichever its own Init allows.
RegistryAtRest ==
    /\ accounts = Owners
    /\ onChain = [owner \in Owners |-> {}]
    /\ registryTree = EmptyTree

StoreAtRest == adapter.kind = "memory"

WalletStateInit ==
    /\ CacheInit /\ RegistryInit /\ StoreInit
    /\ concern \in {"trees", "registry", "store"}
    /\ concern # "registry" => RegistryAtRest
    /\ concern # "store" => StoreAtRest

WalletStateNext ==
    \/ concern = "trees" /\ CacheNext /\ UNCHANGED <<registryVars, storeVars, concern>>
    \/ concern = "registry" /\ RegistryNext /\ UNCHANGED <<cacheVars, storeVars, concern>>
    \/ concern = "store" /\ StoreNext /\ UNCHANGED <<cacheVars, registryVars, concern>>

WalletStateSpec == WalletStateInit /\ [][WalletStateNext]_walletStateVars
=============================================================================
