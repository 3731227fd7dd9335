---------------------------- MODULE WalletStore ----------------------------
(***************************************************************************)
(* The wallet's own branches of the state tree: the asset catalog, the     *)
(* incoming deliveries, the private addresses with their scalars and the   *)
(* default nonce; the memory and Redux adapters that keep the tree, its    *)
(* hydration, and the readers of a snapshot (packages/stellar/src/state,   *)
(* client/hydrate-state.ts, packages/state).                               *)
(*                                                                         *)
(* One write of the bridge is atomic: the adapter applies its operations   *)
(* to a draft.  A call that reads and then writes is not.                  *)
(***************************************************************************)
EXTENDS StateTree, Naturals, FiniteSets

CONSTANTS
    Assets,             \* asset ids
    Deliveries,         \* delivery ids
    Nonces,             \* nonces of private addresses
    HydratedAssets,     \* the assets of a hydration snapshot, in order
    HydratedNonces,     \* its nonces, in order; the last one is its default
    StoreCalls,         \* the calls that can be under way together
    MaxStoreUse         \* bound: calls and writes of the host

ASSUME StoreAssumption ==
    /\ HydratedAssets \in Seq(Assets)
    /\ HydratedNonces \in Seq(Nonces) \ {<<>>}
    /\ MaxStoreUse \in Nat
    /\ "throws" \notin Nonces      \* the outcome of a read that throws is no nonce

VARIABLES
    adapter,            \* its kind, its reducerPath, and whether it has its store
    walletTree,         \* the state tree
    saved,              \* the branch the host persisted, if any, and its ideal
    storeCalls,         \* the suspended calls
    storeUse,           \* use of the bound
    ideal,              \* history: what the writes made so far mean
    lapped              \* history: the containers a stale write may have reached

historyVars == <<ideal, lapped>>
storeVars == <<adapter, walletTree, saved, storeCalls, storeUse, historyVars>>

---------------------------------------------------------------------------
\* Bridge calls.

Owner1 == "owner"

\* walletOwnerNonceKey.
OwnerNonceKey(nonce) == <<Owner1, nonce>>

\* An asset entry is known by its id and by the call that wrote it.
ById(list) == [id \in {list[j].id : j \in DOMAIN list} |->
                  list[CHOOSE j \in DOMAIN list :
                          /\ list[j].id = id
                          /\ \A k \in DOMAIN list : list[k].id = id => k <= j]]

\* replaceAssetsSchema: the whole of $.assets.
ReplaceAssets(list) ==
    <<PrimitiveSet("assets", [byId |-> ById(list), listOrder |-> [j \in DOMAIN list |-> list[j].id]])>>

\* readAssetsCatalogSchema and normalizeAssetsCatalog: a missing catalog is an empty one.
AssetsCatalog(tree) ==
    IF "assets" \in DOMAIN tree THEN tree["assets"] ELSE [byId |-> NoEntries, listOrder |-> <<>>]

\* Mutant of MergedAssets: an asset that is listed is listed again.
MergedAtTheEnd(catalog, asset) ==
    LET order == Append(catalog.listOrder, asset.id)
    IN [j \in DOMAIN order |-> IF order[j] = asset.id THEN asset ELSE catalog.byId[order[j]]]

\* upsertAssets of one asset, on the catalog it read.
MergedAssets(catalog, asset) ==
    LET order == IF \E j \in DOMAIN catalog.listOrder : catalog.listOrder[j] = asset.id
                   THEN catalog.listOrder ELSE Append(catalog.listOrder, asset.id)
    IN [j \in DOMAIN order |-> IF order[j] = asset.id THEN asset ELSE catalog.byId[order[j]]]

\* upsertIncomingDeliveriesSchema.
UpsertDelivery(id, delivery) == <<RecordSet("deliveries", id, delivery)>>

\* saveWalletPrivateAddressRecordSchema, saveWalletPrivateAddressScalarSchema,
\* deleteWalletPrivateAddressScalarSchema, setWalletDefaultPrivateAddressNonceSchema.
SaveRecord(nonce) == <<RecordSet("addressRecords", OwnerNonceKey(nonce), nonce)>>
SaveScalar(nonce) == <<RecordSet("addressScalars", OwnerNonceKey(nonce), nonce)>>
DeleteScalar(nonce) == <<RecordDelete("addressScalars", OwnerNonceKey(nonce))>>
SetDefaultNonce(nonce) == <<RecordSet("defaultNonces", <<Owner1>>, nonce)>>

\* What the bridge reads: before the Redux adapter has its store, an empty tree.
SeenTree == IF adapter.bound THEN walletTree ELSE EmptyTree

\* A read by key as a service makes it: an option, or it throws.
Records(tree, nonce) ==
    IF ReadThrows(tree, "addressRecords") THEN {"throws"}
    ELSE ReadRecord(tree, "addressRecords", OwnerNonceKey(nonce))

---------------------------------------------------------------------------
\* The readers of a snapshot, which the host takes from its store.

\* resolveSdkSnapshot: the branch, or the root of a store that keeps the branch
\* under the default path; any other root is taken for the branch.
Snapshot(kind) == [kind |-> kind, path |-> adapter.path, tree |-> walletTree]

ResolveSdkSnapshot(snapshot) ==
    IF snapshot.kind = "root" /\ snapshot.path # "privacySdkState" THEN EmptyTree ELSE snapshot.tree

\* readWalletPrivateAddressRecordFromStateSnapshot.
SnapshotRecord(snapshot, nonce) ==
    LET tree == ResolveSdkSnapshot(snapshot)
    IN IF ReadThrows(tree, "addressRecords") THEN {}
       ELSE ReadRecord(tree, "addressRecords", OwnerNonceKey(nonce))

\* listWalletPrivateAddressRecordsForOwnerFromStateSnapshot: each key of the owner.
SnapshotRecords(snapshot) ==
    LET tree == ResolveSdkSnapshot(snapshot)
        keys == IF ReadThrows(tree, "addressRecords") THEN {} ELSE DOMAIN tree["addressRecords"]
    IN UNION {SnapshotRecord(snapshot, key[2]) : key \in {k \in keys : k[1] = Owner1}}

---------------------------------------------------------------------------
\* Calls and writes.

IdleStoreCall == [at |-> "idle", on |-> "none", behind |-> FALSE, catalog |-> {}, asset |-> {},
                  match |-> {}, delivery |-> {}, step |-> 0]

StoreSteps(c, call) == storeCalls' = [storeCalls EXCEPT ![c] = call]

StoreCounts == storeUse < MaxStoreUse /\ storeUse' = storeUse + 1

\* The containers that a list of operations writes.
Paths(operations) == {operations[j].path : j \in DOMAIN operations}

\* A write by call c (or the host): it throws before the store is bound.  Calls
\* that read the container fall behind; the write of one that is behind is stale.
BridgeWrite(operations, c, call) ==
    /\ adapter.bound
    /\ walletTree' = ApplyWrite(walletTree, operations)
    /\ storeCalls' = [d \in StoreCalls |->
           IF d = c THEN call
           ELSE [storeCalls[d] EXCEPT !.behind = @ \/ storeCalls[d].on \in Paths(operations)]]
    /\ lapped' = IF c \in StoreCalls /\ storeCalls[c].behind
                   THEN lapped \cup Paths(operations) ELSE lapped

\* The host replaces the tree behind the adapter's back: every call is behind.
AllBehind == [c \in StoreCalls |-> [storeCalls[c] EXCEPT !.behind = storeCalls[c].on # "none"]]

IdealAssets(list) == [ideal EXCEPT !.assets = ById(list)]

---------------------------------------------------------------------------
\* The adapters.

\* bindReduxStateAdapter.
BindStore ==
    /\ ~adapter.bound
    /\ adapter' = [adapter EXCEPT !.bound = TRUE]
    /\ UNCHANGED <<walletTree, saved, storeCalls, storeUse, historyVars>>

\* The host persists the branch, or the tree getState gives it.
Persist ==
    /\ saved = {} /\ walletTree # EmptyTree
    /\ saved' = {[tree |-> walletTree, ideal |-> ideal, lapped |-> lapped]}
    /\ UNCHANGED <<adapter, walletTree, storeCalls, storeUse, historyVars>>

\* The application restarts: the calls and the tree are gone.
Restart ==
    /\ StoreCounts
    /\ adapter' = [adapter EXCEPT !.bound = adapter.kind = "memory"]
    /\ walletTree' = EmptyTree
    /\ storeCalls' = [c \in StoreCalls |-> IdleStoreCall]
    /\ ideal' = [assets |-> NoEntries, deliveries |-> NoEntries]
    /\ lapped' = {}
    /\ UNCHANGED saved

\* STATE_BRIDGE_HYDRATE, or resetState of the memory adapter: the saved branch
\* replaces the tree, perhaps while calls are under way.
HydrateBranch ==
    /\ StoreCounts
    /\ \E s \in saved :
          /\ walletTree' = s.tree
          /\ ideal' = s.ideal
          /\ lapped' = s.lapped
    /\ storeCalls' = AllBehind
    /\ UNCHANGED <<adapter, saved>>

---------------------------------------------------------------------------
\* Assets.

\* replaceAssets by the host.
HostReplacesAssets ==
    /\ StoreCounts
    /\ \E ids \in {<<>>} \cup {<<a>> : a \in Assets} :
          LET list == [j \in DOMAIN ids |-> [id |-> ids[j], by |-> storeUse']]
          IN /\ BridgeWrite(ReplaceAssets(list), "host", IdleStoreCall)
             /\ ideal' = IdealAssets(list)
    /\ UNCHANGED <<adapter, saved>>

\* upsertAssets: the read of the catalog,
UpsertAssets(c, id) ==
    /\ storeCalls[c] = IdleStoreCall
    /\ StoreCounts
    /\ StoreSteps(c, [IdleStoreCall EXCEPT !.at = "merging", !.on = "assets",
                         !.catalog = {AssetsCatalog(SeenTree)},
                         !.asset = {[id |-> id, by |-> storeUse']}, !.behind = ~adapter.bound])
    /\ UNCHANGED <<adapter, walletTree, saved, historyVars>>

\* and the write of the merged one.
WriteAssets(c) ==
    /\ storeCalls[c].at = "merging"
    /\ \E catalog \in storeCalls[c].catalog, asset \in storeCalls[c].asset :
          /\ BridgeWrite(ReplaceAssets(MergedAssets(catalog, asset)), c, IdleStoreCall)
          /\ ideal' = [ideal EXCEPT !.assets = WithEntry(@, asset.id, asset)]
    /\ UNCHANGED <<adapter, saved, storeUse>>

---------------------------------------------------------------------------
\* Deliveries.

\* upsertIncomingDeliveries by the host, for what it fetched.
HostUpsertsDelivery(id) ==
    /\ StoreCounts
    /\ LET delivery == [processed |-> FALSE, by |-> storeUse']
       IN /\ BridgeWrite(UpsertDelivery(id, delivery), "host", IdleStoreCall)
          /\ ideal' = [ideal EXCEPT !.deliveries = WithEntry(@, id, delivery)]
    /\ UNCHANGED <<adapter, saved>>

\* markDeliveryProcessed: the read; an unknown delivery ends the call.
MarkDeliveryProcessed(c, id) ==
    /\ storeCalls[c] = IdleStoreCall
    /\ StoreCounts
    /\ LET match == ReadRecord([deliveries |-> ReadPrimitive(SeenTree, "deliveries")], "deliveries", id)
       IN StoreSteps(c, IF match = {} THEN IdleStoreCall
                        ELSE [IdleStoreCall EXCEPT !.at = "marking", !.on = "deliveries",
                                 !.match = match, !.delivery = {id}])
    /\ UNCHANGED <<adapter, walletTree, saved, historyVars>>

\* The write of what was read, now processed.
WriteProcessed(c) ==
    /\ storeCalls[c].at = "marking"
    /\ \E delivery \in storeCalls[c].match, id \in storeCalls[c].delivery :
          /\ BridgeWrite(UpsertDelivery(id, [delivery EXCEPT !.processed = TRUE]), c, IdleStoreCall)
          /\ ideal' = [ideal EXCEPT !.deliveries =
                          IF id \in DOMAIN @ THEN [@ EXCEPT ![id].processed = TRUE] ELSE @]
    /\ UNCHANGED <<adapter, saved, storeUse>>

\* A call fails: the write rejects (the store is not bound, or its dispatch throws).
StoreCallFails(c) ==
    /\ storeCalls[c] # IdleStoreCall
    /\ StoreSteps(c, IdleStoreCall)
    /\ UNCHANGED <<adapter, walletTree, saved, storeUse, historyVars>>

---------------------------------------------------------------------------
\* Private addresses.

\* The host saves the record of an address and its scalar, deletes a scalar, or
\* makes the nonce of a saved record the default.
HostWritesAddress(nonce) ==
    /\ StoreCounts
    /\ \E operations \in
             {SaveRecord(nonce), SaveScalar(nonce), DeleteScalar(nonce)}
             \cup {SetDefaultNonce(n) : n \in {nonce} \cap Records(SeenTree, nonce)} :
          BridgeWrite(operations, "host", IdleStoreCall)
    /\ UNCHANGED <<adapter, saved, ideal>>

---------------------------------------------------------------------------
\* hydrateStellarPrivacyState: one write after another.  The writes of the pools
\* and of the private records, which go between, are those of MerkleCache and
\* PrivateRecords.

HydratedList == [j \in DOMAIN HydratedAssets |-> [id |-> HydratedAssets[j], by |-> 0]]

\* Mutant of HydratedAddresses: the default nonce comes first.
HydratedDefaultFirst ==
    <<SetDefaultNonce(HydratedNonces[Len(HydratedNonces)])>>
    \o [j \in DOMAIN HydratedNonces |-> SaveRecord(HydratedNonces[j])]
    \o [j \in DOMAIN HydratedNonces |-> SaveScalar(HydratedNonces[j])]

\* hydrateWalletAddresses.
HydratedAddresses ==
    [j \in DOMAIN HydratedNonces |-> SaveRecord(HydratedNonces[j])]
    \o [j \in DOMAIN HydratedNonces |-> SaveScalar(HydratedNonces[j])]
    \o <<SetDefaultNonce(HydratedNonces[Len(HydratedNonces)])>>

\* A snapshot without assets leaves the catalog alone.
HydrationWrites ==
    (IF HydratedAssets = <<>> THEN <<>> ELSE <<ReplaceAssets(HydratedList)>>) \o HydratedAddresses

Hydrate(c) ==
    /\ storeCalls[c] = IdleStoreCall
    /\ StoreCounts
    /\ StoreSteps(c, [IdleStoreCall EXCEPT !.at = "hydrating", !.on = "tree", !.step = 1])
    /\ UNCHANGED <<adapter, walletTree, saved, historyVars>>

HydrateNext(c) ==
    /\ storeCalls[c].at = "hydrating"
    /\ LET call == storeCalls[c]
           operations == HydrationWrites[call.step]
       IN /\ BridgeWrite(operations, c, IF call.step = Len(HydrationWrites)
                            THEN IdleStoreCall ELSE [call EXCEPT !.step = @ + 1])
          /\ ideal' = IF "assets" \in Paths(operations) THEN IdealAssets(HydratedList) ELSE ideal
    /\ UNCHANGED <<adapter, saved, storeUse>>

---------------------------------------------------------------------------
StoreInit ==
    /\ adapter \in {[kind |-> "memory", path |-> "privacySdkState", bound |-> TRUE]}
                   \cup [kind : {"redux"}, path : {"privacySdkState", "custom"}, bound : {FALSE}]
    /\ walletTree = EmptyTree
    /\ saved = {}
    /\ storeCalls = [c \in StoreCalls |-> IdleStoreCall]
    /\ storeUse = 0
    /\ ideal = [assets |-> NoEntries, deliveries |-> NoEntries]
    /\ lapped = {}

StoreNext ==
    \/ BindStore \/ Persist \/ Restart \/ HydrateBranch
    \/ HostReplacesAssets
    \/ \E id \in Deliveries : HostUpsertsDelivery(id)
    \/ \E nonce \in Nonces : HostWritesAddress(nonce)
    \/ \E c \in StoreCalls :
          \/ \E id \in Assets : UpsertAssets(c, id)
          \/ \E id \in Deliveries : MarkDeliveryProcessed(c, id)
          \/ Hydrate(c)
          \/ WriteAssets(c) \/ WriteProcessed(c) \/ HydrateNext(c) \/ StoreCallFails(c)

StoreSpec == StoreInit /\ [][StoreNext]_storeVars

---------------------------------------------------------------------------
\* Properties.

\* The default nonce of an owner is that of an address the wallet has a record
\* of, at every moment of a hydration, after one that stopped half-way, and
\* after a restart (hydrate-state.ts:28 writes the records first); the bridge and
\* both readers of a snapshot find it, unless the host keeps the branch under
\* another path and hands over its root (snapshot.ts:24).  A hydration whose
\* tree was replaced under it is left out.
DefaultNonceHasRecord ==
    ("defaultNonces" \in DOMAIN walletTree /\ "defaultNonces" \notin lapped) =>
       \A owner \in DOMAIN walletTree["defaultNonces"] :
          LET nonce == walletTree["defaultNonces"][owner]
          IN /\ Records(walletTree, nonce) = {nonce}
             /\ \A kind \in {"root", "branch"} :
                   (kind = "branch" \/ adapter.path = "privacySdkState") =>
                      /\ SnapshotRecord(Snapshot(kind), nonce) = {nonce}
                      /\ nonce \in SnapshotRecords(Snapshot(kind))

\* The catalog is the one the calls asked for, each asset listed once and none
\* lost, unless an upsert wrote what it had read before another write
\* (upsert-methods.ts:22).
CatalogKeepsAssets ==
    LET catalog == AssetsCatalog(walletTree)
    IN /\ \A j, k \in DOMAIN catalog.listOrder :
             catalog.listOrder[j] = catalog.listOrder[k] => j = k
       /\ {catalog.listOrder[j] : j \in DOMAIN catalog.listOrder} = DOMAIN catalog.byId
       /\ "assets" \notin lapped => catalog.byId = ideal.assets

\* No delivery is lost or brought back to an older content, and one that was
\* marked stays so until it is fetched again, unless a mark was overtaken.
DeliveriesKept ==
    "deliveries" \notin lapped => ReadPrimitive(walletTree, "deliveries") = ideal.deliveries

\* The branches that are read and then written keep what every call wrote.
WritesKept == CatalogKeepsAssets /\ DeliveriesKept
=============================================================================
