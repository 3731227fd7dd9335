---------------------------- MODULE MerkleCache ----------------------------
(***************************************************************************)
(* The wallet's copy of each pool's Merkle tree: the cached commitments,   *)
(* root and nodes (packages/stellar/src/transact/merkle and                *)
(* state/service/pool), and the native trees the witnesses are built from. *)
(*                                                                         *)
(* A call is one chain of awaits of the host; an action is the code        *)
(* between two awaits.  A tree is the sequence of its leaves, and so is    *)
(* its root: two lists have one root only when they are equal.  An option  *)
(* (a value that may be undefined) is a set of at most one element.        *)
(***************************************************************************)
EXTENDS Naturals, Sequences, FiniteSets

CONSTANTS
    Pools,          \* the pool contracts the wallet uses
    MerkleCalls,    \* the calls that can be under way together
    MaxLeaves,      \* bound: leaves of each pool
    CallCost,       \* what a call on each pool takes of the next bound
    MaxMerkleCalls  \* bound: calls that are started

ASSUME MerkleAssumption ==
    /\ MaxLeaves \in [Pools -> Nat]
    /\ CallCost \in [Pools -> Nat]
    /\ MaxMerkleCalls \in Nat

VARIABLES
    leafCount,      \* the number of leaves of each pool on the chain
    cache,          \* the stored StellarPoolMerkleState of each pool, if any
    sessions,       \* sessionsByPool: the session of each pool, if any
    handleOf,       \* handlesByKey: the native handle of each session key
    trees,          \* the native trees that were not dropped, by handle
    imports,        \* the number of native trees imported so far
    sdkReady,       \* the SDK is initialised
    merkleCalls,    \* the suspended calls
    startedCalls,   \* use of the bound
    overlaps        \* history: whether calls overlapped on a pool: "none", only
                    \* "syncs", or also "writes" of the host

chainVars == <<leafCount>>
treeVars  == <<sessions, handleOf, trees, imports, sdkReady>>
callVars  == <<merkleCalls, startedCalls, overlaps>>
cacheVars == <<chainVars, cache, treeVars, callVars>>

---------------------------------------------------------------------------
\* Lists of leaves and what is stored of them.

\* The first n leaves of a pool; its root once it has n leaves is the same value.
Leaves(p, n) == [i \in 1..n |-> <<p, i>>]

\* A prefix of a list, as Array.prototype.slice(0, n).
Upto(list, n) == SubSeq(list, 1, IF n < Len(list) THEN n ELSE Len(list))

\* StellarPoolMerkleState and CachedPoolMerkleView: nodes is an optional tree.
Entry(list, root, nodes) == [list |-> list, root |-> root, nodes |-> nodes]

\* merkleSnapshotToStateFile: nodes and root are left out when there are no nodes.
StateFile(e) ==
    IF e.nodes \in {{}, {<<>>}} THEN [list |-> e.list, root |-> {}, nodes |-> {}]
                                ELSE [list |-> e.list, root |-> {e.root}, nodes |-> e.nodes]

\* Mutant of SessionKey: the number of leaves is all of the key.
SessionKeyByCount(file) == <<Len(file.list)>>

\* merkleSessionKey of a state file.
SessionKey(file) ==
    LET n == Len(file.list)
    IN IF file.root # {}
         THEN <<n, "root", CHOOSE r \in file.root : TRUE>>
         ELSE <<n, "ends", IF n = 0 THEN <<>> ELSE <<file.list[1], file.list[n]>>>>

\* The tree a state file imports to: its nodes are taken as they are.
ImportedTree(file) ==
    IF file.nodes = {} THEN file.list ELSE CHOOSE t \in file.nodes : TRUE

\* withdrawMerkleWitnessFromTree: the tree a witness of the file is built from.
WitnessTree(file) ==
    IF SessionKey(file) \in DOMAIN handleOf /\ handleOf[SessionKey(file)] \in DOMAIN trees
      THEN trees[handleOf[SessionKey(file)]]
      ELSE ImportedTree(file)

\* reuseCachedCommitments.
ReusedCommitments(cached, count, root) ==
    LET list == UNION {{e.list} : e \in cached}
        usable == {l \in list : /\ Len(l) <= count
                                /\ Len(l) = count => \E e \in cached : e.root = root}
    IN IF usable = {} THEN <<>> ELSE CHOOSE l \in usable : TRUE

\* Mutant of FetchedLeaves: counts the leaves of the pool from one.
FetchedLeavesFromOne(p, start, end) == SubSeq(Leaves(p, end + 1), start + 2, end + 1)

\* readTreeLeafCommitments: the leaves of the pool from one index up to another.
FetchedLeaves(p, start, end) == SubSeq(Leaves(p, end), start + 1, end)

\* loadCommitments.
LoadedCommitments(p, cached, count, root) ==
    LET reused == ReusedCommitments(cached, count, root)
    IN reused \o FetchedLeaves(p, Len(reused), count)

\* Mutant of Unchanged: two lists with one root are taken for equal.
UnchangedByRoot(cached, list, root) == \E e \in cached : e.root = root

\* cachedMerkleUnchanged, and the first test of resolveExtendedMerkleNodes.
Unchanged(cached, list, root) ==
    \E e \in cached : Len(e.list) = Len(list) /\ e.root = root

\* prefixSnapshotState and importSnapshotState: what is imported before the
\* new leaves are inserted.
SnapshotToImport(cached, list, root) ==
    LET withNodes == {e \in cached : e.nodes # {}}
        prefixes == {StateFile(Entry(Upto(list, Len(e.list)), e.root, e.nodes)) : e \in withNodes}
        usable == {f \in prefixes : f.nodes # {} /\ f.list # <<>>}
    IN IF usable = {} THEN StateFile(Entry(list, root, {}))
                      ELSE CHOOSE f \in usable : TRUE

\* insertNewPairs: the leaves after the prefix, two by two; it fails when one is
\* left over.
NewPairs(file, list) ==
    LET added == SubSeq(list, Len(file.list) + 1, Len(list))
    IN {a \in {added} : Len(a) % 2 = 0}

\* exportExtendedNodes: a state without nodes was imported with all its leaves.
ExtendedTree(file, list) ==
    IF file.nodes = {} THEN {ImportedTree(file)}
                       ELSE {ImportedTree(file) \o added : added \in NewPairs(file, list)}

\* extendMerkleSnapshotNodes, when the native calls succeed.
ExtendedNodes(cached, list, root) ==
    IF Len(list) % 2 = 0 THEN ExtendedTree(SnapshotToImport(cached, list, root), list) ELSE {}

---------------------------------------------------------------------------
\* Calls: a call is idle, or suspended at an await with what it has read.

CallKinds == {"none", "sync", "append", "set"}

IdleCall == [at |-> "idle", kind |-> "none", pool |-> {}, began |-> 0, count |-> 0,
             root |-> <<>>, seen |-> {}, list |-> <<>>, nodes |-> {}]

Under(p) == {c \in MerkleCalls : merkleCalls[c].pool = {p}}

\* A call starts on a pool: the calls already under way there overlap with it.
Start(c, p, call) ==
    /\ merkleCalls[c] = IdleCall
    /\ startedCalls + CallCost[p] <= MaxMerkleCalls
    /\ startedCalls' = startedCalls + CallCost[p]
    /\ merkleCalls' = [merkleCalls EXCEPT ![c] = call]
    /\ overlaps' = [overlaps EXCEPT ![p] =
           IF Under(p) = {} THEN @
           ELSE IF {call.kind} \cup {merkleCalls[d].kind : d \in Under(p)} = {"sync"} /\ @ # "writes"
             THEN "syncs" ELSE "writes"]

At(c, at) == merkleCalls[c].at = at

Goes(c, call) ==
    /\ merkleCalls' = [merkleCalls EXCEPT ![c] = call]
    /\ UNCHANGED <<startedCalls, overlaps>>

Pool(call) == CHOOSE p \in Pools : call.pool = {p}

\* setPoolMerkleState: one atomic write of the bridge.
Store(p, e) == cache' = [cache EXCEPT ![p] = {e}]

\* Mutant of Remember: the key of the tree that is dropped keeps its handle.
RememberBoth(p, key, tree, dropped) ==
    LET handle == imports + 1
    IN /\ imports' = handle
       /\ sessions' = [sessions EXCEPT ![p] = {[handle |-> handle, key |-> key]}]
       /\ handleOf' = [k \in DOMAIN handleOf \cup {key} |-> IF k = key THEN handle ELSE handleOf[k]]
       /\ trees' = [h \in (DOMAIN trees \ dropped) \cup {handle} |->
                        IF h = handle THEN tree ELSE trees[h]]

\* rememberHandle of a tree that was just imported; "dropped" are the handles
\* dropLeanImt frees on the way.
Remember(p, key, tree, dropped) ==
    LET handle == imports + 1
        kept == DOMAIN handleOf \ {s.key : s \in sessions[p]}
    IN /\ imports' = handle
       /\ sessions' = [sessions EXCEPT ![p] = {[handle |-> handle, key |-> key]}]
       /\ handleOf' = [k \in kept \cup {key} |-> IF k = key THEN handle ELSE handleOf[k]]
       /\ trees' = [h \in (DOMAIN trees \ dropped) \cup {handle} |->
                        IF h = handle THEN tree ELSE trees[h]]

KeepTrees == UNCHANGED <<sessions, handleOf, trees, imports>>

\* loadSessionSdk and getInitializedSdk: an SDK that was initialised once is
\* kept; an initialisation that fails is tried again by the next caller.
SdkLoads == sdkReady' = TRUE
SdkMissing == ~sdkReady /\ UNCHANGED sdkReady

\* bindPoolMerkleTree: a pool with a session of this key keeps it; otherwise the
\* state is imported and replaces the session, whose tree is dropped.
BindPoolMerkleTree(p, e) ==
    LET file == StateFile(e)
        key == SessionKey(file)
    IN \/ SdkMissing /\ KeepTrees
       \/ SdkLoads /\ (\E s \in sessions[p] : s.key = key) /\ KeepTrees
       \/ /\ SdkLoads
          /\ ~\E s \in sessions[p] : s.key = key
          /\ \/ KeepTrees      \* importHandle fails
             \/ Remember(p, key, ImportedTree(file), {s.handle : s \in sessions[p]})

\* resolveExtendedMerkleNodes: the nodes it returns, and the session it leaves.
\* The tree the session had is not dropped.
ResolveExtendedMerkleNodes(p, cached, list, root, nodes) ==
    IF Unchanged(cached, list, root)
      THEN nodes = UNION {e.nodes : e \in cached} /\ KeepTrees /\ UNCHANGED sdkReady
      ELSE \/ SdkMissing /\ nodes = {} /\ KeepTrees
           \/ SdkLoads /\ nodes = {} /\ KeepTrees      \* a native call fails
           \/ /\ SdkLoads
              /\ nodes = ExtendedNodes(cached, list, root)
              /\ nodes # {}
              /\ Remember(p, SessionKey(StateFile(Entry(list, root, nodes))),
                          CHOOSE t \in nodes : TRUE, {})

\* The nodes a resolution can return.
NodesOf(cached, list, root) ==
    {{}, UNION {e.nodes : e \in cached}, ExtendedNodes(cached, list, root)}

---------------------------------------------------------------------------
\* The chain.

\* A pool operation inserts its output commitments two by two.
InsertPair(p) ==
    /\ leafCount[p] + 2 <= MaxLeaves[p]
    /\ leafCount' = [leafCount EXCEPT ![p] = @ + 2]
    /\ UNCHANGED <<cache, treeVars, callVars>>

---------------------------------------------------------------------------
\* fetchAndMergeMerkleState, called by syncPoolMerkleState and loadMerkleState.

\* get_commitment_count.
SyncReadCount(c, p) ==
    /\ Start(c, p, [IdleCall EXCEPT !.at = "counted", !.kind = "sync", !.pool = {p},
                                    !.began = leafCount[p], !.count = leafCount[p]])
    /\ UNCHANGED <<chainVars, cache, treeVars>>

\* get_merkle_root, perhaps at a later ledger than the count.
SyncReadRoot(c) ==
    /\ At(c, "counted")
    /\ LET call == merkleCalls[c]
           p == Pool(call)
       IN Goes(c, [call EXCEPT !.at = "rooted", !.root = Leaves(p, leafCount[p])])
    /\ UNCHANGED <<chainVars, cache, treeVars>>

\* readCachedPoolMerkleView and loadCommitments.
SyncLoad(c) ==
    /\ At(c, "rooted")
    /\ LET call == merkleCalls[c]
           p == Pool(call)
       IN Goes(c, [call EXCEPT !.at = "loaded", !.seen = cache[p],
                   !.list = LoadedCommitments(p, cache[p], call.count, call.root)])
    /\ UNCHANGED <<chainVars, cache, treeVars>>

\* A leaf entry is missing from the answer of the RPC: the call throws.
SyncLeafMissing(c) ==
    /\ At(c, "rooted")
    /\ LET call == merkleCalls[c]
       IN Len(ReusedCommitments(cache[Pool(call)], call.count, call.root)) < call.count
    /\ Goes(c, IdleCall)
    /\ UNCHANGED <<chainVars, cache, treeVars>>

\* persistFetchedMerkleState, when the cache already says the same: no write.
SyncUnchanged(c) ==
    /\ At(c, "loaded")
    /\ LET call == merkleCalls[c]
       IN /\ Unchanged(call.seen, call.list, call.root)
          /\ \E e \in call.seen :
                Goes(c, [call EXCEPT !.at = "returned", !.list = e.list, !.nodes = e.nodes])
    /\ UNCHANGED <<chainVars, cache, treeVars>>

\* persistFetchedMerkleState up to its write.
SyncResolve(c) ==
    /\ At(c, "loaded")
    /\ LET call == merkleCalls[c]
       IN /\ ~Unchanged(call.seen, call.list, call.root)
          /\ \E nodes \in NodesOf(call.seen, call.list, call.root) :
                /\ ResolveExtendedMerkleNodes(Pool(call), call.seen, call.list, call.root, nodes)
                /\ Goes(c, [call EXCEPT !.at = "resolved", !.nodes = nodes])
    /\ UNCHANGED <<chainVars, cache>>

\* The write of persistFetchedMerkleState: what was read may be stale by now.
SyncWrite(c) ==
    /\ At(c, "resolved")
    /\ LET call == merkleCalls[c]
       IN /\ Store(Pool(call), Entry(call.list, call.root, call.nodes))
          /\ Goes(c, [call EXCEPT !.at = "returned"])
    /\ UNCHANGED <<chainVars, treeVars>>

\* The file of loadMerkleState, and its use by withdrawMerkleWitnessFromTree.
ReturnedFile(call) == StateFile(Entry(call.list, call.root, call.nodes))

BuildWitness(c) ==
    /\ At(c, "returned")
    /\ Goes(c, IdleCall)
    /\ UNCHANGED <<chainVars, cache, treeVars>>

\* hasCommitmentLeafInPoolState, when the sync was made for an incoming note:
\* the cache is read again,
RereadForNote(c) ==
    /\ At(c, "returned")
    /\ LET call == merkleCalls[c]
       IN Goes(c, [call EXCEPT !.at = "judging", !.seen = cache[Pool(call)]])
    /\ UNCHANGED <<chainVars, cache, treeVars>>

\* and assessIncomingNote answers "pending" for a leaf that is not in what was read.
AssessIncomingNote(c) ==
    /\ At(c, "judging")
    /\ Goes(c, IdleCall)
    /\ UNCHANGED <<chainVars, cache, treeVars>>

---------------------------------------------------------------------------
\* appendPoolMerkleCommitments: the host appends leaves it was told of.

Merged(seen, payload) ==
    IF seen = {} THEN {payload} ELSE {e.list \o payload : e \in seen}

\* The first read.  The payload is what follows the list the host sees, or nothing.
AppendRead(c, p) ==
    \E n \in {0, 2} :
       LET known == Len(CHOOSE l \in Merged(cache[p], <<>>) : TRUE)
           payload == FetchedLeaves(p, known, known + n)
       IN /\ known + n <= leafCount[p]
          /\ Start(c, p, [IdleCall EXCEPT !.at = "read", !.kind = "append", !.pool = {p},
                             !.seen = cache[p], !.list = payload,
                             !.root = Leaves(p, known + n)])
          /\ UNCHANGED <<chainVars, cache, treeVars>>

\* Nodes for the list the append expects to write.
AppendResolve(c) ==
    /\ At(c, "read")
    /\ LET call == merkleCalls[c]
       IN \E merged \in Merged(call.seen, call.list) :
          \E nodes \in NodesOf(call.seen, merged, call.root) :
             /\ ResolveExtendedMerkleNodes(Pool(call), call.seen, merged, call.root, nodes)
             /\ Goes(c, [call EXCEPT !.at = "extended", !.nodes = nodes])
    /\ UNCHANGED <<chainVars, cache>>

\* appendPoolCommitments reads again,
AppendReread(c) ==
    /\ At(c, "extended")
    /\ LET call == merkleCalls[c]
       IN Goes(c, [call EXCEPT !.at = "reread", !.seen = cache[Pool(call)]])
    /\ UNCHANGED <<chainVars, cache, treeVars>>

\* and writes what it read with the payload at the end.
AppendWrite(c) ==
    /\ At(c, "reread")
    /\ LET call == merkleCalls[c]
           kept == IF call.list = <<>> THEN UNION {e.nodes : e \in call.seen} ELSE {}
       IN \E merged \in Merged(call.seen, call.list) :
             /\ Store(Pool(call), Entry(merged, call.root, IF call.nodes = {} THEN kept ELSE call.nodes))
             /\ Goes(c, [call EXCEPT !.at = "written"])
    /\ UNCHANGED <<chainVars, treeVars>>

\* setPoolMerkleState by the host (writePoolMerkleState): a list it kept, without nodes.
SetWrite(c, p) ==
    /\ \E n \in {0, leafCount[p]} :
          LET e == Entry(Leaves(p, n), Leaves(p, n), {})
          IN /\ Store(p, e)
             /\ Start(c, p, [IdleCall EXCEPT !.at = "binding", !.kind = "set", !.pool = {p},
                                             !.seen = {e}])
    /\ UNCHANGED <<chainVars, treeVars>>

\* The last read of appendPoolMerkleCommitments.
ReadWritten(c) ==
    /\ At(c, "written")
    /\ LET call == merkleCalls[c]
       IN Goes(c, [call EXCEPT !.at = "binding", !.seen = cache[Pool(call)]])
    /\ UNCHANGED <<chainVars, cache, treeVars>>

\* The last step of appendPoolMerkleCommitments and of writePoolMerkleState: a
\* tree for what was read, or for what was written.
BindWritten(c) ==
    /\ At(c, "binding")
    /\ LET call == merkleCalls[c]
       IN \E e \in call.seen : BindPoolMerkleTree(Pool(call), e)
    /\ Goes(c, IdleCall)
    /\ UNCHANGED <<chainVars, cache>>

---------------------------------------------------------------------------
CacheInit ==
    /\ leafCount = [p \in Pools |-> 0]
    /\ cache = [p \in Pools |-> {}]
    /\ sessions = [p \in Pools |-> {}]
    /\ handleOf = [k \in {} |-> 0]
    /\ trees = [h \in {} |-> <<>>]
    /\ imports = 0
    /\ sdkReady = FALSE
    /\ merkleCalls = [c \in MerkleCalls |-> IdleCall]
    /\ startedCalls = 0
    /\ overlaps = [p \in Pools |-> "none"]

CacheNext ==
    \/ \E p \in Pools : InsertPair(p)
    \/ \E c \in MerkleCalls, p \in Pools :
          SyncReadCount(c, p) \/ AppendRead(c, p) \/ SetWrite(c, p)
    \/ \E c \in MerkleCalls :
          \/ SyncReadRoot(c) \/ SyncLoad(c) \/ SyncLeafMissing(c)
          \/ SyncUnchanged(c) \/ SyncResolve(c) \/ SyncWrite(c) \/ BuildWitness(c)
          \/ RereadForNote(c) \/ AssessIncomingNote(c)
          \/ AppendResolve(c) \/ AppendReread(c) \/ AppendWrite(c)
          \/ ReadWritten(c) \/ BindWritten(c)

CacheSpec == CacheInit /\ [][CacheNext]_cacheVars

---------------------------------------------------------------------------
\* Properties.

\* A session key never leads to a native tree that was dropped: the handles are
\* freed and replaced by two files, at different times (tree-session.ts).
HandlesLive == \A k \in DOMAIN handleOf : handleOf[k] \in DOMAIN trees

\* What is cached of a pool is a prefix of its leaves, and the root that of a
\* list at least as long: the count and the root are read at two ledgers
\* (fetch-contract.ts:31), the list of an earlier sync is reused on its length
\* (reuse-cached-commitments.ts:31), and syncs overlap.  Writes of the host that
\* overlapped with another call are left out (merkle.ts:52).
CachedListIsAPrefix ==
    \A p \in Pools : overlaps[p] # "writes" =>
       \A e \in cache[p] :
          /\ Len(e.list) <= leafCount[p] /\ e.list = Leaves(p, Len(e.list))
          /\ Len(e.list) <= Len(e.root) /\ e.root = Leaves(p, Len(e.root))

\* A witness is built from the tree of the list that was just synced, although a
\* native tree is found by a count and a root or by a count and two leaves
\* (tree-session.ts:95), never by its pool or by the list.
WitnessOfTheFile ==
    \A c \in MerkleCalls :
       (At(c, "returned") /\ overlaps[Pool(merkleCalls[c])] = "none")
          => WitnessTree(ReturnedFile(merkleCalls[c])) = merkleCalls[c].list

\* A note that was on the chain when its assessment began is found in the cache
\* after the sync; an older sync that wrote last in between may hide it.
AssessmentKeepsUp ==
    \A c \in MerkleCalls :
       (At(c, "judging") /\ overlaps[Pool(merkleCalls[c])] = "none")
          => \E e \in merkleCalls[c].seen : Len(e.list) >= merkleCalls[c].began
=============================================================================
