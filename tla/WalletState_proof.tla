------------------------- MODULE WalletState_proof -------------------------
(***************************************************************************)
(* No session key leads to a native tree that was dropped, a cached list   *)
(* is a prefix of its pool, an assessment finds a note of the chain, and a *)
(* witness is built from the tree of the list that was synced, whatever    *)
(* the number of pools, of calls and of leaves.                            *)
(***************************************************************************)
EXTENDS WalletState, SequenceTheorems, TLAPS

---------------------------------------------------------------------------
\* The inductive invariant.

\* Handles are numbered as trees are imported: a new one is not in use.
HandlesCounted ==
  /\ imports \in Nat
  /\ \A h \in DOMAIN trees : h \in Nat /\ h <= imports

\* sessionsByPool and handlesByKey agree: the tree of a session is found under
\* the session's key, or under none.
SessionsOwnHandles ==
  /\ sessions = [p \in Pools |-> sessions[p]]
  /\ \A p \in Pools : \A s \in sessions[p] :
        /\ s.handle \in Nat /\ s.handle <= imports
        /\ \A k \in DOMAIN handleOf : handleOf[k] = s.handle => k = s.key

TreesInv == HandlesCounted /\ SessionsOwnHandles /\ HandlesLive

---------------------------------------------------------------------------
\* rememberHandle keeps the three maps together, when the trees that are freed
\* on the way are those of the pool's session.
LEMMA RememberKeeps ==
  ASSUME TreesInv, NEW p \in Pools, NEW key, NEW tree, NEW dropped,
         dropped \subseteq {s.handle : s \in sessions[p]},
         Remember(p, key, tree, dropped)
  PROVE  TreesInv'
<1> DEFINE handle == imports + 1
           kept   == DOMAIN handleOf \ {s.key : s \in sessions[p]}
<1>1. /\ imports' = handle
      /\ sessions' = [sessions EXCEPT ![p] = {[handle |-> handle, key |-> key]}]
      /\ DOMAIN handleOf' = kept \cup {key}
      /\ \A k \in kept \cup {key} : handleOf'[k] = IF k = key THEN handle ELSE handleOf[k]
      /\ DOMAIN trees' = (DOMAIN trees \ dropped) \cup {handle}
  BY DEF Remember
<1>2. imports \in Nat /\ handle \in Nat /\ handle > imports
  BY DEF TreesInv, HandlesCounted
<1> HIDE DEF handle
<1>3. \A k \in kept : handleOf[k] \in DOMAIN trees /\ handleOf[k] # handle
  BY <1>2 DEF TreesInv, HandlesLive, HandlesCounted
<1>4. HandlesCounted'
  BY <1>1, <1>2 DEF TreesInv, HandlesCounted, handle
<1>5. HandlesLive'
  <2> SUFFICES ASSUME NEW k \in kept, k # key
               PROVE  handleOf[k] \in DOMAIN trees \ dropped
    BY <1>1 DEF HandlesLive
  <2>1. \A s \in sessions[p] : handleOf[k] # s.handle
    BY DEF TreesInv, SessionsOwnHandles
  <2> QED  BY <1>3, <2>1
<1>6. SessionsOwnHandles'
  <2>1. sessions' = [q \in Pools |-> sessions'[q]]
    BY <1>1 DEF TreesInv, SessionsOwnHandles
  <2> SUFFICES ASSUME NEW q \in Pools, NEW s \in sessions'[q]
               PROVE  /\ s.handle \in Nat /\ s.handle <= imports'
                      /\ \A k \in DOMAIN handleOf' : handleOf'[k] = s.handle => k = s.key
    BY <2>1 DEF SessionsOwnHandles
  <2>2. CASE q = p
    <3>1. s = [handle |-> handle, key |-> key]
      BY <1>1, <2>2 DEF TreesInv, SessionsOwnHandles
    <3> QED  BY <1>1, <1>2, <1>3, <3>1
  <2>3. CASE q # p
    <3>1. s \in sessions[q]
      BY <1>1, <2>3 DEF TreesInv, SessionsOwnHandles
    <3>2. /\ s.handle \in Nat /\ s.handle <= imports /\ s.handle # handle
          /\ \A k \in DOMAIN handleOf : handleOf[k] = s.handle => k = s.key
      BY <1>2, <3>1 DEF TreesInv, SessionsOwnHandles
    <3> QED  BY <1>1, <1>2, <3>2
  <2> QED  BY <2>2, <2>3
<1> QED  BY <1>4, <1>5, <1>6 DEF TreesInv

\* A step that leaves the trees alone.
LEMMA KeepKeeps ==
  ASSUME TreesInv, KeepTrees
  PROVE  TreesInv'
BY DEF KeepTrees, TreesInv, HandlesCounted, SessionsOwnHandles, HandlesLive

LEMMA BindKeeps ==
  ASSUME TreesInv, NEW p \in Pools, NEW e, BindPoolMerkleTree(p, e)
  PROVE  TreesInv'
<1> DEFINE file == StateFile(e)
           key  == SessionKey(file)
<1>1. \/ KeepTrees
      \/ Remember(p, key, ImportedTree(file), {s.handle : s \in sessions[p]})
  BY Zenon DEF BindPoolMerkleTree
<1> QED  BY <1>1, KeepKeeps, RememberKeeps

LEMMA ResolveKeeps ==
  ASSUME TreesInv, NEW p \in Pools, NEW cached, NEW list, NEW root, NEW nodes,
         ResolveExtendedMerkleNodes(p, cached, list, root, nodes)
  PROVE  TreesInv'
<1>1. \/ KeepTrees
      \/ Remember(p, SessionKey(StateFile(Entry(list, root, nodes))),
                  CHOOSE t \in nodes : TRUE, {})
  BY Zenon DEF ResolveExtendedMerkleNodes
<1> QED  BY <1>1, KeepKeeps, RememberKeeps

---------------------------------------------------------------------------
\* Every suspended call is on a pool.
OnPool(call) == {"at", "pool"} \subseteq DOMAIN call /\ \E p \in Pools : call.pool = {p}

CallsOnPools ==
  /\ merkleCalls = [c \in MerkleCalls |-> merkleCalls[c]]
  /\ \A c \in MerkleCalls : merkleCalls[c] = IdleCall \/ OnPool(merkleCalls[c])

\* What a call reads or writes later does not change its pool.
LEMMA SamePool ==
  ASSUME NEW call, OnPool(call), NEW at, NEW root, NEW seen, NEW list, NEW nodes
  PROVE  /\ OnPool([call EXCEPT !.at = at])
         /\ OnPool([call EXCEPT !.at = at, !.root = root])
         /\ OnPool([call EXCEPT !.at = at, !.seen = seen])
         /\ OnPool([call EXCEPT !.at = at, !.seen = seen, !.list = list])
         /\ OnPool([call EXCEPT !.at = at, !.list = list, !.nodes = nodes])
         /\ OnPool([call EXCEPT !.at = at, !.nodes = nodes])
BY DEF OnPool

LEMMA PoolIsChosen ==
  ASSUME NEW call, OnPool(call)
  PROVE  Pool(call) \in Pools
BY DEF OnPool, Pool

LEMMA SuspendedOnPool ==
  ASSUME CallsOnPools, NEW c \in MerkleCalls, NEW at, at # "idle", At(c, at)
  PROVE  OnPool(merkleCalls[c]) /\ Pool(merkleCalls[c]) \in Pools
<1>1. merkleCalls[c] # IdleCall  BY DEF At, IdleCall
<1>2. OnPool(merkleCalls[c])  BY <1>1 DEF CallsOnPools
<1> QED  BY <1>2, PoolIsChosen

LEMMA GoesOnPool ==
  ASSUME CallsOnPools, NEW c \in MerkleCalls, NEW call, Goes(c, call),
         call = IdleCall \/ OnPool(call)
  PROVE  CallsOnPools'
BY DEF CallsOnPools, Goes, OnPool

LEMMA StartOnPool ==
  ASSUME CallsOnPools, NEW c \in MerkleCalls, NEW p \in Pools, NEW call, Start(c, p, call),
         OnPool(call)
  PROVE  CallsOnPools'
BY DEF CallsOnPools, Start, OnPool

---------------------------------------------------------------------------
CacheInv == CallsOnPools /\ TreesInv

LEMMA CacheInvInit == CacheInit => CacheInv
BY DEF CacheInit, CacheInv, CallsOnPools, TreesInv, HandlesCounted, SessionsOwnHandles, HandlesLive

\* A call that starts.
LEMMA StartKeeps ==
  ASSUME CacheInv, NEW c \in MerkleCalls, NEW p \in Pools,
         SyncReadCount(c, p) \/ AppendRead(c, p) \/ SetWrite(c, p)
  PROVE  CacheInv'
<1>1. KeepTrees
  BY DEF SyncReadCount, AppendRead, SetWrite, KeepTrees, treeVars
<1>2. CallsOnPools'
  <2>1. CASE SyncReadCount(c, p)
    <3>1. OnPool([IdleCall EXCEPT !.at = "counted", !.kind = "sync", !.pool = {p},
                                  !.began = leafCount[p], !.count = leafCount[p]])
      BY DEF OnPool, IdleCall
    <3> QED  BY <2>1, <3>1, StartOnPool DEF CacheInv, SyncReadCount
  <2>2. CASE AppendRead(c, p)
    <3>1. PICK list, root :
             Start(c, p, [IdleCall EXCEPT !.at = "read", !.kind = "append", !.pool = {p},
                                 !.seen = cache[p], !.list = list, !.root = root])
      BY <2>2, Zenon DEF AppendRead
    <3>2. OnPool([IdleCall EXCEPT !.at = "read", !.kind = "append", !.pool = {p},
                                  !.seen = cache[p], !.list = list, !.root = root])
      BY DEF OnPool, IdleCall
    <3> QED  BY <3>1, <3>2, StartOnPool DEF CacheInv
  <2>3. CASE SetWrite(c, p)
    <3>1. PICK e : Start(c, p, [IdleCall EXCEPT !.at = "binding", !.kind = "set", !.pool = {p},
                                                !.seen = {e}])
      BY <2>3, Zenon DEF SetWrite
    <3>2. OnPool([IdleCall EXCEPT !.at = "binding", !.kind = "set", !.pool = {p}, !.seen = {e}])
      BY DEF OnPool, IdleCall
    <3> QED  BY <3>1, <3>2, StartOnPool DEF CacheInv
  <2> QED  BY <2>1, <2>2, <2>3
<1> QED  BY <1>1, <1>2, KeepKeeps DEF CacheInv

\* A step of a call that leaves the trees alone.
LEMMA ReadsKeep ==
  ASSUME CacheInv, NEW c \in MerkleCalls,
         \/ SyncReadRoot(c) \/ SyncLoad(c) \/ SyncLeafMissing(c)
         \/ SyncUnchanged(c) \/ SyncWrite(c) \/ BuildWitness(c)
         \/ RereadForNote(c) \/ AssessIncomingNote(c)
         \/ AppendReread(c) \/ AppendWrite(c) \/ ReadWritten(c)
  PROVE  CacheInv'
<1> DEFINE call == merkleCalls[c]
<1>1. KeepTrees
  BY DEF SyncReadRoot, SyncLoad, SyncLeafMissing, SyncUnchanged, SyncWrite, BuildWitness,
         RereadForNote, AssessIncomingNote, AppendReread, AppendWrite, ReadWritten,
         KeepTrees, treeVars
<1>2. OnPool(call)
  BY SuspendedOnPool
  DEF CacheInv, SyncReadRoot, SyncLoad, SyncLeafMissing, SyncUnchanged, SyncWrite, BuildWitness,
      RereadForNote, AssessIncomingNote, AppendReread, AppendWrite, ReadWritten
<1>3. \E next : Goes(c, next) /\ (next = IdleCall \/ OnPool(next))
  <2>1. CASE SyncReadRoot(c)
    <3>1. PICK root : Goes(c, [call EXCEPT !.at = "rooted", !.root = root])
      BY <2>1, Zenon DEF SyncReadRoot
    <3>2. OnPool([call EXCEPT !.at = "rooted", !.root = root])
      BY <1>2, SamePool, Zenon
    <3> QED  BY <3>1, <3>2, Zenon
  <2>2. CASE SyncLoad(c)
    <3>1. PICK seen, list : Goes(c, [call EXCEPT !.at = "loaded", !.seen = seen, !.list = list])
      BY <2>2, Zenon DEF SyncLoad
    <3>2. OnPool([call EXCEPT !.at = "loaded", !.seen = seen, !.list = list])
      BY <1>2, SamePool, Zenon
    <3> QED  BY <3>1, <3>2, Zenon
  <2>3. CASE SyncUnchanged(c)
    <3>1. PICK e : Goes(c, [call EXCEPT !.at = "returned", !.list = e.list, !.nodes = e.nodes])
      BY <2>3, Zenon DEF SyncUnchanged
    <3>2. OnPool([call EXCEPT !.at = "returned", !.list = e.list, !.nodes = e.nodes])
      BY <1>2, SamePool, Zenon
    <3> QED  BY <3>1, <3>2, Zenon
  <2>4. CASE SyncWrite(c)  BY <1>2, <2>4, SamePool DEF SyncWrite
  <2>5. CASE RereadForNote(c)
    <3>1. PICK next : Goes(c, next) /\ next = [call EXCEPT !.at = "judging", !.seen = cache[Pool(call)]]
      BY <2>5, Zenon DEF RereadForNote
    <3> QED  BY <1>2, <3>1, SamePool
  <2>6. CASE AppendReread(c)
    <3>1. PICK next : Goes(c, next) /\ next = [call EXCEPT !.at = "reread", !.seen = cache[Pool(call)]]
      BY <2>6, Zenon DEF AppendReread
    <3> QED  BY <1>2, <3>1, SamePool
  <2>7. CASE AppendWrite(c)
    <3>1. Goes(c, [call EXCEPT !.at = "written"])  BY <2>7, Zenon DEF AppendWrite
    <3> QED  BY <1>2, <3>1, SamePool
  <2>8. CASE ReadWritten(c)
    <3>1. PICK next : Goes(c, next) /\ next = [call EXCEPT !.at = "binding", !.seen = cache[Pool(call)]]
      BY <2>8, Zenon DEF ReadWritten
    <3> QED  BY <1>2, <3>1, SamePool
  <2>9. CASE SyncLeafMissing(c) \/ BuildWitness(c) \/ AssessIncomingNote(c)
    BY <2>9 DEF SyncLeafMissing, BuildWitness, AssessIncomingNote
  <2> QED  BY <2>1, <2>2, <2>3, <2>4, <2>5, <2>6, <2>7, <2>8, <2>9
<1> QED  BY <1>1, <1>3, KeepKeeps, GoesOnPool DEF CacheInv

\* The steps that import a tree.
LEMMA ImportsKeep ==
  ASSUME CacheInv, NEW c \in MerkleCalls,
         SyncResolve(c) \/ AppendResolve(c) \/ BindWritten(c)
  PROVE  CacheInv'
<1> DEFINE call == merkleCalls[c]
           p    == Pool(call)
<1>1. OnPool(call) /\ p \in Pools
  BY SuspendedOnPool DEF CacheInv, SyncResolve, AppendResolve, BindWritten
<1> HIDE DEF p
<1>2. CASE SyncResolve(c)
  <2>1. PICK nodes : /\ ResolveExtendedMerkleNodes(p, call.seen, call.list, call.root, nodes)
                     /\ Goes(c, [call EXCEPT !.at = "resolved", !.nodes = nodes])
    BY <1>2, Zenon DEF SyncResolve, p
  <2> QED  BY <1>1, <2>1, ResolveKeeps, GoesOnPool, SamePool DEF CacheInv
<1>3. CASE AppendResolve(c)
  <2>1. PICK merged, nodes : /\ ResolveExtendedMerkleNodes(p, call.seen, merged, call.root, nodes)
                             /\ Goes(c, [call EXCEPT !.at = "extended", !.nodes = nodes])
    BY <1>3, Zenon DEF AppendResolve, p
  <2> QED  BY <1>1, <2>1, ResolveKeeps, GoesOnPool, SamePool DEF CacheInv
<1>4. CASE BindWritten(c)
  <2>1. PICK e : BindPoolMerkleTree(p, e)
    BY <1>4, Zenon DEF BindWritten, p
  <2>2. Goes(c, IdleCall)  BY <1>4, Zenon DEF BindWritten
  <2> QED  BY <1>1, <2>1, <2>2, BindKeeps, GoesOnPool DEF CacheInv
<1> QED  BY <1>2, <1>3, <1>4

LEMMA CacheStepKeeps == CacheInv /\ [CacheNext]_cacheVars => CacheInv'
<1> SUFFICES ASSUME CacheInv, [CacheNext]_cacheVars
             PROVE  CacheInv'
  OBVIOUS
<1>1. ASSUME NEW p \in Pools, InsertPair(p)
      PROVE  CacheInv'
  BY <1>1, KeepKeeps
  DEF CacheInv, InsertPair, treeVars, callVars, KeepTrees, CallsOnPools, OnPool
<1>2. CASE UNCHANGED cacheVars
  BY <1>2, KeepKeeps
  DEF CacheInv, cacheVars, treeVars, callVars, KeepTrees, CallsOnPools, OnPool
<1>3. CASE CacheNext
  BY <1>1, <1>3, StartKeeps, ReadsKeep, ImportsKeep DEF CacheNext
<1> QED  BY <1>2, <1>3

---------------------------------------------------------------------------
\* Whatever order syncs, appends and writes of the host take, however many
\* overlap and whichever native call fails, a key that handlesByKey knows leads to
\* a tree that was not dropped (tree-session.ts, lean-imt-handle.ts).
THEOREM CacheHandlesLive == CacheSpec => []HandlesLive
<1>1. CacheInv => HandlesLive  BY DEF CacheInv, TreesInv
<1> QED  BY <1>1, CacheInvInit, CacheStepKeeps, PTL DEF CacheSpec

\* The same of the whole wallet state: the registry cache and the store leave
\* the trees alone.
THEOREM WalletHandlesLive == WalletStateSpec => []HandlesLive
<1>1. WalletStateInit => CacheInit  BY DEF WalletStateInit
<1>2. [WalletStateNext]_walletStateVars => [CacheNext]_cacheVars
  BY DEF WalletStateNext, walletStateVars
<1> QED  BY <1>1, <1>2, CacheHandlesLive, PTL DEF WalletStateSpec, CacheSpec

---------------------------------------------------------------------------
\* Sequences of leaves.

\* The first leaves of a pool.
LEMMA LeavesAreASequence ==
  ASSUME NEW p, NEW n \in Nat
  PROVE  /\ Leaves(p, n) \in Seq({p} \X Nat)
         /\ Len(Leaves(p, n)) = n
         /\ \A i \in 1..n : Leaves(p, n)[i] = <<p, i>>
BY DEF Leaves

\* The leaves from one index up to another.
LEMMA FetchedIsASequence ==
  ASSUME NEW p, NEW k \in Nat, NEW n \in Nat, k <= n
  PROVE  /\ FetchedLeaves(p, k, n) \in Seq({p} \X Nat)
         /\ Len(FetchedLeaves(p, k, n)) = n - k
         /\ \A i \in 1..(n - k) : FetchedLeaves(p, k, n)[i] = <<p, k + i>>
<1> DEFINE b == Leaves(p, n)
           f == FetchedLeaves(p, k, n)
<1>1. b \in Seq({p} \X Nat) /\ Len(b) = n /\ \A i \in 1..n : b[i] = <<p, i>>
  BY LeavesAreASequence
<1>2. f = SubSeq(b, k + 1, n)  BY DEF FetchedLeaves
<1> HIDE DEF f, b
<1>3. \A i \in k + 1 .. n : b[i] \in {p} \X Nat  BY <1>1
<1>4. /\ f \in Seq({p} \X Nat)
      /\ Len(f) = IF k + 1 <= n THEN n - (k + 1) + 1 ELSE 0
      /\ \A i \in 1 .. n - (k + 1) + 1 : f[i] = b[k + 1 + i - 1]
  BY <1>2, <1>3, SubSeqProperties
<1>5. \A i \in 1..(n - k) : b[k + 1 + i - 1] = <<p, k + i>>  BY <1>1
<1>6. Len(f) = n - k /\ n - (k + 1) + 1 = n - k  BY <1>4
<1>7. ASSUME NEW i \in 1..(n - k)
      PROVE  f[i] = <<p, k + i>>
  <2>1. f[i] = b[k + 1 + i - 1]  BY <1>4, <1>6
  <2> QED  BY <1>5, <2>1
<1> QED  BY <1>4, <1>6, <1>7 DEF f

\* A prefix with the leaves that follow it is a longer prefix.
LEMMA LeavesConcat ==
  ASSUME NEW p, NEW k \in Nat, NEW n \in Nat, k <= n
  PROVE  Leaves(p, k) \o FetchedLeaves(p, k, n) = Leaves(p, n)
<1> DEFINE a == Leaves(p, k)
           b == Leaves(p, n)
           f == FetchedLeaves(p, k, n)
<1>1. /\ a \in Seq({p} \X Nat) /\ Len(a) = k /\ \A i \in 1..k : a[i] = <<p, i>>
      /\ b \in Seq({p} \X Nat) /\ Len(b) = n /\ \A i \in 1..n : b[i] = <<p, i>>
  BY LeavesAreASequence
<1>2. f \in Seq({p} \X Nat) /\ Len(f) = n - k /\ \A i \in 1..(n - k) : f[i] = <<p, k + i>>
  BY FetchedIsASequence
<1> HIDE DEF a, b, f
<1>3. a \o f \in Seq({p} \X Nat) /\ Len(a \o f) = n
  BY <1>1, <1>2
<1>4. \A i \in 1..n : (a \o f)[i] = b[i]
  <2> SUFFICES ASSUME NEW i \in 1..n
               PROVE  (a \o f)[i] = <<p, i>>
    BY <1>1
  <2>1. (a \o f)[i] = IF i <= k THEN a[i] ELSE f[i - k]
    BY <1>1, <1>2, ConcatProperties
  <2>2. i > k => f[i - k] = <<p, k + (i - k)>>
    BY <1>2
  <2> QED  BY <1>1, <2>1, <2>2
<1>5. a \o f = b  BY <1>1, <1>3, <1>4, SeqEqual
<1> QED  BY <1>5 DEF a, b, f

\* With nothing after it, it stays what it is.
LEMMA LeavesEnd ==
  ASSUME NEW p, NEW n \in Nat
  PROVE  Leaves(p, n) \o <<>> = Leaves(p, n)
BY LeavesAreASequence
---------------------------------------------------------------------------
\* What a cached list, and each suspended call, have of a pool with n leaves.

\* A stored entry: a list of the first leaves and the root of a list as long or longer.
StoredFits(p, n, stored) ==
  stored # {} =>
     \E k \in 0..n, m \in 0..n : \E e \in stored :
        k <= m /\ stored = {e} /\ e.list = Leaves(p, k) /\ e.root = Leaves(p, m)

\* The stages of a sync, and those of an append up to its write.
SyncStages == {"counted", "rooted", "loaded", "resolved"}
AppendStages == {"read", "extended", "reread"}

\* A sync has a count and the root of a list as long or longer; its list is that
\* of its count, whatever the cache was.
SyncFits(p, n, call) ==
  call.at \in SyncStages =>
     /\ call.kind = "sync"
     /\ call.count \in 0..n
     /\ call.at # "counted" => \E m \in 0..n : call.count <= m /\ call.root = Leaves(p, m)
     /\ call.at \in {"loaded", "resolved"} => call.list = Leaves(p, call.count)

\* An append has the leaves that follow what is stored, which stays as it was.
AppendFits(p, n, stored, call) ==
  call.at \in AppendStages =>
     /\ call.kind = "append"
     /\ \E k \in 0..n, m \in 0..n :
           /\ k <= m
           /\ call.list = FetchedLeaves(p, k, m) /\ call.root = Leaves(p, m)
           /\ IF stored = {} THEN k = 0 ELSE \A e \in stored : e.list = Leaves(p, k)
     /\ call.at = "reread" => call.seen = stored

CallFits(p, n, stored, call) == SyncFits(p, n, call) /\ AppendFits(p, n, stored, call)

\* A host's write is the only call on its pool, or it was marked.
Alone(p, c) == \A d \in MerkleCalls : d # c => merkleCalls[d].pool # {p}

PoolFits(p) ==
  /\ StoredFits(p, leafCount[p], cache[p])
  /\ \A c \in MerkleCalls : merkleCalls[c].pool = {p} =>
        /\ CallFits(p, leafCount[p], cache[p], merkleCalls[c])
        /\ merkleCalls[c].kind = "sync" \/ Alone(p, c)

CacheTypes ==
  /\ leafCount \in [Pools -> Nat]
  /\ cache = [p \in Pools |-> cache[p]]
  /\ overlaps = [p \in Pools |-> overlaps[p]]
  /\ merkleCalls = [c \in MerkleCalls |-> merkleCalls[c]]
  /\ \A c \in MerkleCalls : DOMAIN merkleCalls[c] = DOMAIN IdleCall

PrefixInv == CacheTypes /\ \A p \in Pools : overlaps[p] # "writes" => PoolFits(p)

---------------------------------------------------------------------------
\* No leaves, and what follows them.
LEMMA NoLeaves ==
  ASSUME NEW p
  PROVE  /\ Leaves(p, 0) = <<>>
         /\ \A n \in Nat : FetchedLeaves(p, 0, n) = Leaves(p, n)
<1>1. Leaves(p, 0) = <<>>  BY DEF Leaves
<1> SUFFICES ASSUME NEW n \in Nat
             PROVE  FetchedLeaves(p, 0, n) = Leaves(p, n)
  BY <1>1
<1>2. Leaves(p, 0) \o FetchedLeaves(p, 0, n) = Leaves(p, n)  BY LeavesConcat
<1>3. FetchedLeaves(p, 0, n) \in Seq({p} \X Nat)
  <2>1. 0 \in Nat /\ 0 <= n  OBVIOUS
  <2> QED  BY <2>1, FetchedIsASequence
<1>4. <<>> \o FetchedLeaves(p, 0, n) = FetchedLeaves(p, 0, n)  BY <1>3, ConcatEmptySeq
<1> QED  BY <1>1, <1>2, <1>4

\* What a sync loads is the list of its count, whatever prefix the cache has.
LEMMA LoadedIsLeaves ==
  ASSUME NEW p, NEW n \in Nat, NEW stored, StoredFits(p, n, stored),
         NEW count \in 0..n, NEW root
  PROVE  LoadedCommitments(p, stored, count, root) = Leaves(p, count)
<1> DEFINE list   == UNION {{e.list} : e \in stored}
           usable == {l \in list : /\ Len(l) <= count
                                   /\ Len(l) = count => \E e \in stored : e.root = root}
           reused == ReusedCommitments(stored, count, root)
<1>1. reused = IF usable = {} THEN <<>> ELSE CHOOSE l \in usable : TRUE
  BY DEF ReusedCommitments
<1>2. \E k \in 0..count : reused = Leaves(p, k)
  <2>1. CASE usable = {}  BY <1>1, <2>1, NoLeaves
  <2>2. CASE usable # {}
    <3>1. reused \in usable  BY <1>1, <2>2
    <3>2. PICK k \in 0..n : \E e \in stored : stored = {e} /\ e.list = Leaves(p, k)
      BY <3>1 DEF StoredFits
    <3>3. reused = Leaves(p, k) /\ Len(reused) <= count  BY <3>1, <3>2
    <3>4. k \in Nat  OBVIOUS
    <3>5. Len(Leaves(p, k)) = k  BY <3>4, LeavesAreASequence
    <3> QED  BY <3>3, <3>4, <3>5
  <2> QED  BY <2>1, <2>2
<1> HIDE DEF reused
<1>3. PICK k \in 0..count : reused = Leaves(p, k)  BY <1>2
<1>4. k \in Nat /\ count \in Nat /\ k <= count  OBVIOUS
<1>6. Len(reused) = k  BY <1>3, <1>4, LeavesAreASequence
<1>5. LoadedCommitments(p, stored, count, root) = reused \o FetchedLeaves(p, Len(reused), count)
  BY DEF LoadedCommitments, reused
<1> QED  BY <1>3, <1>4, <1>5, <1>6, LeavesConcat

\* A payload is merged with the stored list, or with none.
LEMMA MergedForms ==
  ASSUME NEW payload, NEW stored
  PROVE  /\ stored = {} => Merged(stored, payload) = {payload}
         /\ \A e : stored = {e} => Merged(stored, payload) = {e.list \o payload}
<1>1. CASE stored = {}  BY <1>1 DEF Merged
<1>2. ASSUME NEW e, stored = {e}
      PROVE  Merged(stored, payload) = {e.list \o payload}
  BY <1>2 DEF Merged
<1> QED  BY <1>1, <1>2

\* The list an append merges with nothing is the stored one.
LEMMA KnownIsStored ==
  ASSUME NEW p, NEW n \in Nat, NEW stored, StoredFits(p, n, stored)
  PROVE  \E k \in 0..n :
            /\ Len(CHOOSE l \in Merged(stored, <<>>) : TRUE) = k
            /\ IF stored = {} THEN k = 0 ELSE \A e \in stored : e.list = Leaves(p, k)
<1>1. CASE stored = {}
  <2>1. Merged(stored, <<>>) = {<<>>}  BY <1>1, MergedForms
  <2>2. (CHOOSE l \in Merged(stored, <<>>) : TRUE) = <<>>  BY <2>1
  <2>3. Len(CHOOSE l \in Merged(stored, <<>>) : TRUE) = 0  BY <2>2
  <2>4. 0 \in 0..n  OBVIOUS
  <2> QED  BY <1>1, <2>3, <2>4
<1>2. CASE stored # {}
  <2>1. PICK k \in 0..n : \E e \in stored : stored = {e} /\ e.list = Leaves(p, k)
    BY <1>2 DEF StoredFits
  <2>2. k \in Nat  OBVIOUS
  <2>3. PICK e \in stored : stored = {e} /\ e.list = Leaves(p, k)  BY <2>1
  <2>4. Merged(stored, <<>>) = {e.list \o <<>>}  BY <2>3, MergedForms
  <2>5. Merged(stored, <<>>) = {Leaves(p, k) \o <<>>}  BY <2>3, <2>4, Zenon
  <2>6. (CHOOSE l \in Merged(stored, <<>>) : TRUE) = Leaves(p, k)
    BY <2>5, <2>2, LeavesEnd
  <2>7. Len(CHOOSE l \in Merged(stored, <<>>) : TRUE) = k
    BY <2>6, <2>2, LeavesAreASequence
  <2> QED  BY <1>2, <2>1, <2>7
<1> QED  BY <1>1, <1>2

\* Merged with the leaves that follow, it is a longer list of the pool.
LEMMA MergedIsLeaves ==
  ASSUME NEW p, NEW k \in Nat, NEW m \in Nat, k <= m, NEW stored,
         IF stored = {} THEN k = 0 ELSE \A e \in stored : e.list = Leaves(p, k),
         NEW merged \in Merged(stored, FetchedLeaves(p, k, m))
  PROVE  merged = Leaves(p, m)
<1>1. CASE stored = {}
  <2>1. Merged(stored, FetchedLeaves(p, k, m)) = {FetchedLeaves(p, k, m)}
    BY <1>1, MergedForms
  <2>2. k = 0  BY <1>1
  <2> QED  BY <2>1, <2>2, NoLeaves
<1>2. CASE stored # {}
  <2>1. merged = Leaves(p, k) \o FetchedLeaves(p, k, m)  BY <1>2 DEF Merged
  <2> QED  BY <2>1, LeavesConcat
<1> QED  BY <1>1, <1>2

---------------------------------------------------------------------------
\* What fits a pool fits it when it has grown.
LEMMA FitsGrows ==
  ASSUME NEW p, NEW n \in Nat, NEW m \in Nat, n <= m, NEW stored, NEW call
  PROVE  /\ StoredFits(p, n, stored) => StoredFits(p, m, stored)
         /\ CallFits(p, n, stored, call) => CallFits(p, m, stored, call)
<1>1. 0..n \subseteq 0..m  OBVIOUS
<1>2. StoredFits(p, n, stored) => StoredFits(p, m, stored)  BY <1>1 DEF StoredFits
<1>3. SyncFits(p, n, call) => SyncFits(p, m, call)  BY <1>1 DEF SyncFits
<1>4. AppendFits(p, n, stored, call) => AppendFits(p, m, stored, call)
  BY <1>1, Zenon DEF AppendFits
<1> QED  BY <1>2, <1>3, <1>4 DEF CallFits

\* A sync does not depend on what is stored.
LEMMA SyncIgnoresStored ==
  ASSUME NEW p, NEW n, NEW stored, NEW other, NEW call, call.kind = "sync",
         CallFits(p, n, stored, call)
  PROVE  CallFits(p, n, other, call)
BY DEF CallFits, AppendFits

\* A call at any other stage holds nothing that matters.
LEMMA OtherStagesFit ==
  ASSUME NEW p, NEW n, NEW stored, NEW call, call.at \notin SyncStages \cup AppendStages
  PROVE  CallFits(p, n, stored, call)
BY DEF CallFits, SyncFits, AppendFits

\* The fields of a call.
LEMMA FieldsOfCalls ==
  DOMAIN IdleCall = {"at", "kind", "pool", "began", "count", "root", "seen", "list", "nodes"}
BY DEF IdleCall

\* A step of one call that stores nothing.
LEMMA CallStepFits ==
  ASSUME PrefixInv, NEW c \in MerkleCalls, NEW new, Goes(c, new),
         UNCHANGED <<leafCount, cache>>, DOMAIN new = DOMAIN IdleCall,
         \/ new.pool = {}
         \/ /\ new.pool = merkleCalls[c].pool /\ new.kind = merkleCalls[c].kind
            /\ \A p \in Pools : (overlaps[p] # "writes" /\ new.pool = {p})
                  => CallFits(p, leafCount[p], cache[p], new)
  PROVE  PrefixInv'
<1>1. /\ merkleCalls' = [merkleCalls EXCEPT ![c] = new] /\ overlaps' = overlaps
      /\ merkleCalls'[c] = new
      /\ \A d \in MerkleCalls : d # c => merkleCalls'[d] = merkleCalls[d]
  BY DEF Goes, PrefixInv, CacheTypes
<1>2. CacheTypes'  BY <1>1 DEF PrefixInv, CacheTypes
<1>3. ASSUME NEW p \in Pools, overlaps'[p] # "writes"
      PROVE  PoolFits(p)'
  <2>1. PoolFits(p)  BY <1>1, <1>3 DEF PrefixInv
  <2>2. StoredFits(p, leafCount'[p], cache'[p])  BY <2>1 DEF PoolFits
  <2>3. ASSUME NEW d \in MerkleCalls, merkleCalls'[d].pool = {p}
        PROVE  /\ merkleCalls[d].pool = {p} /\ merkleCalls'[d].kind = merkleCalls[d].kind
               /\ CallFits(p, leafCount[p], cache[p], merkleCalls'[d])
    <3>1. CASE d = c  BY <1>1, <1>3, <2>3, <3>1
    <3>2. CASE d # c  BY <1>1, <2>1, <2>3, <3>2 DEF PoolFits
    <3> QED  BY <3>1, <3>2
  <2>4. ASSUME NEW d \in MerkleCalls, Alone(p, d)
        PROVE  Alone(p, d)'
    BY <2>3, <2>4 DEF Alone
  <2>5. ASSUME NEW d \in MerkleCalls, merkleCalls'[d].pool = {p}
        PROVE  /\ CallFits(p, leafCount'[p], cache'[p], merkleCalls'[d])
               /\ merkleCalls'[d].kind = "sync" \/ Alone(p, d)'
    BY <2>1, <2>3, <2>4, <2>5 DEF PoolFits
  <2> QED  BY <2>2, <2>5 DEF PoolFits
<1> QED  BY <1>2, <1>3 DEF PrefixInv

\* A step of a call that stores an entry: the others on the pool are syncs.
LEMMA StoreStepFits ==
  ASSUME PrefixInv, NEW c \in MerkleCalls, NEW p \in Pools, NEW e, NEW new,
         Goes(c, new), Store(p, e), UNCHANGED leafCount, DOMAIN new = DOMAIN IdleCall,
         merkleCalls[c].pool = {p}, new.pool = {p}, new.kind = merkleCalls[c].kind,
         new.at \notin SyncStages \cup AppendStages,
         overlaps[p] # "writes" => StoredFits(p, leafCount[p], {e})
  PROVE  PrefixInv'
<1>1. /\ merkleCalls' = [merkleCalls EXCEPT ![c] = new] /\ overlaps' = overlaps
      /\ merkleCalls'[c] = new
      /\ \A d \in MerkleCalls : d # c => merkleCalls'[d] = merkleCalls[d]
      /\ cache' = [cache EXCEPT ![p] = {e}] /\ cache'[p] = {e}
      /\ \A q \in Pools : q # p => cache'[q] = cache[q]
  BY DEF Goes, Store, PrefixInv, CacheTypes
<1>2. CacheTypes'  BY <1>1 DEF PrefixInv, CacheTypes
<1>3. ASSUME NEW q \in Pools, overlaps'[q] # "writes"
      PROVE  PoolFits(q)'
  <2>1. PoolFits(q)  BY <1>1, <1>3 DEF PrefixInv
  <2>2. ASSUME NEW d \in MerkleCalls, Alone(q, d)
        PROVE  Alone(q, d)'
    BY <1>1, <2>2 DEF Alone
  <2>3. CASE q # p
    <3>1. StoredFits(q, leafCount'[q], cache'[q])  BY <1>1, <2>1, <2>3 DEF PoolFits
    <3>2. ASSUME NEW d \in MerkleCalls, merkleCalls'[d].pool = {q}
          PROVE  /\ CallFits(q, leafCount'[q], cache'[q], merkleCalls'[d])
                 /\ merkleCalls'[d].kind = "sync" \/ Alone(q, d)'
      <4>1. d # c  BY <1>1, <2>3, <3>2
      <4> QED  BY <1>1, <2>1, <2>2, <2>3, <3>2, <4>1 DEF PoolFits
    <3> QED  BY <3>1, <3>2 DEF PoolFits
  <2>4. CASE q = p
    <3>1. StoredFits(q, leafCount'[q], cache'[q])  BY <1>1, <1>3, <2>4
    <3>2. ASSUME NEW d \in MerkleCalls, merkleCalls'[d].pool = {q}
          PROVE  /\ CallFits(q, leafCount'[q], cache'[q], merkleCalls'[d])
                 /\ merkleCalls'[d].kind = "sync" \/ Alone(q, d)'
      <4>1. CASE d = c
        BY <1>1, <2>1, <2>2, <2>4, <4>1, OtherStagesFit DEF PoolFits
      <4>2. CASE d # c
        <5>1. merkleCalls'[d] = merkleCalls[d] /\ merkleCalls[d].pool = {q}
          BY <1>1, <3>2, <4>2
        <5>2. ~Alone(q, d)  BY <2>4, <4>2 DEF Alone
        <5>3. merkleCalls[d].kind = "sync" /\ CallFits(q, leafCount[q], cache[q], merkleCalls[d])
          BY <2>1, <5>1, <5>2 DEF PoolFits
        <5> QED  BY <5>1, <5>3, SyncIgnoresStored
      <4> QED  BY <4>1, <4>2
    <3> QED  BY <3>1, <3>2 DEF PoolFits
  <2> QED  BY <2>3, <2>4
<1> QED  BY <1>2, <1>3 DEF PrefixInv

\* A call that starts, and perhaps stores an entry.
LEMMA StartFits ==
  ASSUME PrefixInv, NEW c \in MerkleCalls, NEW p \in Pools, NEW call, Start(c, p, call),
         UNCHANGED leafCount, DOMAIN call = DOMAIN IdleCall, call.pool = {p},
         \/ cache' = cache
         \/ call.kind = "set" /\ \E e : Store(p, e) /\ StoredFits(p, leafCount[p], {e}),
         overlaps[p] # "writes" => CallFits(p, leafCount[p], cache'[p], call)
  PROVE  PrefixInv'
<1>1. /\ merkleCalls' = [merkleCalls EXCEPT ![c] = call] /\ merkleCalls[c].pool = {}
      /\ merkleCalls'[c] = call
      /\ \A d \in MerkleCalls : d # c => merkleCalls'[d] = merkleCalls[d]
  BY DEF Start, PrefixInv, CacheTypes, IdleCall
<1>2. /\ cache' = [q \in Pools |-> cache'[q]]
      /\ \A q \in Pools : q # p => cache'[q] = cache[q]
  BY DEF Store, PrefixInv, CacheTypes
<1>3. /\ overlaps' = [q \in Pools |-> overlaps'[q]]
      /\ \A q \in Pools : q # p => overlaps'[q] = overlaps[q]
      /\ overlaps'[p] = IF Under(p) = {} THEN overlaps[p]
           ELSE IF {call.kind} \cup {merkleCalls[d].kind : d \in Under(p)} = {"sync"}
                     /\ overlaps[p] # "writes"
             THEN "syncs" ELSE "writes"
  BY DEF Start, PrefixInv, CacheTypes
<1>4. CacheTypes'  BY <1>1, <1>2, <1>3 DEF PrefixInv, CacheTypes
<1>5. ASSUME NEW q \in Pools, overlaps'[q] # "writes"
      PROVE  PoolFits(q)'
  <2>1. overlaps[q] # "writes"  BY <1>3, <1>5
  <2>2. PoolFits(q)  BY <2>1 DEF PrefixInv
  <2>3. CASE q # p
    <3>1. ASSUME NEW d \in MerkleCalls, Alone(q, d)
          PROVE  Alone(q, d)'
      BY <1>1, <2>3, <3>1 DEF Alone
    <3>2. StoredFits(q, leafCount'[q], cache'[q])  BY <1>2, <2>2, <2>3 DEF PoolFits
    <3>3. ASSUME NEW d \in MerkleCalls, merkleCalls'[d].pool = {q}
          PROVE  /\ CallFits(q, leafCount'[q], cache'[q], merkleCalls'[d])
                 /\ merkleCalls'[d].kind = "sync" \/ Alone(q, d)'
      <4>1. d # c  BY <1>1, <2>3, <3>3
      <4> QED  BY <1>1, <1>2, <2>2, <2>3, <3>1, <3>3, <4>1 DEF PoolFits
    <3> QED  BY <3>2, <3>3 DEF PoolFits
  <2>4. CASE q = p
    <3>1. StoredFits(q, leafCount'[q], cache'[q])
      <4>1. CASE cache' = cache  BY <2>2, <4>1 DEF PoolFits
      <4>2. ASSUME NEW e, Store(p, e), StoredFits(p, leafCount[p], {e})
            PROVE  StoredFits(q, leafCount'[q], cache'[q])
        BY <2>4, <4>2 DEF Store, PrefixInv, CacheTypes
      <4> QED  BY <4>1, <4>2
    <3>2. CallFits(q, leafCount'[q], cache'[q], call)  BY <2>1, <2>4
    <3>3. CASE Under(p) = {}
      <4>1. \A d \in MerkleCalls : d # c => merkleCalls'[d].pool # {p}
        BY <1>1, <3>3 DEF Under
      <4>2. ASSUME NEW d \in MerkleCalls, merkleCalls'[d].pool = {q}
            PROVE  d = c /\ Alone(q, d)'
        BY <2>4, <4>1, <4>2 DEF Alone
      <4> QED  BY <1>1, <3>1, <3>2, <4>2 DEF PoolFits
    <3>4. CASE Under(p) # {}
      <4>1. {call.kind} \cup {merkleCalls[d].kind : d \in Under(p)} = {"sync"}
        BY <1>3, <1>5, <2>4, <3>4
      <4>2. call.kind = "sync" /\ cache' = cache  BY <4>1
      <4>3. ASSUME NEW d \in MerkleCalls, merkleCalls'[d].pool = {q}
            PROVE  /\ merkleCalls'[d].kind = "sync"
                   /\ CallFits(q, leafCount'[q], cache'[q], merkleCalls'[d])
        <5>1. CASE d = c  BY <1>1, <3>2, <4>2, <5>1
        <5>2. CASE d # c
          <6>1. merkleCalls'[d] = merkleCalls[d] /\ d \in Under(p)
            BY <1>1, <2>4, <4>3, <5>2 DEF Under
          <6>2. merkleCalls[d].kind = "sync"  BY <4>1, <6>1
          <6> QED  BY <2>2, <2>4, <4>2, <6>1, <6>2 DEF PoolFits, Under
        <5> QED  BY <5>1, <5>2
      <4> QED  BY <3>1, <4>3 DEF PoolFits
    <3> QED  BY <3>3, <3>4
  <2> QED  BY <2>3, <2>4
<1> QED  BY <1>4, <1>5 DEF PrefixInv

---------------------------------------------------------------------------
\* The actions.

\* A suspended call is on the pool it says, and its fields are those of a call.
LEMMA SuspendedHas ==
  ASSUME CacheInv, PrefixInv, NEW c \in MerkleCalls, NEW at, at # "idle", At(c, at)
  PROVE  /\ Pool(merkleCalls[c]) \in Pools
         /\ merkleCalls[c].pool = {Pool(merkleCalls[c])}
         /\ DOMAIN merkleCalls[c] = DOMAIN IdleCall
<1>1. OnPool(merkleCalls[c]) /\ Pool(merkleCalls[c]) \in Pools
  BY SuspendedOnPool DEF CacheInv
<1>2. merkleCalls[c].pool = {Pool(merkleCalls[c])}  BY <1>1 DEF OnPool, Pool
<1> QED  BY <1>1, <1>2 DEF PrefixInv, CacheTypes

\* What fits a pool that nothing unmarked overlaps on.
LEMMA FitsOf ==
  ASSUME PrefixInv, NEW c \in MerkleCalls, NEW p \in Pools, merkleCalls[c].pool = {p},
         overlaps[p] # "writes"
  PROVE  /\ leafCount[p] \in Nat
         /\ StoredFits(p, leafCount[p], cache[p])
         /\ CallFits(p, leafCount[p], cache[p], merkleCalls[c])
BY DEF PrefixInv, CacheTypes, PoolFits

LEMMA StartsFit ==
  ASSUME PrefixInv, NEW c \in MerkleCalls, NEW p \in Pools,
         SyncReadCount(c, p) \/ AppendRead(c, p) \/ SetWrite(c, p)
  PROVE  PrefixInv'
<1>1. leafCount[p] \in Nat /\ (overlaps[p] # "writes" => StoredFits(p, leafCount[p], cache[p]))
  BY DEF PrefixInv, CacheTypes, PoolFits
<1>2. CASE SyncReadCount(c, p)
  <2> DEFINE call == [IdleCall EXCEPT !.at = "counted", !.kind = "sync", !.pool = {p},
                                      !.began = leafCount[p], !.count = leafCount[p]]
  <2>1. Start(c, p, call) /\ UNCHANGED <<leafCount, cache>>
    BY <1>2 DEF SyncReadCount, chainVars
  <2>2. /\ DOMAIN call = DOMAIN IdleCall /\ call.pool = {p}
        /\ call.at = "counted" /\ call.kind = "sync" /\ call.count = leafCount[p]
    BY FieldsOfCalls DEF IdleCall
  <2> HIDE DEF call
  <2>3. CallFits(p, leafCount[p], cache[p], call)
    BY <1>1, <2>2 DEF CallFits, SyncFits, AppendFits, SyncStages, AppendStages
  <2> QED  BY <2>1, <2>2, <2>3, StartFits
<1>3. CASE AppendRead(c, p)
  <2> DEFINE known == Len(CHOOSE l \in Merged(cache[p], <<>>) : TRUE)
             Call(n) == [IdleCall EXCEPT !.at = "read", !.kind = "append", !.pool = {p},
                                         !.seen = cache[p],
                                         !.list = FetchedLeaves(p, known, known + n),
                                         !.root = Leaves(p, known + n)]
  <2>1. PICK n \in {0, 2} : /\ known + n <= leafCount[p] /\ Start(c, p, Call(n))
                            /\ UNCHANGED <<chainVars, cache, treeVars>>
    BY <1>3, Zenon DEF AppendRead
  <2> DEFINE call == Call(n)
  <2>2. /\ DOMAIN call = DOMAIN IdleCall /\ call.pool = {p}
        /\ call.at = "read" /\ call.kind = "append"
        /\ call.list = FetchedLeaves(p, known, known + n) /\ call.root = Leaves(p, known + n)
    BY FieldsOfCalls DEF IdleCall
  <2>3. Start(c, p, call)  BY <2>1
  <2> HIDE DEF Call
  <2>4. ASSUME overlaps[p] # "writes"
        PROVE  CallFits(p, leafCount[p], cache[p], call)
    <3>1. leafCount[p] \in Nat /\ StoredFits(p, leafCount[p], cache[p])  BY <1>1, <2>4
    <3>2. PICK k \in 0..leafCount[p] :
             /\ known = k
             /\ IF cache[p] = {} THEN k = 0 ELSE \A e \in cache[p] : e.list = Leaves(p, k)
      <4> DEFINE leaves == leafCount[p]
                 stored == cache[p]
      <4>1. leaves \in Nat /\ StoredFits(p, leaves, stored)  BY <3>1
      <4> HIDE DEF leaves, stored
      <4>2. \E k \in 0..leaves :
               /\ Len(CHOOSE l \in Merged(stored, <<>>) : TRUE) = k
               /\ IF stored = {} THEN k = 0 ELSE \A e \in stored : e.list = Leaves(p, k)
        BY <4>1, KnownIsStored
      <4> QED  BY <4>2 DEF leaves, stored
    <3> HIDE DEF known
    <3>3. k + n \in 0..leafCount[p] /\ k <= k + n  BY <1>1, <2>1, <3>2
    <3> QED  BY <2>2, <3>2, <3>3 DEF CallFits, SyncFits, AppendFits, SyncStages, AppendStages
  <2>5. UNCHANGED <<leafCount, cache>>  BY <2>1 DEF chainVars
  <2> QED  BY <2>2, <2>3, <2>4, <2>5, StartFits
<1>4. CASE SetWrite(c, p)
  <2>1. PICK n \in {0, leafCount[p]} :
           /\ Store(p, Entry(Leaves(p, n), Leaves(p, n), {}))
           /\ Start(c, p, [IdleCall EXCEPT !.at = "binding", !.kind = "set", !.pool = {p},
                                           !.seen = {Entry(Leaves(p, n), Leaves(p, n), {})}])
    BY <1>4, Zenon DEF SetWrite
  <2> DEFINE e    == Entry(Leaves(p, n), Leaves(p, n), {})
             call == [IdleCall EXCEPT !.at = "binding", !.kind = "set", !.pool = {p}, !.seen = {e}]
  <2>2. /\ DOMAIN call = DOMAIN IdleCall /\ call.pool = {p}
        /\ call.at = "binding" /\ call.kind = "set"
    BY FieldsOfCalls DEF IdleCall
  <2>3. Store(p, e) /\ Start(c, p, call) /\ UNCHANGED leafCount
    BY <1>4, <2>1 DEF SetWrite, chainVars
  <2>4. e.list = Leaves(p, n) /\ e.root = Leaves(p, n) /\ n \in 0..leafCount[p]
    BY <1>1 DEF Entry
  <2> HIDE DEF call, e
  <2>5. StoredFits(p, leafCount[p], {e})
    <3>1. n <= n  BY <2>4
    <3> QED  BY <2>4, <3>1 DEF StoredFits
  <2>6. CallFits(p, leafCount[p], cache'[p], call)
    BY <2>2, OtherStagesFit DEF SyncStages, AppendStages
  <2> QED  BY <2>2, <2>3, <2>5, <2>6, StartFits
<1> QED  BY <1>2, <1>3, <1>4

\* A sync up to its write.
LEMMA SyncStepsFit ==
  ASSUME CacheInv, PrefixInv, NEW c \in MerkleCalls,
         SyncReadRoot(c) \/ SyncLoad(c) \/ SyncResolve(c)
  PROVE  PrefixInv'
<1> DEFINE call == merkleCalls[c]
           p    == Pool(call)
<1>1. p \in Pools /\ call.pool = {p} /\ DOMAIN call = DOMAIN IdleCall
  BY SuspendedHas DEF SyncReadRoot, SyncLoad, SyncResolve
<1>2. UNCHANGED <<leafCount, cache>>
  BY DEF SyncReadRoot, SyncLoad, SyncResolve, chainVars
<1>3. overlaps[p] # "writes" =>
         /\ leafCount[p] \in Nat /\ StoredFits(p, leafCount[p], cache[p])
         /\ CallFits(p, leafCount[p], cache[p], call)
  BY <1>1, FitsOf
<1> HIDE DEF p
<1>4. \A q \in Pools : call.pool = {q} => q = p  BY <1>1
<1>5. CASE SyncReadRoot(c)
  <2> DEFINE new == [call EXCEPT !.at = "rooted", !.root = Leaves(p, leafCount[p])]
  <2>1. Goes(c, new) /\ call.at = "counted"  BY <1>5, Zenon DEF SyncReadRoot, At, p
  <2>2. /\ DOMAIN new = DOMAIN IdleCall /\ new.at = "rooted" /\ new.root = Leaves(p, leafCount[p])
        /\ new.pool = call.pool /\ new.kind = call.kind /\ new.count = call.count
    BY <1>1, FieldsOfCalls
  <2> HIDE DEF new
  <2>3. ASSUME overlaps[p] # "writes"
        PROVE  CallFits(p, leafCount[p], cache[p], new)
    <3>1. call.kind = "sync" /\ call.count \in 0..leafCount[p]
      BY <1>3, <2>1, <2>3 DEF CallFits, SyncFits, SyncStages
    <3>2. leafCount[p] \in 0..leafCount[p] /\ call.count <= leafCount[p]  BY <1>3, <2>3, <3>1
    <3> QED  BY <2>2, <3>1, <3>2 DEF CallFits, SyncFits, AppendFits, SyncStages, AppendStages
  <2> QED  BY <1>1, <1>2, <1>4, <2>1, <2>2, <2>3, CallStepFits
<1>6. CASE SyncLoad(c)
  <2> DEFINE list == LoadedCommitments(p, cache[p], call.count, call.root)
             new  == [call EXCEPT !.at = "loaded", !.seen = cache[p], !.list = list]
  <2>1. Goes(c, new) /\ call.at = "rooted"  BY <1>6, Zenon DEF SyncLoad, At, p
  <2>2. /\ DOMAIN new = DOMAIN IdleCall /\ new.at = "loaded" /\ new.list = list
        /\ new.pool = call.pool /\ new.kind = call.kind /\ new.count = call.count
        /\ new.root = call.root
    BY <1>1, FieldsOfCalls
  <2> HIDE DEF new
  <2>3. ASSUME overlaps[p] # "writes"
        PROVE  CallFits(p, leafCount[p], cache[p], new)
    <3>1. /\ call.kind = "sync" /\ call.count \in 0..leafCount[p]
          /\ \E m \in 0..leafCount[p] : call.count <= m /\ call.root = Leaves(p, m)
      BY <1>3, <2>1, <2>3 DEF CallFits, SyncFits, SyncStages
    <3>2. list = Leaves(p, call.count)  BY <1>3, <2>3, <3>1, LoadedIsLeaves
    <3> HIDE DEF list
    <3> QED  BY <2>2, <3>1, <3>2 DEF CallFits, SyncFits, AppendFits, SyncStages, AppendStages
  <2> HIDE DEF list
  <2> QED  BY <1>1, <1>2, <1>4, <2>1, <2>2, <2>3, CallStepFits
<1>7. CASE SyncResolve(c)
  <2>1. PICK nodes : Goes(c, [call EXCEPT !.at = "resolved", !.nodes = nodes])
    BY <1>7, Zenon DEF SyncResolve
  <2> DEFINE new == [call EXCEPT !.at = "resolved", !.nodes = nodes]
  <2>2. Goes(c, new) /\ call.at = "loaded"  BY <1>7, <2>1 DEF SyncResolve, At
  <2>3. /\ DOMAIN new = DOMAIN IdleCall /\ new.at = "resolved" /\ new.list = call.list
        /\ new.pool = call.pool /\ new.kind = call.kind /\ new.count = call.count
        /\ new.root = call.root
    BY <1>1, FieldsOfCalls
  <2> HIDE DEF new
  <2>4. ASSUME overlaps[p] # "writes"
        PROVE  CallFits(p, leafCount[p], cache[p], new)
    BY <1>3, <2>2, <2>3, <2>4 DEF CallFits, SyncFits, AppendFits, SyncStages, AppendStages
  <2> QED  BY <1>1, <1>2, <1>4, <2>2, <2>3, <2>4, CallStepFits
<1> QED  BY <1>5, <1>6, <1>7

\* An append up to its write.
LEMMA AppendStepsFit ==
  ASSUME CacheInv, PrefixInv, NEW c \in MerkleCalls, AppendResolve(c) \/ AppendReread(c)
  PROVE  PrefixInv'
<1> DEFINE call == merkleCalls[c]
           p    == Pool(call)
<1>1. p \in Pools /\ call.pool = {p} /\ DOMAIN call = DOMAIN IdleCall
  BY SuspendedHas DEF AppendResolve, AppendReread
<1>2. UNCHANGED <<leafCount, cache>>  BY DEF AppendResolve, AppendReread, chainVars
<1>3. overlaps[p] # "writes" => CallFits(p, leafCount[p], cache[p], call)
  BY <1>1, FitsOf
<1> HIDE DEF p
<1>4. \A q \in Pools : call.pool = {q} => q = p  BY <1>1
<1>5. CASE AppendResolve(c)
  <2>1. PICK nodes : Goes(c, [call EXCEPT !.at = "extended", !.nodes = nodes])
    BY <1>5, Zenon DEF AppendResolve
  <2> DEFINE new == [call EXCEPT !.at = "extended", !.nodes = nodes]
  <2>2. Goes(c, new) /\ call.at = "read"  BY <1>5, <2>1 DEF AppendResolve, At
  <2>3. /\ DOMAIN new = DOMAIN IdleCall /\ new.at = "extended" /\ new.list = call.list
        /\ new.pool = call.pool /\ new.kind = call.kind /\ new.root = call.root
    BY <1>1, FieldsOfCalls
  <2> HIDE DEF new
  <2>4. ASSUME overlaps[p] # "writes"
        PROVE  CallFits(p, leafCount[p], cache[p], new)
    BY <1>3, <2>2, <2>3, <2>4 DEF CallFits, SyncFits, AppendFits, SyncStages, AppendStages
  <2> QED  BY <1>1, <1>2, <1>4, <2>2, <2>3, <2>4, CallStepFits
<1>6. CASE AppendReread(c)
  <2> DEFINE new == [call EXCEPT !.at = "reread", !.seen = cache[p]]
  <2>1. Goes(c, new) /\ call.at = "extended"  BY <1>6, Zenon DEF AppendReread, At, p
  <2>2. /\ DOMAIN new = DOMAIN IdleCall /\ new.at = "reread" /\ new.list = call.list
        /\ new.pool = call.pool /\ new.kind = call.kind /\ new.root = call.root
        /\ new.seen = cache[p]
    BY <1>1, FieldsOfCalls
  <2> HIDE DEF new
  <2>3. ASSUME overlaps[p] # "writes"
        PROVE  CallFits(p, leafCount[p], cache[p], new)
    BY <1>3, <2>1, <2>2, <2>3 DEF CallFits, SyncFits, AppendFits, SyncStages, AppendStages
  <2> QED  BY <1>1, <1>2, <1>4, <2>1, <2>2, <2>3, CallStepFits
<1> QED  BY <1>5, <1>6

\* The writes at the end of a sync and of an append.
LEMMA WritesFit ==
  ASSUME CacheInv, PrefixInv, NEW c \in MerkleCalls, SyncWrite(c) \/ AppendWrite(c)
  PROVE  PrefixInv'
<1> DEFINE call == merkleCalls[c]
           p    == Pool(call)
<1>1. p \in Pools /\ call.pool = {p} /\ DOMAIN call = DOMAIN IdleCall
  BY SuspendedHas DEF SyncWrite, AppendWrite
<1>2. UNCHANGED leafCount  BY DEF SyncWrite, AppendWrite, chainVars
<1>3. overlaps[p] # "writes" =>
         leafCount[p] \in Nat /\ CallFits(p, leafCount[p], cache[p], call)
  BY <1>1, FitsOf
<1> HIDE DEF p
<1>4. \A at : LET new == [call EXCEPT !.at = at]
              IN /\ DOMAIN new = DOMAIN IdleCall /\ new.at = at
                 /\ new.pool = {p} /\ new.kind = call.kind
  BY <1>1, FieldsOfCalls
<1>5. CASE SyncWrite(c)
  <2> DEFINE e   == Entry(call.list, call.root, call.nodes)
             new == [call EXCEPT !.at = "returned"]
  <2>1. Store(p, e) /\ Goes(c, new) /\ call.at = "resolved"
    BY <1>5, Zenon DEF SyncWrite, At, p
  <2>2. e.list = call.list /\ e.root = call.root  BY DEF Entry
  <2>3. /\ DOMAIN new = DOMAIN IdleCall /\ new.pool = {p} /\ new.kind = call.kind
        /\ new.at \notin SyncStages \cup AppendStages
    BY <1>4 DEF SyncStages, AppendStages
  <2> HIDE DEF e, new
  <2>4. ASSUME overlaps[p] # "writes"
        PROVE  StoredFits(p, leafCount[p], {e})
    <3>1. /\ call.count \in 0..leafCount[p] /\ call.list = Leaves(p, call.count)
          /\ \E m \in 0..leafCount[p] : call.count <= m /\ call.root = Leaves(p, m)
      BY <1>3, <2>1, <2>4 DEF CallFits, SyncFits, SyncStages
    <3> QED  BY <2>2, <3>1 DEF StoredFits
  <2> QED  BY <1>1, <1>2, <2>1, <2>3, <2>4, StoreStepFits
<1>6. CASE AppendWrite(c)
  <2>1. PICK merged, nodes :
           /\ merged \in Merged(call.seen, call.list)
           /\ Store(p, Entry(merged, call.root, nodes))
           /\ Goes(c, [call EXCEPT !.at = "written"])
    BY <1>6, Zenon DEF AppendWrite, p
  <2> DEFINE e   == Entry(merged, call.root, nodes)
             new == [call EXCEPT !.at = "written"]
  <2>2. e.list = merged /\ e.root = call.root  BY DEF Entry
  <2>3. /\ DOMAIN new = DOMAIN IdleCall /\ new.pool = {p} /\ new.kind = call.kind
        /\ new.at \notin SyncStages \cup AppendStages
    BY <1>4 DEF SyncStages, AppendStages
  <2>4. Store(p, e) /\ Goes(c, new) /\ call.at = "reread"  BY <1>6, <2>1 DEF AppendWrite, At
  <2> HIDE DEF e, new
  <2>5. ASSUME overlaps[p] # "writes"
        PROVE  StoredFits(p, leafCount[p], {e})
    <3>1. PICK k \in 0..leafCount[p], m \in 0..leafCount[p] :
             /\ k <= m
             /\ call.list = FetchedLeaves(p, k, m) /\ call.root = Leaves(p, m)
             /\ IF cache[p] = {} THEN k = 0 ELSE \A x \in cache[p] : x.list = Leaves(p, k)
      BY <1>3, <2>4, <2>5 DEF CallFits, AppendFits, AppendStages
    <3>2. call.seen = cache[p]
      BY <1>3, <2>4, <2>5 DEF CallFits, AppendFits, AppendStages
    <3>3. k \in Nat /\ m \in Nat /\ m <= m  BY <1>3, <2>5
    <3>4. merged = Leaves(p, m)  BY <2>1, <3>1, <3>2, <3>3, MergedIsLeaves
    <3> QED  BY <2>2, <3>1, <3>3, <3>4 DEF StoredFits
  <2> QED  BY <1>1, <1>2, <2>3, <2>4, <2>5, StoreStepFits
<1> QED  BY <1>5, <1>6

\* What is left reads for another purpose, or ends the call.
LEMMA OtherStepsFit ==
  ASSUME CacheInv, PrefixInv, NEW c \in MerkleCalls,
         \/ SyncLeafMissing(c) \/ SyncUnchanged(c) \/ BuildWitness(c) \/ RereadForNote(c)
         \/ AssessIncomingNote(c) \/ ReadWritten(c) \/ BindWritten(c)
  PROVE  PrefixInv'
<1> DEFINE call == merkleCalls[c]
<1>1. /\ Pool(call) \in Pools /\ call.pool = {Pool(call)} /\ DOMAIN call = DOMAIN IdleCall
      /\ UNCHANGED <<leafCount, cache>>
  BY SuspendedHas
  DEF SyncLeafMissing, SyncUnchanged, BuildWitness, RereadForNote, AssessIncomingNote,
      ReadWritten, BindWritten, chainVars
<1>2. ASSUME Goes(c, IdleCall)
      PROVE  PrefixInv'
  <2>1. IdleCall.pool = {}  BY DEF IdleCall
  <2> QED  BY <1>1, <1>2, <2>1, CallStepFits
<1>3. ASSUME NEW new, Goes(c, new), DOMAIN new = DOMAIN IdleCall,
             new.pool = call.pool, new.kind = call.kind,
             new.at \in {"returned", "judging", "binding"}
      PROVE  PrefixInv'
  <2>1. \A p : CallFits(p, leafCount[p], cache[p], new)
    BY <1>3, OtherStagesFit DEF SyncStages, AppendStages
  <2> QED  BY <1>1, <1>3, <2>1, CallStepFits
<1>4. CASE SyncUnchanged(c)
  <2>1. PICK list, nodes : Goes(c, [call EXCEPT !.at = "returned", !.list = list, !.nodes = nodes])
    BY <1>4, Zenon DEF SyncUnchanged
  <2> DEFINE new == [call EXCEPT !.at = "returned", !.list = list, !.nodes = nodes]
  <2>2. /\ DOMAIN new = DOMAIN IdleCall /\ new.at = "returned"
        /\ new.pool = call.pool /\ new.kind = call.kind
    BY <1>1, FieldsOfCalls
  <2> QED  BY <1>3, <2>1, <2>2
<1>5. ASSUME NEW at \in {"judging", "binding"}, NEW seen,
             Goes(c, [call EXCEPT !.at = at, !.seen = seen])
      PROVE  PrefixInv'
  <2> DEFINE new == [call EXCEPT !.at = at, !.seen = seen]
  <2>1. /\ DOMAIN new = DOMAIN IdleCall /\ new.at = at
        /\ new.pool = call.pool /\ new.kind = call.kind
    BY <1>1, FieldsOfCalls
  <2> HIDE DEF new
  <2> QED  BY <1>3, <1>5, <2>1 DEF new
<1>6. CASE RereadForNote(c)
  <2>1. Goes(c, [call EXCEPT !.at = "judging", !.seen = cache[Pool(call)]])
    BY <1>6, Zenon DEF RereadForNote
  <2> QED  BY <1>5, <2>1
<1>7. CASE ReadWritten(c)
  <2>1. Goes(c, [call EXCEPT !.at = "binding", !.seen = cache[Pool(call)]])
    BY <1>7, Zenon DEF ReadWritten
  <2> QED  BY <1>5, <2>1
<1>8. CASE SyncLeafMissing(c) \/ BuildWitness(c) \/ AssessIncomingNote(c) \/ BindWritten(c)
  BY <1>2, <1>8 DEF SyncLeafMissing, BuildWitness, AssessIncomingNote, BindWritten
<1> QED  BY <1>4, <1>6, <1>7, <1>8

\* The pool grows.
LEMMA PairFits ==
  ASSUME PrefixInv, NEW p \in Pools, InsertPair(p)
  PROVE  PrefixInv'
<1>1. /\ leafCount' = [leafCount EXCEPT ![p] = leafCount[p] + 2]
      /\ UNCHANGED <<cache, merkleCalls, overlaps>>
  BY DEF InsertPair, callVars
<1>2. CacheTypes'  BY <1>1 DEF PrefixInv, CacheTypes
<1>3. \A q \in Pools : leafCount[q] \in Nat /\ leafCount'[q] \in Nat /\ leafCount[q] <= leafCount'[q]
  BY <1>1 DEF PrefixInv, CacheTypes
<1>4. ASSUME NEW q \in Pools, overlaps'[q] # "writes"
      PROVE  PoolFits(q)'
  <2>1. PoolFits(q)  BY <1>1, <1>4 DEF PrefixInv
  <2>2. StoredFits(q, leafCount'[q], cache'[q])
    BY <1>1, <1>3, <2>1, FitsGrows DEF PoolFits
  <2>3. ASSUME NEW d \in MerkleCalls, merkleCalls'[d].pool = {q}
        PROVE  /\ CallFits(q, leafCount'[q], cache'[q], merkleCalls'[d])
               /\ merkleCalls'[d].kind = "sync" \/ Alone(q, d)'
    BY <1>1, <1>3, <2>1, <2>3, FitsGrows DEF PoolFits, Alone
  <2> QED  BY <2>2, <2>3 DEF PoolFits
<1> QED  BY <1>2, <1>4 DEF PrefixInv

LEMMA PrefixInvInit == CacheInit => PrefixInv
<1> SUFFICES ASSUME CacheInit
             PROVE  PrefixInv
  OBVIOUS
<1>1. CacheTypes  BY DEF CacheInit, CacheTypes
<1>2. ASSUME NEW p \in Pools
      PROVE  PoolFits(p)
  <2>1. cache[p] = {} /\ \A c \in MerkleCalls : merkleCalls[c].pool = {}
    BY DEF CacheInit, IdleCall
  <2> QED  BY <2>1 DEF PoolFits, StoredFits
<1> QED  BY <1>1, <1>2 DEF PrefixInv

LEMMA PrefixStepKeeps == CacheInv /\ PrefixInv /\ [CacheNext]_cacheVars => PrefixInv'
<1> SUFFICES ASSUME CacheInv, PrefixInv, [CacheNext]_cacheVars
             PROVE  PrefixInv'
  OBVIOUS
<1>1. CASE UNCHANGED cacheVars
  BY <1>1 DEF cacheVars, chainVars, callVars, PrefixInv, CacheTypes, PoolFits, Alone
<1>2. CASE CacheNext
  BY <1>2, PairFits, StartsFit, SyncStepsFit, AppendStepsFit, WritesFit, OtherStepsFit
  DEF CacheNext
<1> QED  BY <1>1, <1>2

\* What fits is a prefix, with the root of a list as long or longer.
LEMMA FitsIsAPrefix == PrefixInv => CachedListIsAPrefix
<1> SUFFICES ASSUME PrefixInv, NEW p \in Pools, overlaps[p] # "writes", NEW e \in cache[p]
             PROVE  /\ Len(e.list) <= leafCount[p] /\ e.list = Leaves(p, Len(e.list))
                    /\ Len(e.list) <= Len(e.root) /\ e.root = Leaves(p, Len(e.root))
  BY DEF CachedListIsAPrefix
<1>1. leafCount[p] \in Nat /\ StoredFits(p, leafCount[p], cache[p])
  BY DEF PrefixInv, CacheTypes, PoolFits
<1>2. PICK k \in 0..leafCount[p], m \in 0..leafCount[p] :
         k <= m /\ e.list = Leaves(p, k) /\ e.root = Leaves(p, m)
  BY <1>1 DEF StoredFits
<1>3. k \in Nat /\ m \in Nat  BY <1>1
<1>4. Len(Leaves(p, k)) = k /\ Len(Leaves(p, m)) = m  BY <1>3, LeavesAreASequence
<1> QED  BY <1>1, <1>2, <1>4

\* However many syncs overlap, whenever the pool grows between a count and a root,
\* and whatever an earlier sync left to be reused, the cached list of a pool is a
\* prefix of its leaves (fetch-contract.ts, reuse-cached-commitments.ts); unless a
\* write of the host overlapped with another call on the pool.
THEOREM CacheIsAPrefix == CacheSpec => []CachedListIsAPrefix
<1>1. CacheInit => CacheInv /\ PrefixInv  BY CacheInvInit, PrefixInvInit
<1>2. CacheInv /\ PrefixInv /\ [CacheNext]_cacheVars => (CacheInv /\ PrefixInv)'
  BY CacheStepKeeps, PrefixStepKeeps
<1> QED  BY <1>1, <1>2, FitsIsAPrefix, PTL DEF CacheSpec

\* The same of the whole wallet state.
THEOREM WalletCacheIsAPrefix == WalletStateSpec => []CachedListIsAPrefix
<1>1. WalletStateInit => CacheInit  BY DEF WalletStateInit
<1>2. [WalletStateNext]_walletStateVars => [CacheNext]_cacheVars
  BY DEF WalletStateNext, walletStateVars
<1> QED  BY <1>1, <1>2, CacheIsAPrefix, PTL DEF WalletStateSpec, CacheSpec
---------------------------------------------------------------------------
\* A sync that nothing overlaps leaves the cache as far as the chain was.

\* How far a sync is, and what it left stored, or found there.
UpToDate(stored, call) ==
  /\ call.at \in SyncStages => call.began = call.count
  /\ call.at = "loaded" => call.seen = stored
  /\ call.at = "returned" => \E e \in stored : Len(e.list) >= call.began
  /\ call.at = "judging" => \E e \in call.seen : Len(e.list) >= call.began

\* A pool where no call overlapped has one call at most.
FreshInv ==
  \A p \in Pools : overlaps[p] = "none" =>
     \A c \in MerkleCalls : merkleCalls[c].pool = {p} =>
        Alone(p, c) /\ UpToDate(cache[p], merkleCalls[c])

\* A step of the one call of a pool.
LEMMA CallStepIsFresh ==
  ASSUME PrefixInv, FreshInv, NEW c \in MerkleCalls, NEW p \in Pools, NEW new, Goes(c, new),
         merkleCalls[c].pool = {p}, new.pool \in {{}, {p}},
         cache' = cache \/ \E e : Store(p, e),
         (overlaps[p] = "none" /\ new.pool = {p}) => UpToDate(cache'[p], new)
  PROVE  FreshInv'
<1>1. /\ overlaps' = overlaps
      /\ merkleCalls'[c] = new
      /\ \A d \in MerkleCalls : d # c => merkleCalls'[d] = merkleCalls[d]
      /\ \A q \in Pools : q # p => cache'[q] = cache[q]
  BY DEF Goes, Store, PrefixInv, CacheTypes
<1> SUFFICES ASSUME NEW q \in Pools, overlaps'[q] = "none",
                    NEW d \in MerkleCalls, merkleCalls'[d].pool = {q}
             PROVE  Alone(q, d)' /\ UpToDate(cache'[q], merkleCalls'[d])
  BY DEF FreshInv
<1>2. merkleCalls[d].pool = {q}
  <2>1. CASE d = c
    <3>1. q = p  BY <1>1, <2>1
    <3> QED  BY <2>1, <3>1
  <2>2. CASE d # c  BY <1>1, <2>2
  <2> QED  BY <2>1, <2>2
<1>3. Alone(q, d) /\ UpToDate(cache[q], merkleCalls[d])  BY <1>1, <1>2 DEF FreshInv
<1>4. Alone(q, d)'
  <2> SUFFICES ASSUME NEW x \in MerkleCalls, x # d
               PROVE  merkleCalls'[x].pool # {q}
    BY DEF Alone
  <2>1. merkleCalls[x].pool # {q}  BY <1>3 DEF Alone
  <2> QED  BY <1>1, <2>1
<1>5. CASE d = c
  <2>1. q = p  BY <1>1, <1>5
  <2> QED  BY <1>1, <1>4, <1>5, <2>1
<1>6. CASE d # c
  <2>1. q # p  BY <1>3, <1>6 DEF Alone
  <2> QED  BY <1>1, <1>3, <1>4, <1>6, <2>1
<1> QED  BY <1>5, <1>6

\* A call that starts where nothing is under way.
LEMMA StartIsFresh ==
  ASSUME PrefixInv, FreshInv, NEW c \in MerkleCalls, NEW p \in Pools, NEW call,
         Start(c, p, call), call.pool = {p},
         cache' = cache \/ \E e : Store(p, e),
         UpToDate(cache'[p], call)
  PROVE  FreshInv'
<1>1. /\ merkleCalls'[c] = call /\ merkleCalls[c].pool = {}
      /\ \A d \in MerkleCalls : d # c => merkleCalls'[d] = merkleCalls[d]
      /\ \A q \in Pools : q # p => cache'[q] = cache[q] /\ overlaps'[q] = overlaps[q]
      /\ overlaps'[p] = "none" => Under(p) = {}
  BY DEF Start, Store, PrefixInv, CacheTypes, IdleCall
<1> SUFFICES ASSUME NEW q \in Pools, overlaps'[q] = "none",
                    NEW d \in MerkleCalls, merkleCalls'[d].pool = {q}
             PROVE  Alone(q, d)' /\ UpToDate(cache'[q], merkleCalls'[d])
  BY DEF FreshInv
<1>2. CASE q = p
  <2>1. \A x \in MerkleCalls : x # c => merkleCalls'[x].pool # {p}
    BY <1>1, <1>2 DEF Under
  <2>2. d = c  BY <1>2, <2>1
  <2> QED  BY <1>1, <1>2, <2>1, <2>2 DEF Alone
<1>3. CASE q # p
  <2>1. d # c  BY <1>1, <1>3
  <2>2. Alone(q, d) /\ UpToDate(cache[q], merkleCalls[d])  BY <1>1, <1>3, <2>1 DEF FreshInv
  <2>3. \A x \in MerkleCalls : merkleCalls'[x].pool = {q} => merkleCalls[x].pool = {q}
    BY <1>1, <1>3
  <2> QED  BY <1>1, <1>3, <2>1, <2>2, <2>3 DEF Alone
<1> QED  BY <1>2, <1>3

LEMMA StartsAreFresh ==
  ASSUME PrefixInv, FreshInv, NEW c \in MerkleCalls, NEW p \in Pools,
         SyncReadCount(c, p) \/ AppendRead(c, p) \/ SetWrite(c, p)
  PROVE  FreshInv'
<1>1. CASE SyncReadCount(c, p)
  <2> DEFINE call == [IdleCall EXCEPT !.at = "counted", !.kind = "sync", !.pool = {p},
                                      !.began = leafCount[p], !.count = leafCount[p]]
  <2>1. Start(c, p, call) /\ cache' = cache  BY <1>1 DEF SyncReadCount
  <2>2. call.pool = {p} /\ call.at = "counted" /\ call.began = call.count
    BY FieldsOfCalls DEF IdleCall
  <2> HIDE DEF call
  <2>3. UpToDate(cache'[p], call)  BY <2>2 DEF UpToDate
  <2> QED  BY <2>1, <2>2, <2>3, StartIsFresh
<1>2. ASSUME NEW call, Start(c, p, call), call.pool = {p}, call.at \in {"read", "binding"},
             cache' = cache \/ \E e : Store(p, e)
      PROVE  FreshInv'
  <2>1. UpToDate(cache'[p], call)  BY <1>2 DEF UpToDate, SyncStages
  <2> QED  BY <1>2, <2>1, StartIsFresh
<1>3. CASE AppendRead(c, p)
  <2>1. PICK seen, list, root :
           Start(c, p, [IdleCall EXCEPT !.at = "read", !.kind = "append", !.pool = {p},
                                        !.seen = seen, !.list = list, !.root = root])
    BY <1>3, Zenon DEF AppendRead
  <2> DEFINE call == [IdleCall EXCEPT !.at = "read", !.kind = "append", !.pool = {p},
                                      !.seen = seen, !.list = list, !.root = root]
  <2>2. call.pool = {p} /\ call.at = "read"  BY FieldsOfCalls DEF IdleCall
  <2>3. Start(c, p, call) /\ cache' = cache  BY <1>3, <2>1 DEF AppendRead
  <2> HIDE DEF call
  <2> QED  BY <1>2, <2>2, <2>3
<1>4. CASE SetWrite(c, p)
  <2>1. PICK e : /\ Store(p, e)
                 /\ Start(c, p, [IdleCall EXCEPT !.at = "binding", !.kind = "set", !.pool = {p},
                                                 !.seen = {e}])
    BY <1>4, Zenon DEF SetWrite
  <2> DEFINE call == [IdleCall EXCEPT !.at = "binding", !.kind = "set", !.pool = {p}, !.seen = {e}]
  <2>2. call.pool = {p} /\ call.at = "binding"  BY FieldsOfCalls DEF IdleCall
  <2>3. Start(c, p, call) /\ \E x : Store(p, x)  BY <2>1
  <2> HIDE DEF call
  <2> QED  BY <1>2, <2>2, <2>3
<1> QED  BY <1>1, <1>3, <1>4

\* A sync up to its return.
LEMMA SyncStepsAreFresh ==
  ASSUME CacheInv, PrefixInv, FreshInv, NEW c \in MerkleCalls,
         \/ SyncReadRoot(c) \/ SyncLoad(c) \/ SyncUnchanged(c) \/ SyncResolve(c) \/ SyncWrite(c)
  PROVE  FreshInv'
<1> DEFINE call == merkleCalls[c]
           p    == Pool(call)
<1>1. p \in Pools /\ call.pool = {p} /\ DOMAIN call = DOMAIN IdleCall
  BY SuspendedHas DEF SyncReadRoot, SyncLoad, SyncUnchanged, SyncResolve, SyncWrite
<1>2. overlaps[p] = "none" => UpToDate(cache[p], call)  BY <1>1 DEF FreshInv
<1>3. ASSUME overlaps[p] = "none", call.at \in {"loaded", "resolved"}
      PROVE  /\ call.began = call.count /\ call.began \in Nat
             /\ Len(call.list) = call.began
  <2>1. SyncFits(p, leafCount[p], call) /\ leafCount[p] \in Nat
    BY <1>1, <1>3, FitsOf DEF CallFits
  <2>2. call.count \in 0..leafCount[p] /\ call.list = Leaves(p, call.count)
    BY <1>3, <2>1 DEF SyncFits, SyncStages
  <2>3. call.began = call.count  BY <1>2, <1>3 DEF UpToDate, SyncStages
  <2> HIDE DEF p
  <2>4. call.count \in Nat  BY <2>1, <2>2
  <2> QED  BY <2>2, <2>3, <2>4, LeavesAreASequence
<1> HIDE DEF p
<1>4. CASE SyncReadRoot(c)
  <2>1. PICK root : Goes(c, [call EXCEPT !.at = "rooted", !.root = root])
    BY <1>4, Zenon DEF SyncReadRoot
  <2> DEFINE new == [call EXCEPT !.at = "rooted", !.root = root]
  <2>2. Goes(c, new) /\ call.at = "counted" /\ cache' = cache
    BY <1>4, <2>1 DEF SyncReadRoot, At
  <2>3. /\ new.at = "rooted" /\ new.pool = {p}
        /\ new.began = call.began /\ new.count = call.count
    BY <1>1, FieldsOfCalls
  <2> HIDE DEF new
  <2>4. overlaps[p] = "none" => UpToDate(cache'[p], new)
    BY <1>2, <2>2, <2>3 DEF UpToDate, SyncStages
  <2> QED  BY <1>1, <2>2, <2>3, <2>4, CallStepIsFresh
<1>5. CASE SyncLoad(c)
  <2>1. PICK list : Goes(c, [call EXCEPT !.at = "loaded", !.seen = cache[p], !.list = list])
    BY <1>5, Zenon DEF SyncLoad, p
  <2> DEFINE new == [call EXCEPT !.at = "loaded", !.seen = cache[p], !.list = list]
  <2>2. Goes(c, new) /\ call.at = "rooted" /\ cache' = cache
    BY <1>5, <2>1 DEF SyncLoad, At
  <2>3. /\ new.at = "loaded" /\ new.pool = {p} /\ new.seen = cache[p]
        /\ new.began = call.began /\ new.count = call.count
    BY <1>1, FieldsOfCalls
  <2> HIDE DEF new
  <2>4. overlaps[p] = "none" => UpToDate(cache'[p], new)
    BY <1>2, <2>2, <2>3 DEF UpToDate, SyncStages
  <2> QED  BY <1>1, <2>2, <2>3, <2>4, CallStepIsFresh
<1>6. CASE SyncUnchanged(c)
  <2>1. PICK list, nodes :
           Goes(c, [call EXCEPT !.at = "returned", !.list = list, !.nodes = nodes])
    BY <1>6, Zenon DEF SyncUnchanged
  <2> DEFINE new == [call EXCEPT !.at = "returned", !.list = list, !.nodes = nodes]
  <2>2. /\ Goes(c, new) /\ call.at = "loaded" /\ cache' = cache
        /\ Unchanged(call.seen, call.list, call.root)
    BY <1>6, <2>1 DEF SyncUnchanged, At
  <2>3. new.at = "returned" /\ new.pool = {p} /\ new.began = call.began
    BY <1>1, FieldsOfCalls
  <2> HIDE DEF new
  <2>4. ASSUME overlaps[p] = "none"
        PROVE  UpToDate(cache'[p], new)
    <3>1. call.seen = cache[p]  BY <1>2, <2>2, <2>4 DEF UpToDate
    <3>2. PICK e \in cache[p] : Len(e.list) = Len(call.list)
      BY <2>2, <3>1 DEF Unchanged
    <3>3. Len(e.list) >= call.began  BY <1>3, <2>2, <2>4, <3>2
    <3> QED  BY <2>2, <2>3, <3>3 DEF UpToDate, SyncStages
  <2> QED  BY <1>1, <2>2, <2>3, <2>4, CallStepIsFresh
<1>7. CASE SyncResolve(c)
  <2>1. PICK nodes : Goes(c, [call EXCEPT !.at = "resolved", !.nodes = nodes])
    BY <1>7, Zenon DEF SyncResolve
  <2> DEFINE new == [call EXCEPT !.at = "resolved", !.nodes = nodes]
  <2>2. Goes(c, new) /\ call.at = "loaded" /\ cache' = cache
    BY <1>7, <2>1 DEF SyncResolve, At
  <2>3. /\ new.at = "resolved" /\ new.pool = {p}
        /\ new.began = call.began /\ new.count = call.count
    BY <1>1, FieldsOfCalls
  <2> HIDE DEF new
  <2>4. overlaps[p] = "none" => UpToDate(cache'[p], new)
    BY <1>2, <2>2, <2>3 DEF UpToDate, SyncStages
  <2> QED  BY <1>1, <2>2, <2>3, <2>4, CallStepIsFresh
<1>8. CASE SyncWrite(c)
  <2> DEFINE e   == Entry(call.list, call.root, call.nodes)
             new == [call EXCEPT !.at = "returned"]
  <2>1. Store(p, e) /\ Goes(c, new) /\ call.at = "resolved"
    BY <1>8, Zenon DEF SyncWrite, At, p
  <2>2. e.list = call.list  BY DEF Entry
  <2>3. new.at = "returned" /\ new.pool = {p} /\ new.began = call.began
    BY <1>1, FieldsOfCalls
  <2> HIDE DEF e, new
  <2>4. cache'[p] = {e}  BY <1>1, <2>1 DEF Store, PrefixInv, CacheTypes
  <2>5. ASSUME overlaps[p] = "none"
        PROVE  UpToDate(cache'[p], new)
    <3>1. Len(e.list) >= call.began  BY <1>3, <2>1, <2>2, <2>5
    <3> QED  BY <2>3, <2>4, <3>1 DEF UpToDate, SyncStages
  <2>6. \E x : Store(p, x)  BY <2>1
  <2> QED  BY <1>1, <2>1, <2>3, <2>5, <2>6, CallStepIsFresh
<1> QED  BY <1>4, <1>5, <1>6, <1>7, <1>8

\* The other steps of a call say nothing of a sync, or read what it left.
LEMMA OtherStepsAreFresh ==
  ASSUME CacheInv, PrefixInv, FreshInv, NEW c \in MerkleCalls,
         \/ SyncLeafMissing(c) \/ BuildWitness(c) \/ RereadForNote(c) \/ AssessIncomingNote(c)
         \/ AppendResolve(c) \/ AppendReread(c) \/ AppendWrite(c)
         \/ ReadWritten(c) \/ BindWritten(c)
  PROVE  FreshInv'
<1> DEFINE call == merkleCalls[c]
           p    == Pool(call)
<1>1. p \in Pools /\ call.pool = {p} /\ DOMAIN call = DOMAIN IdleCall
  BY SuspendedHas
  DEF SyncLeafMissing, BuildWitness, RereadForNote, AssessIncomingNote, AppendResolve,
      AppendReread, AppendWrite, ReadWritten, BindWritten
<1>2. cache' = cache \/ \E e : Store(p, e)
  BY DEF SyncLeafMissing, BuildWitness, RereadForNote, AssessIncomingNote, AppendResolve,
         AppendReread, AppendWrite, ReadWritten, BindWritten
<1>3. ASSUME Goes(c, IdleCall)
      PROVE  FreshInv'
  <2>1. IdleCall.pool = {} /\ {} # {p}  BY DEF IdleCall
  <2> QED  BY <1>1, <1>2, <1>3, <2>1, CallStepIsFresh
<1>4. ASSUME NEW new, Goes(c, new), new.pool = {p},
             new.at \in {"extended", "reread", "written", "binding"}
      PROVE  FreshInv'
  <2>1. UpToDate(cache'[p], new)  BY <1>4 DEF UpToDate, SyncStages
  <2> QED  BY <1>1, <1>2, <1>4, <2>1, CallStepIsFresh
<1> HIDE DEF p
<1>5. CASE RereadForNote(c)
  <2> DEFINE new == [call EXCEPT !.at = "judging", !.seen = cache[p]]
  <2>1. Goes(c, new) /\ call.at = "returned" /\ cache' = cache
    BY <1>5, Zenon DEF RereadForNote, At, p
  <2>2. new.at = "judging" /\ new.pool = {p} /\ new.seen = cache[p] /\ new.began = call.began
    BY <1>1, FieldsOfCalls
  <2> HIDE DEF new
  <2>3. ASSUME overlaps[p] = "none"
        PROVE  UpToDate(cache'[p], new)
    <3>1. UpToDate(cache[p], call)  BY <1>1, <2>3 DEF FreshInv
    <3> QED  BY <2>1, <2>2, <3>1 DEF UpToDate, SyncStages
  <2> QED  BY <1>1, <2>1, <2>2, <2>3, CallStepIsFresh
<1>6. CASE AppendResolve(c)
  <2>1. PICK nodes : Goes(c, [call EXCEPT !.at = "extended", !.nodes = nodes])
    BY <1>6, Zenon DEF AppendResolve
  <2> DEFINE new == [call EXCEPT !.at = "extended", !.nodes = nodes]
  <2>2. new.at = "extended" /\ new.pool = {p}  BY <1>1, FieldsOfCalls
  <2> HIDE DEF new
  <2> QED  BY <1>4, <2>1, <2>2 DEF new
<1>7. CASE AppendReread(c) \/ ReadWritten(c)
  <2>1. PICK at \in {"reread", "binding"}, seen \in {cache[p]} :
           Goes(c, [call EXCEPT !.at = at, !.seen = seen])
    BY <1>7 DEF AppendReread, ReadWritten, p
  <2> DEFINE new == [call EXCEPT !.at = at, !.seen = seen]
  <2>2. new.at = at /\ new.pool = {p}  BY <1>1, FieldsOfCalls
  <2> HIDE DEF new
  <2> QED  BY <1>4, <2>1, <2>2 DEF new
<1>8. CASE AppendWrite(c)
  <2> DEFINE new == [call EXCEPT !.at = "written"]
  <2>1. Goes(c, new)  BY <1>8, Zenon DEF AppendWrite
  <2>2. new.at = "written" /\ new.pool = {p}  BY <1>1, FieldsOfCalls
  <2> HIDE DEF new
  <2> QED  BY <1>4, <2>1, <2>2
<1>9. CASE SyncLeafMissing(c) \/ BuildWitness(c) \/ AssessIncomingNote(c) \/ BindWritten(c)
  BY <1>3, <1>9 DEF SyncLeafMissing, BuildWitness, AssessIncomingNote, BindWritten
<1> QED  BY <1>5, <1>6, <1>7, <1>8, <1>9

LEMMA FreshInvInit == CacheInit => FreshInv
<1> SUFFICES ASSUME CacheInit, NEW c \in MerkleCalls
             PROVE  merkleCalls[c].pool = {}
  BY DEF FreshInv
<1> QED  BY DEF CacheInit, IdleCall

LEMMA FreshStepKeeps == CacheInv /\ PrefixInv /\ FreshInv /\ [CacheNext]_cacheVars => FreshInv'
<1> SUFFICES ASSUME CacheInv, PrefixInv, FreshInv, [CacheNext]_cacheVars
             PROVE  FreshInv'
  OBVIOUS
<1>1. CASE UNCHANGED <<cache, merkleCalls, overlaps>>
  BY <1>1 DEF FreshInv, Alone
<1>2. CASE \E p \in Pools : InsertPair(p)
  BY <1>1, <1>2 DEF InsertPair, callVars
<1>3. CASE UNCHANGED cacheVars
  BY <1>1, <1>3 DEF cacheVars, callVars
<1>4. CASE CacheNext
  BY <1>2, <1>4, StartsAreFresh, SyncStepsAreFresh, OtherStepsAreFresh DEF CacheNext
<1> QED  BY <1>3, <1>4

\* A note that was on the chain when its assessment began is found in what the
\* assessment reads after its sync (hasCommitmentLeafInPoolState), whatever the cache
\* had and however far the pool grows meanwhile, when no other call overlaps.
THEOREM AssessmentSeesTheNote == CacheSpec => []AssessmentKeepsUp
<1>1. CacheInit => CacheInv /\ PrefixInv /\ FreshInv
  BY CacheInvInit, PrefixInvInit, FreshInvInit
<1>2. CacheInv /\ PrefixInv /\ FreshInv /\ [CacheNext]_cacheVars
        => (CacheInv /\ PrefixInv /\ FreshInv)'
  BY CacheStepKeeps, PrefixStepKeeps, FreshStepKeeps
<1>3. CacheInv /\ PrefixInv /\ FreshInv => AssessmentKeepsUp
  <2> SUFFICES ASSUME CacheInv, PrefixInv, FreshInv, NEW c \in MerkleCalls, At(c, "judging"),
                      overlaps[Pool(merkleCalls[c])] = "none"
               PROVE  \E e \in merkleCalls[c].seen : Len(e.list) >= merkleCalls[c].began
    BY DEF AssessmentKeepsUp
  <2> DEFINE p == Pool(merkleCalls[c])
  <2>1. p \in Pools /\ merkleCalls[c].pool = {p}  BY SuspendedHas
  <2>2. UpToDate(cache[p], merkleCalls[c])  BY <2>1 DEF FreshInv
  <2> QED  BY <2>2 DEF UpToDate, At
<1> QED  BY <1>1, <1>2, <1>3, PTL DEF CacheSpec

---------------------------------------------------------------------------
\* What a file and a key have of a pool.

\* The leaves of one pool, in any number and order.
LeafLists(p) == Seq({p} \X Nat)

\* What is stored or held of a pool is made of its leaves, even where writes
\* of the host overlapped.
EntryOf(p, e) == e.list \in LeafLists(p) /\ e.root \in LeafLists(p)

CallOf(p, call) == /\ call.list \in LeafLists(p) /\ call.root \in LeafLists(p)
                   /\ call.count \in Nat
                   /\ \A e \in call.seen : EntryOf(p, e)

OriginInv ==
  \A p \in Pools :
     /\ \A e \in cache[p] : EntryOf(p, e)
     /\ \A c \in MerkleCalls : merkleCalls[c].pool = {p} => CallOf(p, merkleCalls[c])

\* The keys that lead to a list of n leaves of a pool.
PoolKey(p, n, key) ==
  \/ \E m \in Nat \ {0} : key = <<n, "root", Leaves(p, m)>>
  \/ key = <<n, "ends", <<<<p, 1>>, <<p, n>>>>>>

EmptyKey == <<0, "ends", <<>>>>

KeyRight(p, key, tree) == \A n \in Nat \ {0} : PoolKey(p, n, key) => tree = Leaves(p, n)

\* The native trees are those their keys say.
TreesRight ==
  /\ \A p \in Pools : overlaps[p] = "none" =>
        \A k \in DOMAIN handleOf : KeyRight(p, k, trees[handleOf[k]])
  /\ EmptyKey \in DOMAIN handleOf => trees[handleOf[EmptyKey]] = <<>>

\* A first part of the leaves, with nodes of that part, if any.
Sound(p, e) ==
  /\ \E k \in Nat, m \in Nat : k <= m /\ e.list = Leaves(p, k) /\ e.root = Leaves(p, m)
  /\ e.nodes \in {{}, {e.list}}

\* What the one call of a pool holds: a sync has counted no fewer leaves than are
\* stored, and nodes are those of the list they will be stored with.
HeldSound(p, stored, call) ==
  /\ call.at \in {"counted", "rooted", "loaded"} =>
        \A e \in stored : Len(e.list) <= call.count
  /\ call.at \in {"resolved", "returned"} => Sound(p, Entry(call.list, call.root, call.nodes))
  /\ call.at = "read" => call.seen = stored
  /\ call.at \in {"extended", "reread"} => call.nodes \in {{}, {call.root}}
  /\ call.at = "binding" => \A e \in call.seen : Sound(p, e)

SoundInv ==
  \A p \in Pools : overlaps[p] = "none" =>
     /\ \A e \in cache[p] : Sound(p, e)
     /\ \A c \in MerkleCalls : merkleCalls[c].pool = {p} =>
           HeldSound(p, cache[p], merkleCalls[c])

WitnessInv == OriginInv /\ TreesRight /\ SoundInv

---------------------------------------------------------------------------
\* Files and keys.

LEMMA FilesOf ==
  ASSUME NEW e
  PROVE  /\ StateFile(e).list = e.list
         /\ e.nodes \in {{}, {<<>>}} => StateFile(e).root = {} /\ StateFile(e).nodes = {}
         /\ e.nodes \notin {{}, {<<>>}} =>
               StateFile(e).root = {e.root} /\ StateFile(e).nodes = e.nodes
BY DEF StateFile

LEMMA FileKeys ==
  ASSUME NEW file, NEW S, file.list \in Seq(S)
  PROVE  /\ \A root : file.root = {root} =>
               SessionKey(file) = <<Len(file.list), "root", root>>
         /\ file.root = {} /\ Len(file.list) = 0 => SessionKey(file) = EmptyKey
         /\ file.root = {} /\ Len(file.list) # 0 =>
               SessionKey(file) = <<Len(file.list), "ends",
                                    <<file.list[1], file.list[Len(file.list)]>>>>
<1> DEFINE n == Len(file.list)
<1>1. ASSUME NEW root, file.root = {root}
      PROVE  SessionKey(file) = <<n, "root", root>>
  <2>1. (CHOOSE r \in file.root : TRUE) = root  BY <1>1
  <2> QED  BY <1>1, <2>1 DEF SessionKey
<1>2. file.root = {} /\ n = 0 => SessionKey(file) = EmptyKey  BY DEF SessionKey, EmptyKey
<1>3. file.root = {} /\ n # 0 =>
         SessionKey(file) = <<n, "ends", <<file.list[1], file.list[n]>>>>
  BY DEF SessionKey
<1> QED  BY <1>1, <1>2, <1>3

\* A file of one pool has no key of another.
LEMMA ForeignKey ==
  ASSUME NEW p, NEW q, p # q, NEW e, EntryOf(q, e), NEW tree
  PROVE  KeyRight(p, SessionKey(StateFile(e)), tree)
<1> DEFINE file == StateFile(e)
           key  == SessionKey(file)
<1> SUFFICES ASSUME NEW n \in Nat \ {0}, PoolKey(p, n, key)
             PROVE  FALSE
  BY DEF KeyRight
<1>1. file.list = e.list /\ file.root \in {{}, {e.root}}  BY FilesOf
<1>2. e.list \in LeafLists(q) /\ e.root \in LeafLists(q)  BY DEF EntryOf
<1>3. file.list \in Seq({q} \X Nat)  BY <1>1, <1>2 DEF LeafLists
<1> HIDE DEF file
<1>4. CASE file.root = {e.root}
  <2>1. key = <<Len(file.list), "root", e.root>>  BY <1>3, <1>4, FileKeys
  <2>2. PICK m \in Nat \ {0} : key = <<n, "root", Leaves(p, m)>>
    BY <2>1 DEF PoolKey
  <2>3. e.root = Leaves(p, m)  BY <2>1, <2>2
  <2>4. Len(e.root) = m /\ e.root[1] = <<p, 1>>
    <3>1. m \in Nat /\ 1 \in 1..m  OBVIOUS
    <3>2. Len(Leaves(p, m)) = m /\ \A i \in 1..m : Leaves(p, m)[i] = <<p, i>>
      BY <3>1, LeavesAreASequence
    <3> QED  BY <2>3, <3>1, <3>2
  <2>5. e.root[1] \in {q} \X Nat  BY <1>2, <2>4 DEF LeafLists
  <2> QED  BY <2>4, <2>5
<1>5. CASE file.root = {} /\ Len(file.list) = 0
  <2>1. key = EmptyKey  BY <1>3, <1>5, FileKeys
  <2> QED  BY <2>1 DEF PoolKey, EmptyKey
<1>6. CASE file.root = {} /\ Len(file.list) # 0
  <2>1. key = <<Len(file.list), "ends", <<file.list[1], file.list[Len(file.list)]>>>>
    BY <1>3, <1>6, FileKeys
  <2>2. <<file.list[1], file.list[Len(file.list)]>> = <<<<p, 1>>, <<p, n>>>>
    BY <2>1 DEF PoolKey
  <2>3. file.list[1] \in {q} \X Nat  BY <1>3, <1>6
  <2> QED  BY <2>2, <2>3
<1> QED  BY <1>1, <1>4, <1>5, <1>6

\* A key of a pool tells the length of its file's list.
LEMMA OwnKey ==
  ASSUME NEW p, NEW k \in Nat, NEW e, EntryOf(p, e), e.list = Leaves(p, k)
  PROVE  KeyRight(p, SessionKey(StateFile(e)), Leaves(p, k))
<1> DEFINE file == StateFile(e)
           key  == SessionKey(file)
<1> SUFFICES ASSUME NEW n \in Nat \ {0}, PoolKey(p, n, key)
             PROVE  n = k
  BY DEF KeyRight
<1>1. file.list = e.list /\ file.root \in {{}, {e.root}}  BY FilesOf
<1>2. file.list \in Seq({p} \X Nat) /\ Len(file.list) = k
  BY <1>1, LeavesAreASequence DEF EntryOf, LeafLists
<1> HIDE DEF file
<1>3. CASE file.root = {e.root}
  <2>1. key = <<k, "root", e.root>>  BY <1>2, <1>3, FileKeys
  <2> QED  BY <2>1 DEF PoolKey
<1>4. CASE file.root = {} /\ Len(file.list) = 0
  <2>1. key = EmptyKey  BY <1>2, <1>4, FileKeys
  <2> QED  BY <2>1 DEF PoolKey, EmptyKey
<1>5. CASE file.root = {} /\ Len(file.list) # 0
  <2>1. key = <<k, "ends", <<file.list[1], file.list[k]>>>>  BY <1>2, <1>5, FileKeys
  <2> QED  BY <2>1 DEF PoolKey
<1> QED  BY <1>1, <1>3, <1>4, <1>5

\* Only a file without leaves and without nodes has the key of nothing.
LEMMA EmptyFile ==
  ASSUME NEW p, NEW e, EntryOf(p, e), SessionKey(StateFile(e)) = EmptyKey
  PROVE  e.list = <<>> /\ e.nodes \in {{}, {<<>>}} /\ StateFile(e).nodes = {}
<1> DEFINE file == StateFile(e)
           key  == SessionKey(file)
<1>1. file.list = e.list /\ file.root \in {{}, {e.root}}  BY FilesOf
<1>2. file.list \in Seq({p} \X Nat)  BY <1>1 DEF EntryOf, LeafLists
<1>3. key = EmptyKey  OBVIOUS
<1>4. file.root = {}
  <2> HIDE DEF file
  <2> SUFFICES ASSUME file.root = {e.root} PROVE FALSE  BY <1>1
  <2>1. key = <<Len(file.list), "root", e.root>>  BY <1>2, FileKeys
  <2> QED  BY <1>3, <2>1 DEF EmptyKey
<1>5. e.nodes \in {{}, {<<>>}} /\ file.nodes = {}  BY <1>4, FilesOf
<1>6. Len(file.list) = 0
  <2> HIDE DEF file
  <2> SUFFICES ASSUME Len(file.list) # 0 PROVE FALSE  OBVIOUS
  <2>1. key = <<Len(file.list), "ends", <<file.list[1], file.list[Len(file.list)]>>>>
    BY <1>2, <1>4, FileKeys
  <2> QED  BY <1>2, <1>3, <2>1 DEF EmptyKey
<1>7. e.list = <<>>
  <2>1. e.list \in Seq({p} \X Nat) /\ Len(e.list) = 0  BY <1>1, <1>2, <1>6
  <2> QED  BY <2>1
<1> QED  BY <1>5, <1>7

---------------------------------------------------------------------------
\* A tree that is imported under its key.
LEMMA RememberRight ==
  ASSUME TreesInv, TreesRight, overlaps' = overlaps, NEW q \in Pools,
         NEW key, NEW tree, NEW dropped, dropped \subseteq {s.handle : s \in sessions[q]},
         Remember(q, key, tree, dropped),
         \A p \in Pools : overlaps[p] = "none" => KeyRight(p, key, tree),
         key = EmptyKey => tree = <<>>
  PROVE  TreesRight'
<1> DEFINE handle == imports + 1
           kept   == DOMAIN handleOf \ {s.key : s \in sessions[q]}
<1>1. /\ DOMAIN handleOf' = kept \cup {key}
      /\ \A k \in kept \cup {key} : handleOf'[k] = IF k = key THEN handle ELSE handleOf[k]
      /\ \A h \in (DOMAIN trees \ dropped) \cup {handle} :
            trees'[h] = IF h = handle THEN tree ELSE trees[h]
  BY DEF Remember
<1>2. imports \in Nat /\ handle \in Nat /\ handle > imports
  BY DEF TreesInv, HandlesCounted
<1> HIDE DEF handle
<1>3. \A k \in kept : handleOf[k] \in DOMAIN trees /\ handleOf[k] # handle
  BY <1>2 DEF TreesInv, HandlesLive, HandlesCounted
<1>4. ASSUME NEW k \in kept, k # key
      PROVE  trees'[handleOf'[k]] = trees[handleOf[k]]
  <2>1. \A s \in sessions[q] : handleOf[k] # s.handle
    BY DEF TreesInv, SessionsOwnHandles
  <2>2. handleOf[k] \in DOMAIN trees \ dropped  BY <1>3, <2>1
  <2> QED  BY <1>1, <1>3, <1>4, <2>2
<1>5. key \in DOMAIN handleOf' /\ trees'[handleOf'[key]] = tree  BY <1>1
<1>6. kept \subseteq DOMAIN handleOf  OBVIOUS
<1>7. ASSUME NEW p \in Pools, overlaps'[p] = "none", NEW k \in DOMAIN handleOf'
      PROVE  KeyRight(p, k, trees'[handleOf'[k]])
  <2>1. CASE k = key  BY <1>5, <1>7, <2>1
  <2>2. CASE k # key
    <3>1. k \in kept /\ k \in DOMAIN handleOf  BY <1>1, <1>6, <1>7, <2>2
    <3>2. KeyRight(p, k, trees[handleOf[k]])  BY <1>7, <3>1 DEF TreesRight
    <3> QED  BY <1>4, <2>2, <3>1, <3>2
  <2> QED  BY <2>1, <2>2
<1>8. ASSUME EmptyKey \in DOMAIN handleOf'
      PROVE  trees'[handleOf'[EmptyKey]] = <<>>
  <2>1. CASE EmptyKey = key  BY <1>5, <2>1
  <2>2. CASE EmptyKey # key
    <3>1. EmptyKey \in kept /\ EmptyKey \in DOMAIN handleOf  BY <1>1, <1>6, <1>8, <2>2
    <3> QED  BY <1>4, <2>2, <3>1 DEF TreesRight
  <2> QED  BY <2>1, <2>2
<1>9. (\A p \in Pools : overlaps[p] = "none" =>
          \A k \in DOMAIN handleOf : KeyRight(p, k, trees[handleOf[k]]))'
  BY <1>7 DEF KeyRight
<1> QED  BY <1>8, <1>9 DEF TreesRight

LEMMA KeepRight ==
  ASSUME TreesRight, UNCHANGED <<handleOf, trees>>,
         \A p \in Pools : overlaps'[p] = "none" => overlaps[p] = "none"
  PROVE  TreesRight'
BY DEF TreesRight, KeyRight

\* A file is imported to the list of its entry.
LEMMA ImportRight ==
  ASSUME TreesInv, TreesRight, overlaps' = overlaps, NEW q \in Pools, NEW e, EntryOf(q, e),
         NEW tree, NEW dropped, dropped \subseteq {s.handle : s \in sessions[q]},
         Remember(q, SessionKey(StateFile(e)), tree, dropped),
         overlaps[q] = "none" => \E k \in Nat : e.list = Leaves(q, k) /\ tree = Leaves(q, k),
         SessionKey(StateFile(e)) = EmptyKey => tree = <<>>
  PROVE  TreesRight'
<1>1. ASSUME NEW p \in Pools, overlaps[p] = "none"
      PROVE  KeyRight(p, SessionKey(StateFile(e)), tree)
  <2>1. CASE p = q  BY <1>1, <2>1, OwnKey
  <2>2. CASE p # q  BY <2>2, ForeignKey
  <2> QED  BY <2>1, <2>2
<1> QED  BY <1>1, RememberRight

---------------------------------------------------------------------------
\* What a resolution of nodes returns.

LEMMA LeavesUpto ==
  ASSUME NEW p, NEW k \in Nat, NEW n \in Nat, k <= n
  PROVE  Upto(Leaves(p, n), k) = Leaves(p, k)
<1> DEFINE b == Leaves(p, n)
           a == Leaves(p, k)
           u == Upto(b, k)
<1>1. /\ a \in Seq({p} \X Nat) /\ Len(a) = k /\ \A i \in 1..k : a[i] = <<p, i>>
      /\ b \in Seq({p} \X Nat) /\ Len(b) = n /\ \A i \in 1..n : b[i] = <<p, i>>
  BY LeavesAreASequence
<1>2. u = SubSeq(b, 1, k)
  <2>1. u = SubSeq(b, 1, IF k < Len(b) THEN k ELSE Len(b))  BY DEF Upto
  <2>2. (IF k < Len(b) THEN k ELSE Len(b)) = k  BY <1>1
  <2> QED  BY <2>1, <2>2
<1> HIDE DEF a, b, u
<1>3. \A i \in 1 .. k : b[i] \in {p} \X Nat  BY <1>1
<1>4. /\ u \in Seq({p} \X Nat)
      /\ Len(u) = k
      /\ \A i \in 1 .. k : u[i] = <<p, i>>
  BY <1>1, <1>2, <1>3, SubSeqProperties
<1> QED  BY <1>1, <1>4, SeqEqual DEF a, b, u

\* The stored nodes, extended to a list no shorter, are those of the list.
LEMMA ExtendedIsList ==
  ASSUME NEW p, NEW n \in Nat, NEW stored, NEW root,
         \A e \in stored : Sound(p, e) /\ stored = {e} /\ Len(e.list) <= n
  PROVE  ExtendedNodes(stored, Leaves(p, n), root) \in {{}, {Leaves(p, n)}}
<1> DEFINE list      == Leaves(p, n)
           withNodes == {e \in stored : e.nodes # {}}
           Prefix(e) == StateFile(Entry(Upto(list, Len(e.list)), e.root, e.nodes))
           usable    == {f \in {Prefix(e) : e \in withNodes} : f.nodes # {} /\ f.list # <<>>}
           whole     == StateFile(Entry(list, root, {}))
           file      == SnapshotToImport(stored, list, root)
<1>1. file = IF usable = {} THEN whole ELSE CHOOSE f \in usable : TRUE
  BY DEF SnapshotToImport
<1>2. ExtendedNodes(stored, list, root) \in {{}, ExtendedTree(file, list)}
  BY DEF ExtendedNodes
<1> SUFFICES ExtendedTree(file, list) \in {{}, {list}}
  BY <1>2
<1>3. CASE usable = {}
  <2>1. file = whole  BY <1>1, <1>3
  <2>2. whole.list = list /\ whole.nodes = {}  BY FilesOf DEF Entry
  <2> HIDE DEF whole, file, list
  <2>3. ImportedTree(file) = list  BY <2>1, <2>2 DEF ImportedTree
  <2> QED  BY <2>1, <2>2, <2>3 DEF ExtendedTree
<1>4. CASE usable # {}
  <2>1. file \in usable  BY <1>1, <1>4
  <2> HIDE DEF file
  <2>2. PICK e \in withNodes : file = Prefix(e)  BY <2>1
  <2>3. Sound(p, e) /\ Len(e.list) <= n /\ e.nodes # {}  BY <2>2
  <2>4. PICK k \in Nat : e.list = Leaves(p, k)  BY <2>3 DEF Sound
  <2>5. Len(e.list) = k /\ k <= n /\ e.nodes = {Leaves(p, k)}
    <3>1. Len(e.list) = k  BY <2>4, LeavesAreASequence
    <3>2. e.nodes = {e.list}  BY <2>3 DEF Sound
    <3> QED  BY <2>3, <2>4, <3>1, <3>2
  <2>6. Upto(list, Len(e.list)) = Leaves(p, k)  BY <2>5, LeavesUpto
  <2>7. file = StateFile(Entry(Leaves(p, k), e.root, {Leaves(p, k)}))
    BY <2>2, <2>5, <2>6
  <2>8. file.list = Leaves(p, k) /\ file.nodes \in {{}, {Leaves(p, k)}}
    BY <2>7, FilesOf DEF Entry
  <2>9. file.nodes = {Leaves(p, k)}  BY <2>1, <2>8
  <2>10. ImportedTree(file) = Leaves(p, k)  BY <2>9 DEF ImportedTree
  <2>11. Len(file.list) = k /\ Len(list) = n  BY <2>8, LeavesAreASequence
  <2>12. NewPairs(file, list) \subseteq {FetchedLeaves(p, k, n)}
    BY <2>11 DEF NewPairs, FetchedLeaves
  <2>13. Leaves(p, k) \o FetchedLeaves(p, k, n) = list  BY <2>5, LeavesConcat
  <2> HIDE DEF list
  <2>14. ExtendedTree(file, list) \subseteq {list}
    BY <2>9, <2>10, <2>12, <2>13 DEF ExtendedTree
  <2> QED  BY <2>14
<1> QED  BY <1>3, <1>4

LEMMA ResolvedNodes ==
  ASSUME NEW p, NEW q, NEW n \in Nat, NEW stored, NEW root, NEW nodes,
         \A e \in stored : Sound(p, e) /\ stored = {e} /\ Len(e.list) <= n,
         ResolveExtendedMerkleNodes(q, stored, Leaves(p, n), root, nodes)
  PROVE  nodes \in {{}, {Leaves(p, n)}}
<1> DEFINE list == Leaves(p, n)
<1>1. CASE Unchanged(stored, list, root)
  <2>1. nodes = UNION {e.nodes : e \in stored}
    BY <1>1, Zenon DEF ResolveExtendedMerkleNodes
  <2>2. PICK e \in stored : Len(e.list) = Len(list)  BY <1>1 DEF Unchanged
  <2>3. nodes = e.nodes  BY <2>1, <2>2
  <2>4. PICK k \in Nat : e.list = Leaves(p, k)  BY <2>2 DEF Sound
  <2>5. k = n  BY <2>2, <2>4, LeavesAreASequence
  <2> QED  BY <2>2, <2>3, <2>4, <2>5 DEF Sound
<1>2. CASE ~Unchanged(stored, list, root)
  <2>1. nodes = {} \/ nodes = ExtendedNodes(stored, list, root)
    BY <1>2, Zenon DEF ResolveExtendedMerkleNodes
  <2> QED  BY <2>1, ExtendedIsList
<1> QED  BY <1>1, <1>2

LEMMA ResolveRight ==
  ASSUME TreesInv, TreesRight, overlaps' = overlaps, NEW p \in Pools, NEW stored, NEW list,
         NEW root, NEW nodes, list \in LeafLists(p), root \in LeafLists(p),
         ResolveExtendedMerkleNodes(p, stored, list, root, nodes),
         overlaps[p] = "none" => nodes \in {{}, {list}} /\ \E k \in Nat : list = Leaves(p, k)
  PROVE  TreesRight'
<1> DEFINE e    == Entry(list, root, nodes)
           tree == CHOOSE t \in nodes : TRUE
<1>1. \/ KeepTrees
      \/ nodes # {} /\ Remember(p, SessionKey(StateFile(e)), tree, {})
  BY Zenon DEF ResolveExtendedMerkleNodes
<1>2. CASE KeepTrees  BY <1>2, KeepRight DEF KeepTrees
<1>3. CASE nodes # {} /\ Remember(p, SessionKey(StateFile(e)), tree, {})
  <2>1. e.list = list /\ e.root = root /\ e.nodes = nodes  BY DEF Entry
  <2>2. tree \in nodes  BY <1>3
  <2> HIDE DEF e, tree
  <2>3. EntryOf(p, e)  BY <2>1 DEF EntryOf
  <2>4. overlaps[p] = "none" => \E k \in Nat : e.list = Leaves(p, k) /\ tree = Leaves(p, k)
    BY <2>1, <2>2
  <2>5. ASSUME SessionKey(StateFile(e)) = EmptyKey PROVE tree = <<>>
    <3>1. e.nodes \in {{}, {<<>>}}  BY <2>3, <2>5, EmptyFile
    <3> QED  BY <2>1, <2>2, <3>1
  <2>6. {} \subseteq {s.handle : s \in sessions[p]}  OBVIOUS
  <2>7. Remember(p, SessionKey(StateFile(e)), tree, {})  BY <1>3
  <2> QED  BY <2>3, <2>4, <2>5, <2>6, <2>7, ImportRight
<1> QED  BY <1>1, <1>2, <1>3

\* A sound entry is imported to its list.
LEMMA ImportedIsList ==
  ASSUME NEW e, e.nodes \in {{}, {e.list}}
  PROVE  ImportedTree(StateFile(e)) = e.list
<1>1. StateFile(e).list = e.list /\ StateFile(e).nodes \in {{}, e.nodes}  BY FilesOf
<1> QED  BY <1>1 DEF ImportedTree

LEMMA BindRight ==
  ASSUME TreesInv, TreesRight, overlaps' = overlaps, NEW p \in Pools, NEW e, EntryOf(p, e),
         BindPoolMerkleTree(p, e), overlaps[p] = "none" => Sound(p, e)
  PROVE  TreesRight'
<1> DEFINE handles == {s.handle : s \in sessions[p]}
<1>1. \/ KeepTrees
      \/ Remember(p, SessionKey(StateFile(e)), ImportedTree(StateFile(e)), handles)
  BY Zenon DEF BindPoolMerkleTree
<1>2. CASE KeepTrees  BY <1>2, KeepRight DEF KeepTrees
<1>3. CASE Remember(p, SessionKey(StateFile(e)), ImportedTree(StateFile(e)), handles)
  <2>1. overlaps[p] = "none" =>
           \E k \in Nat : e.list = Leaves(p, k) /\ ImportedTree(StateFile(e)) = Leaves(p, k)
    BY ImportedIsList DEF Sound
  <2>2. ASSUME SessionKey(StateFile(e)) = EmptyKey PROVE ImportedTree(StateFile(e)) = <<>>
    <3>1. e.list = <<>> /\ StateFile(e).nodes = {}  BY <2>2, EmptyFile
    <3>2. StateFile(e).list = e.list  BY FilesOf
    <3> QED  BY <3>1, <3>2 DEF ImportedTree
  <2>3. handles \subseteq {s.handle : s \in sessions[p]}  OBVIOUS
  <2> HIDE DEF handles
  <2> QED  BY <1>3, <2>1, <2>2, <2>3, ImportRight
<1> QED  BY <1>1, <1>2, <1>3

---------------------------------------------------------------------------
\* A step of a call that stores nothing, or a sound entry.
LEMMA CallStepIsRight ==
  ASSUME PrefixInv, FreshInv, WitnessInv, NEW c \in MerkleCalls, NEW p \in Pools, NEW new,
         Goes(c, new), merkleCalls[c].pool = {p}, new.pool \in {{}, {p}},
         \/ cache' = cache
         \/ \E e : Store(p, e) /\ EntryOf(p, e) /\ (overlaps[p] = "none" => Sound(p, e)),
         new.pool = {p} => CallOf(p, new),
         (overlaps[p] = "none" /\ new.pool = {p}) => HeldSound(p, cache'[p], new),
         TreesRight'
  PROVE  WitnessInv'
<1>1. /\ overlaps' = overlaps
      /\ merkleCalls'[c] = new
      /\ \A d \in MerkleCalls : d # c => merkleCalls'[d] = merkleCalls[d]
      /\ \A q \in Pools : q # p => cache'[q] = cache[q]
      /\ \A e : Store(p, e) => cache'[p] = {e}
  BY DEF Goes, Store, PrefixInv, CacheTypes
<1>2. OriginInv /\ SoundInv  BY DEF WitnessInv
<1>3. ASSUME NEW q \in Pools, NEW e \in cache'[q]
      PROVE  EntryOf(q, e) /\ (overlaps'[q] = "none" => Sound(q, e))
  <2>1. CASE e \in cache[q]  BY <1>1, <1>2, <2>1 DEF OriginInv, SoundInv
  <2>2. CASE e \notin cache[q]
    <3>1. q = p /\ cache' # cache  BY <1>1, <1>3, <2>2
    <3> QED  BY <1>1, <1>3, <3>1
  <2> QED  BY <2>1, <2>2
<1>4. ASSUME NEW q \in Pools, NEW d \in MerkleCalls, merkleCalls'[d].pool = {q}
      PROVE  /\ CallOf(q, merkleCalls'[d])
             /\ overlaps'[q] = "none" => HeldSound(q, cache'[q], merkleCalls'[d])
  <2>1. CASE d = c
    <3>1. new.pool = {q} /\ q = p  BY <1>1, <1>4, <2>1
    <3> QED  BY <1>1, <2>1, <3>1
  <2>2. CASE d # c
    <3>1. merkleCalls'[d] = merkleCalls[d] /\ merkleCalls[d].pool = {q}  BY <1>1, <1>4, <2>2
    <3>2. CallOf(q, merkleCalls'[d])  BY <1>2, <3>1 DEF OriginInv
    <3>3. ASSUME overlaps'[q] = "none"
          PROVE  HeldSound(q, cache'[q], merkleCalls'[d])
      <4>1. q # p
        <5> SUFFICES ASSUME q = p PROVE FALSE  OBVIOUS
        <5>1. Alone(p, c)  BY <1>1, <3>3 DEF FreshInv
        <5> QED  BY <2>2, <3>1, <5>1 DEF Alone
      <4> QED  BY <1>1, <1>2, <3>1, <3>3, <4>1 DEF SoundInv
    <3> QED  BY <3>2, <3>3
  <2> QED  BY <2>1, <2>2
<1>5. OriginInv'
  <2> SUFFICES ASSUME NEW q \in Pools
               PROVE  /\ \A e \in cache'[q] : EntryOf(q, e)
                      /\ \A d \in MerkleCalls :
                            merkleCalls'[d].pool = {q} => CallOf(q, merkleCalls'[d])
    BY DEF OriginInv, EntryOf, CallOf
  <2> QED  BY <1>3, <1>4
<1>6. SoundInv'
  <2> SUFFICES ASSUME NEW q \in Pools, overlaps'[q] = "none"
               PROVE  /\ \A e \in cache'[q] : Sound(q, e)
                      /\ \A d \in MerkleCalls :
                            merkleCalls'[d].pool = {q} =>
                               HeldSound(q, cache'[q], merkleCalls'[d])
    BY DEF SoundInv
  <2> QED  BY <1>3, <1>4
<1> QED  BY <1>5, <1>6 DEF WitnessInv

\* A call that starts, and perhaps stores an entry.
LEMMA StartIsRight ==
  ASSUME PrefixInv, FreshInv, WitnessInv, NEW c \in MerkleCalls, NEW p \in Pools, NEW call,
         Start(c, p, call), call.pool = {p}, UNCHANGED <<handleOf, trees>>,
         \/ cache' = cache
         \/ \E e : Store(p, e) /\ EntryOf(p, e) /\ Sound(p, e),
         CallOf(p, call), overlaps[p] = "none" => HeldSound(p, cache'[p], call)
  PROVE  WitnessInv'
<1>1. /\ merkleCalls'[c] = call
      /\ \A d \in MerkleCalls : d # c => merkleCalls'[d] = merkleCalls[d]
      /\ \A q \in Pools : q # p => cache'[q] = cache[q] /\ overlaps'[q] = overlaps[q]
      /\ \A e : Store(p, e) => cache'[p] = {e}
      /\ overlaps'[p] = "none" => Under(p) = {} /\ overlaps[p] = "none"
  BY DEF Start, Store, PrefixInv, CacheTypes
<1>2. OriginInv /\ SoundInv /\ TreesRight  BY DEF WitnessInv
<1>3. \A q \in Pools : overlaps'[q] = "none" => overlaps[q] = "none"  BY <1>1
<1>4. TreesRight'  BY <1>2, <1>3, KeepRight
<1>5. ASSUME NEW q \in Pools, NEW e \in cache'[q]
      PROVE  EntryOf(q, e) /\ (overlaps'[q] = "none" => Sound(q, e))
  <2>1. CASE e \in cache[q]  BY <1>2, <1>3, <2>1 DEF OriginInv, SoundInv
  <2>2. CASE e \notin cache[q]
    <3>1. q = p /\ cache' # cache  BY <1>1, <1>5, <2>2
    <3> QED  BY <1>1, <1>5, <3>1
  <2> QED  BY <2>1, <2>2
<1>6. ASSUME NEW q \in Pools, NEW d \in MerkleCalls, merkleCalls'[d].pool = {q}
      PROVE  /\ CallOf(q, merkleCalls'[d])
             /\ overlaps'[q] = "none" => HeldSound(q, cache'[q], merkleCalls'[d])
  <2>1. CASE d = c
    <3>1. q = p  BY <1>1, <1>6, <2>1
    <3> QED  BY <1>1, <2>1, <3>1
  <2>2. CASE d # c
    <3>1. merkleCalls'[d] = merkleCalls[d] /\ merkleCalls[d].pool = {q}  BY <1>1, <1>6, <2>2
    <3>2. CallOf(q, merkleCalls'[d])  BY <1>2, <3>1 DEF OriginInv
    <3>3. ASSUME overlaps'[q] = "none"
          PROVE  HeldSound(q, cache'[q], merkleCalls'[d])
      <4>1. q # p
        <5> SUFFICES ASSUME q = p PROVE FALSE  OBVIOUS
        <5> QED  BY <1>1, <3>1, <3>3 DEF Under
      <4> QED  BY <1>1, <1>2, <3>1, <3>3, <4>1 DEF SoundInv
    <3> QED  BY <3>2, <3>3
  <2> QED  BY <2>1, <2>2
<1>7. OriginInv'
  <2> SUFFICES ASSUME NEW q \in Pools
               PROVE  /\ \A e \in cache'[q] : EntryOf(q, e)
                      /\ \A d \in MerkleCalls :
                            merkleCalls'[d].pool = {q} => CallOf(q, merkleCalls'[d])
    BY DEF OriginInv, EntryOf, CallOf
  <2> QED  BY <1>5, <1>6
<1>8. SoundInv'
  <2> SUFFICES ASSUME NEW q \in Pools, overlaps'[q] = "none"
               PROVE  /\ \A e \in cache'[q] : Sound(q, e)
                      /\ \A d \in MerkleCalls :
                            merkleCalls'[d].pool = {q} =>
                               HeldSound(q, cache'[q], merkleCalls'[d])
    BY DEF SoundInv
  <2> QED  BY <1>5, <1>6
<1> QED  BY <1>4, <1>7, <1>8 DEF WitnessInv

---------------------------------------------------------------------------
\* Lists of leaves.
LEMMA LeavesAreLists ==
  ASSUME NEW p
  PROVE  /\ \A n \in Nat : Leaves(p, n) \in LeafLists(p)
         /\ \A k \in Nat, n \in Nat : k <= n => FetchedLeaves(p, k, n) \in LeafLists(p)
         /\ <<>> \in LeafLists(p)
         /\ \A a \in LeafLists(p), b \in LeafLists(p) : a \o b \in LeafLists(p)
         /\ \A a \in LeafLists(p) : Len(a) \in Nat
<1>1. \A n \in Nat : Leaves(p, n) \in LeafLists(p)  BY LeavesAreASequence DEF LeafLists
<1>2. \A k \in Nat, n \in Nat : k <= n => FetchedLeaves(p, k, n) \in LeafLists(p)
  BY FetchedIsASequence DEF LeafLists
<1>3. /\ <<>> \in LeafLists(p)
      /\ \A a \in LeafLists(p), b \in LeafLists(p) : a \o b \in LeafLists(p)
      /\ \A a \in LeafLists(p) : Len(a) \in Nat
  BY DEF LeafLists
<1> QED  BY <1>1, <1>2, <1>3

\* What a sync loads, and what an append merges, is a list of leaves of the pool
\* whatever is stored of it.
LEMMA LoadedIsAList ==
  ASSUME NEW p, NEW stored, \A e \in stored : EntryOf(p, e), NEW count \in Nat, NEW root
  PROVE  LoadedCommitments(p, stored, count, root) \in LeafLists(p)
<1> DEFINE list   == UNION {{e.list} : e \in stored}
           usable == {l \in list : /\ Len(l) <= count
                                   /\ Len(l) = count => \E e \in stored : e.root = root}
           reused == ReusedCommitments(stored, count, root)
<1>1. reused = IF usable = {} THEN <<>> ELSE CHOOSE l \in usable : TRUE
  BY DEF ReusedCommitments
<1>2. reused \in LeafLists(p) /\ Len(reused) <= count
  <2>1. CASE usable = {}
    <3>1. reused = <<>> /\ Len(<<>>) = 0  BY <1>1, <2>1
    <3> HIDE DEF reused
    <3> QED  BY <3>1, LeavesAreLists
  <2>2. CASE usable # {}
    <3>1. reused \in usable  BY <1>1, <2>2
    <3> HIDE DEF reused
    <3>2. reused \in list /\ Len(reused) <= count  BY <3>1
    <3>3. \E e \in stored : reused = e.list  BY <3>2
    <3> QED  BY <3>2, <3>3 DEF EntryOf
  <2> QED  BY <2>1, <2>2
<1>3. LoadedCommitments(p, stored, count, root) = reused \o FetchedLeaves(p, Len(reused), count)
  BY DEF LoadedCommitments
<1> HIDE DEF reused
<1>4. Len(reused) \in Nat  BY <1>2, LeavesAreLists
<1>5. FetchedLeaves(p, Len(reused), count) \in LeafLists(p)  BY <1>2, <1>4, LeavesAreLists
<1> QED  BY <1>2, <1>3, <1>5, LeavesAreLists

LEMMA MergedIsAList ==
  ASSUME NEW p, NEW stored, \A e \in stored : EntryOf(p, e), NEW payload \in LeafLists(p),
         NEW merged \in Merged(stored, payload)
  PROVE  merged \in LeafLists(p)
<1>1. merged = payload \/ \E e \in stored : merged = e.list \o payload  BY DEF Merged
<1> QED  BY <1>1, LeavesAreLists DEF EntryOf

LEMMA KnownIsANumber ==
  ASSUME NEW p, NEW stored, \A e \in stored : EntryOf(p, e)
  PROVE  Len(CHOOSE l \in Merged(stored, <<>>) : TRUE) \in Nat
<1> DEFINE known == CHOOSE l \in Merged(stored, <<>>) : TRUE
<1>1. Merged(stored, <<>>) # {}  BY DEF Merged
<1>2. known \in Merged(stored, <<>>)  BY <1>1
<1>3. <<>> \in LeafLists(p)  BY LeavesAreLists
<1> HIDE DEF known
<1>4. known \in LeafLists(p)  BY <1>2, <1>3, MergedIsAList
<1> QED  BY <1>4, LeavesAreLists DEF known

---------------------------------------------------------------------------
\* What a suspended call and its pool have.
LEMMA HeldFacts ==
  ASSUME CacheInv, PrefixInv, FreshInv, WitnessInv, NEW c \in MerkleCalls,
         NEW at, at # "idle", At(c, at), NEW p, p = Pool(merkleCalls[c])
  PROVE  /\ p \in Pools /\ merkleCalls[c].pool = {p} /\ DOMAIN merkleCalls[c] = DOMAIN IdleCall
         /\ CallOf(p, merkleCalls[c])
         /\ \A e \in cache[p] : EntryOf(p, e)
         /\ overlaps[p] = "none" =>
               /\ leafCount[p] \in Nat
               /\ \A e \in cache[p] : Sound(p, e) /\ cache[p] = {e}
               /\ SyncFits(p, leafCount[p], merkleCalls[c])
               /\ AppendFits(p, leafCount[p], cache[p], merkleCalls[c])
               /\ UpToDate(cache[p], merkleCalls[c])
               /\ HeldSound(p, cache[p], merkleCalls[c])
<1>1. p \in Pools /\ merkleCalls[c].pool = {p} /\ DOMAIN merkleCalls[c] = DOMAIN IdleCall
  BY SuspendedHas
<1>2. CallOf(p, merkleCalls[c]) /\ \A e \in cache[p] : EntryOf(p, e)
  BY <1>1 DEF WitnessInv, OriginInv
<1>3. ASSUME overlaps[p] = "none"
      PROVE  /\ leafCount[p] \in Nat
             /\ \A e \in cache[p] : Sound(p, e) /\ cache[p] = {e}
             /\ SyncFits(p, leafCount[p], merkleCalls[c])
             /\ AppendFits(p, leafCount[p], cache[p], merkleCalls[c])
             /\ UpToDate(cache[p], merkleCalls[c])
             /\ HeldSound(p, cache[p], merkleCalls[c])
  <2>1. overlaps[p] # "writes"  BY <1>3
  <2>2. /\ leafCount[p] \in Nat /\ StoredFits(p, leafCount[p], cache[p])
        /\ CallFits(p, leafCount[p], cache[p], merkleCalls[c])
    BY <1>1, <2>1, FitsOf
  <2>3. \A e \in cache[p] : cache[p] = {e}  BY <2>2 DEF StoredFits
  <2>4. UpToDate(cache[p], merkleCalls[c])  BY <1>1, <1>3 DEF FreshInv
  <2>5. HeldSound(p, cache[p], merkleCalls[c]) /\ \A e \in cache[p] : Sound(p, e)
    BY <1>1, <1>3 DEF WitnessInv, SoundInv
  <2> QED  BY <2>2, <2>3, <2>4, <2>5 DEF CallFits
<1> QED  BY <1>1, <1>2, <1>3

LEMMA StartsAreRight ==
  ASSUME PrefixInv, FreshInv, WitnessInv, NEW c \in MerkleCalls, NEW p \in Pools,
         SyncReadCount(c, p) \/ AppendRead(c, p) \/ SetWrite(c, p)
  PROVE  WitnessInv'
<1>1. leafCount[p] \in Nat /\ \A e \in cache[p] : EntryOf(p, e)
  BY DEF PrefixInv, CacheTypes, WitnessInv, OriginInv
<1>2. ASSUME overlaps[p] = "none", NEW e \in cache[p]
      PROVE  Len(e.list) <= leafCount[p]
  <2>1. StoredFits(p, leafCount[p], cache[p])  BY <1>2 DEF PrefixInv, PoolFits
  <2>2. PICK k \in 0..leafCount[p] : e.list = Leaves(p, k)  BY <2>1 DEF StoredFits
  <2>3. k \in Nat /\ k <= leafCount[p]  BY <1>1
  <2> QED  BY <2>2, <2>3, LeavesAreASequence
<1>3. UNCHANGED <<handleOf, trees>>  BY DEF SyncReadCount, AppendRead, SetWrite, treeVars
<1>4. CASE SyncReadCount(c, p)
  <2> DEFINE call == [IdleCall EXCEPT !.at = "counted", !.kind = "sync", !.pool = {p},
                                      !.began = leafCount[p], !.count = leafCount[p]]
  <2>1. Start(c, p, call) /\ cache' = cache  BY <1>4 DEF SyncReadCount
  <2>2. /\ call.pool = {p} /\ call.at = "counted" /\ call.count = leafCount[p]
        /\ call.list = <<>> /\ call.root = <<>> /\ call.seen = {}
    BY FieldsOfCalls DEF IdleCall
  <2> HIDE DEF call
  <2>3. CallOf(p, call)  BY <1>1, <2>2, LeavesAreLists DEF CallOf
  <2>4. overlaps[p] = "none" => HeldSound(p, cache'[p], call)
    BY <1>2, <2>1, <2>2 DEF HeldSound
  <2> QED  BY <1>3, <2>1, <2>2, <2>3, <2>4, StartIsRight
<1>5. CASE AppendRead(c, p)
  <2> DEFINE known == Len(CHOOSE l \in Merged(cache[p], <<>>) : TRUE)
             Call(n) == [IdleCall EXCEPT !.at = "read", !.kind = "append", !.pool = {p},
                                         !.seen = cache[p],
                                         !.list = FetchedLeaves(p, known, known + n),
                                         !.root = Leaves(p, known + n)]
  <2>1. PICK n \in {0, 2} : Start(c, p, Call(n)) /\ cache' = cache
    BY <1>5, Zenon DEF AppendRead
  <2> DEFINE call == Call(n)
  <2>2. /\ call.pool = {p} /\ call.at = "read" /\ call.count = 0 /\ call.seen = cache[p]
        /\ call.list = FetchedLeaves(p, known, known + n) /\ call.root = Leaves(p, known + n)
    BY FieldsOfCalls DEF IdleCall
  <2>3. Start(c, p, call)  BY <2>1
  <2>4. known \in Nat  BY <1>1, KnownIsANumber
  <2> HIDE DEF Call, known
  <2>5. known + n \in Nat /\ known <= known + n  BY <2>4
  <2>6. FetchedLeaves(p, known, known + n) \in LeafLists(p) /\ Leaves(p, known + n) \in LeafLists(p)
    BY <2>4, <2>5, LeavesAreLists
  <2>7. CallOf(p, call)  BY <1>1, <2>2, <2>6 DEF CallOf
  <2>8. HeldSound(p, cache'[p], call)  BY <2>1, <2>2 DEF HeldSound
  <2> QED  BY <1>3, <2>1, <2>2, <2>3, <2>7, <2>8, StartIsRight
<1>6. CASE SetWrite(c, p)
  <2>1. PICK n \in {0, leafCount[p]} :
           /\ Store(p, Entry(Leaves(p, n), Leaves(p, n), {}))
           /\ Start(c, p, [IdleCall EXCEPT !.at = "binding", !.kind = "set", !.pool = {p},
                                           !.seen = {Entry(Leaves(p, n), Leaves(p, n), {})}])
    BY <1>6, Zenon DEF SetWrite
  <2> DEFINE e    == Entry(Leaves(p, n), Leaves(p, n), {})
             call == [IdleCall EXCEPT !.at = "binding", !.kind = "set", !.pool = {p}, !.seen = {e}]
  <2>2. /\ call.pool = {p} /\ call.at = "binding" /\ call.seen = {e}
        /\ call.list = <<>> /\ call.root = <<>> /\ call.count = 0
    BY FieldsOfCalls DEF IdleCall
  <2>3. Store(p, e) /\ Start(c, p, call)  BY <2>1
  <2>4. e.list = Leaves(p, n) /\ e.root = Leaves(p, n) /\ e.nodes = {}  BY DEF Entry
  <2> HIDE DEF call, e
  <2>5. n \in Nat /\ n <= n  BY <1>1
  <2>6. Sound(p, e)  BY <2>4, <2>5 DEF Sound
  <2>7. EntryOf(p, e)  BY <2>4, <2>5, LeavesAreLists DEF EntryOf
  <2>8. CallOf(p, call)  BY <2>2, <2>7, LeavesAreLists DEF CallOf
  <2>9. HeldSound(p, cache'[p], call)  BY <2>2, <2>6 DEF HeldSound
  <2> QED  BY <1>3, <2>2, <2>3, <2>6, <2>7, <2>8, <2>9, StartIsRight
<1> QED  BY <1>4, <1>5, <1>6

\* A sync up to its return.
LEMMA SyncStepsAreRight ==
  ASSUME CacheInv, PrefixInv, FreshInv, WitnessInv, NEW c \in MerkleCalls,
         \/ SyncReadRoot(c) \/ SyncLoad(c) \/ SyncUnchanged(c) \/ SyncResolve(c) \/ SyncWrite(c)
  PROVE  WitnessInv'
<1> DEFINE call == merkleCalls[c]
           p    == Pool(call)
<1>1. /\ p \in Pools /\ call.pool = {p} /\ DOMAIN call = DOMAIN IdleCall
      /\ CallOf(p, call)
      /\ \A e \in cache[p] : EntryOf(p, e)
      /\ overlaps[p] = "none" =>
            /\ leafCount[p] \in Nat
            /\ \A e \in cache[p] : Sound(p, e) /\ cache[p] = {e}
            /\ SyncFits(p, leafCount[p], call)
            /\ UpToDate(cache[p], call)
            /\ HeldSound(p, cache[p], call)
  BY HeldFacts DEF SyncReadRoot, SyncLoad, SyncUnchanged, SyncResolve, SyncWrite
<1>2. leafCount[p] \in Nat  BY <1>1 DEF PrefixInv, CacheTypes
<1> HIDE DEF p
<1>3. /\ call.list \in LeafLists(p) /\ call.root \in LeafLists(p) /\ call.count \in Nat
      /\ \A e \in call.seen : EntryOf(p, e)
  BY <1>1 DEF CallOf
<1>4. UNCHANGED treeVars => TreesRight'
  <2> SUFFICES ASSUME UNCHANGED treeVars PROVE TreesRight'  OBVIOUS
  <2>1. overlaps' = overlaps
    BY DEF SyncReadRoot, SyncLoad, SyncUnchanged, SyncResolve, SyncWrite, Goes
  <2> QED  BY <2>1, KeepRight DEF WitnessInv, treeVars
\* A sync that has its list: the list of its count, and a root no shorter.
<1>5. ASSUME overlaps[p] = "none", call.at \in {"loaded", "resolved"}
      PROVE  /\ call.list = Leaves(p, call.count)
             /\ \E m \in Nat : call.count <= m /\ call.root = Leaves(p, m)
  <2>1. /\ call.list = Leaves(p, call.count)
        /\ \E m \in 0..leafCount[p] : call.count <= m /\ call.root = Leaves(p, m)
    BY <1>1, <1>5 DEF SyncFits, SyncStages
  <2>2. 0..leafCount[p] \subseteq Nat  BY <1>2
  <2> QED  BY <2>1, <2>2
<1>6. CASE SyncReadRoot(c)
  <2> DEFINE new == [call EXCEPT !.at = "rooted", !.root = Leaves(p, leafCount[p])]
  <2>1. Goes(c, new) /\ call.at = "counted" /\ cache' = cache /\ UNCHANGED treeVars
    BY <1>6, Zenon DEF SyncReadRoot, At, p
  <2>2. /\ new.at = "rooted" /\ new.pool = {p} /\ new.root = Leaves(p, leafCount[p])
        /\ new.list = call.list /\ new.count = call.count /\ new.seen = call.seen
    BY <1>1, FieldsOfCalls
  <2> HIDE DEF new
  <2>3. CallOf(p, new)  BY <1>2, <1>3, <2>2, LeavesAreLists DEF CallOf
  <2>4. overlaps[p] = "none" => HeldSound(p, cache'[p], new)
    BY <1>1, <2>1, <2>2 DEF HeldSound
  <2> QED  BY <1>1, <1>4, <2>1, <2>2, <2>3, <2>4, CallStepIsRight
<1>7. CASE SyncLoad(c)
  <2> DEFINE list == LoadedCommitments(p, cache[p], call.count, call.root)
             new  == [call EXCEPT !.at = "loaded", !.seen = cache[p], !.list = list]
  <2>1. Goes(c, new) /\ call.at = "rooted" /\ cache' = cache /\ UNCHANGED treeVars
    BY <1>7, Zenon DEF SyncLoad, At, p
  <2>2. /\ new.at = "loaded" /\ new.pool = {p} /\ new.list = list /\ new.seen = cache[p]
        /\ new.root = call.root /\ new.count = call.count
    BY <1>1, FieldsOfCalls
  <2> HIDE DEF new
  <2>3. list \in LeafLists(p)  BY <1>1, <1>3, LoadedIsAList
  <2> HIDE DEF list
  <2>4. CallOf(p, new)  BY <1>1, <1>3, <2>2, <2>3 DEF CallOf
  <2>5. overlaps[p] = "none" => HeldSound(p, cache'[p], new)
    BY <1>1, <2>1, <2>2 DEF HeldSound
  <2> QED  BY <1>1, <1>4, <2>1, <2>2, <2>4, <2>5, CallStepIsRight
<1>8. CASE SyncUnchanged(c)
  <2>1. PICK e \in call.seen :
           Goes(c, [call EXCEPT !.at = "returned", !.list = e.list, !.nodes = e.nodes])
    BY <1>8, Zenon DEF SyncUnchanged
  <2> DEFINE new == [call EXCEPT !.at = "returned", !.list = e.list, !.nodes = e.nodes]
  <2>2. Goes(c, new) /\ call.at = "loaded" /\ cache' = cache /\ UNCHANGED treeVars
    BY <1>8, <2>1 DEF SyncUnchanged, At
  <2>3. /\ new.at = "returned" /\ new.pool = {p} /\ new.list = e.list /\ new.nodes = e.nodes
        /\ new.root = call.root /\ new.count = call.count /\ new.seen = call.seen
    BY <1>1, FieldsOfCalls
  <2> HIDE DEF new
  <2>4. EntryOf(p, e)  BY <1>3
  <2>5. CallOf(p, new)  BY <1>3, <2>3, <2>4 DEF CallOf, EntryOf
  <2>6. ASSUME overlaps[p] = "none"
        PROVE  HeldSound(p, cache'[p], new)
    <3>1. call.seen = cache[p]  BY <1>1, <2>2, <2>6 DEF UpToDate
    <3>2. Sound(p, e)  BY <1>1, <2>6, <3>1
    <3>3. Len(e.list) <= call.count  BY <1>1, <2>2, <2>6, <3>1 DEF HeldSound
    <3>4. PICK k \in Nat : e.list = Leaves(p, k)  BY <3>2 DEF Sound
    <3>5. PICK m \in Nat : call.count <= m /\ call.root = Leaves(p, m)  BY <1>5, <2>2, <2>6
    <3>6. k <= m
      <4>1. Len(e.list) = k  BY <3>4, LeavesAreASequence
      <4> QED  BY <1>3, <3>3, <3>5, <4>1
    <3>7. e.nodes \in {{}, {e.list}}  BY <3>2 DEF Sound
    <3> DEFINE x == Entry(new.list, new.root, new.nodes)
    <3>8. x.list = Leaves(p, k) /\ x.root = Leaves(p, m) /\ x.nodes \in {{}, {x.list}}
      BY <2>3, <3>4, <3>5, <3>7 DEF Entry
    <3> HIDE DEF x
    <3>9. Sound(p, x)  BY <3>6, <3>8 DEF Sound
    <3> QED  BY <2>3, <3>9 DEF HeldSound, x
  <2> QED  BY <1>1, <1>4, <2>2, <2>3, <2>5, <2>6, CallStepIsRight
<1>9. CASE SyncResolve(c)
  <2>1. PICK nodes :
           /\ ResolveExtendedMerkleNodes(p, call.seen, call.list, call.root, nodes)
           /\ Goes(c, [call EXCEPT !.at = "resolved", !.nodes = nodes])
    BY <1>9, Zenon DEF SyncResolve, p
  <2> DEFINE new == [call EXCEPT !.at = "resolved", !.nodes = nodes]
  <2>2. Goes(c, new) /\ call.at = "loaded" /\ cache' = cache
    BY <1>9, <2>1 DEF SyncResolve, At
  <2>3. /\ new.at = "resolved" /\ new.pool = {p} /\ new.list = call.list /\ new.nodes = nodes
        /\ new.root = call.root /\ new.count = call.count /\ new.seen = call.seen
    BY <1>1, FieldsOfCalls
  <2> HIDE DEF new
  <2>4. CallOf(p, new)  BY <1>3, <2>3 DEF CallOf
  <2>5. ASSUME overlaps[p] = "none"
        PROVE  nodes \in {{}, {call.list}} /\ call.list = Leaves(p, call.count)
    <3>1. call.seen = cache[p]  BY <1>1, <2>2, <2>5 DEF UpToDate
    <3>2. \A e \in call.seen : Sound(p, e) /\ call.seen = {e} /\ Len(e.list) <= call.count
      BY <1>1, <2>2, <2>5, <3>1 DEF HeldSound
    <3>3. call.list = Leaves(p, call.count)  BY <1>5, <2>2, <2>5
    <3>4. ResolveExtendedMerkleNodes(p, call.seen, Leaves(p, call.count), call.root, nodes)
      BY <2>1, <3>3
    <3>5. nodes \in {{}, {Leaves(p, call.count)}}  BY <1>3, <3>2, <3>4, ResolvedNodes
    <3> QED  BY <3>3, <3>5
  <2>6. ASSUME overlaps[p] = "none"
        PROVE  HeldSound(p, cache'[p], new)
    <3>1. PICK m \in Nat : call.count <= m /\ call.root = Leaves(p, m)  BY <1>5, <2>2, <2>6
    <3> DEFINE x == Entry(new.list, new.root, new.nodes)
    <3>2. /\ x.list = Leaves(p, call.count) /\ x.root = Leaves(p, m)
          /\ x.nodes \in {{}, {x.list}}
      BY <2>3, <2>5, <2>6, <3>1 DEF Entry
    <3> HIDE DEF x
    <3>3. Sound(p, x)  BY <1>3, <3>1, <3>2 DEF Sound
    <3> QED  BY <2>3, <3>3 DEF HeldSound, x
  <2>7. TreesRight'
    <3>1. TreesInv /\ TreesRight /\ overlaps' = overlaps
      BY <2>2 DEF CacheInv, WitnessInv, Goes
    <3>2. overlaps[p] = "none" =>
             nodes \in {{}, {call.list}} /\ \E k \in Nat : call.list = Leaves(p, k)
      BY <1>3, <2>5
    <3> QED  BY <1>1, <1>3, <2>1, <3>1, <3>2, ResolveRight
  <2> QED  BY <1>1, <2>2, <2>3, <2>4, <2>6, <2>7, CallStepIsRight
<1>10. CASE SyncWrite(c)
  <2> DEFINE e   == Entry(call.list, call.root, call.nodes)
             new == [call EXCEPT !.at = "returned"]
  <2>1. Store(p, e) /\ Goes(c, new) /\ call.at = "resolved" /\ UNCHANGED treeVars
    BY <1>10, Zenon DEF SyncWrite, At, p
  <2>2. /\ new.at = "returned" /\ new.pool = {p} /\ new.list = call.list
        /\ new.nodes = call.nodes /\ new.root = call.root /\ new.count = call.count
        /\ new.seen = call.seen
    BY <1>1, FieldsOfCalls
  <2>3. EntryOf(p, e)  BY <1>3 DEF EntryOf, Entry
  <2> HIDE DEF e, new
  <2>4. CallOf(p, new)  BY <1>3, <2>2 DEF CallOf
  <2>5. overlaps[p] = "none" => Sound(p, e)  BY <1>1, <2>1 DEF HeldSound, e
  <2>6. overlaps[p] = "none" => HeldSound(p, cache'[p], new)
    BY <2>2, <2>5 DEF HeldSound, e
  <2> QED  BY <1>1, <1>4, <2>1, <2>2, <2>3, <2>4, <2>5, <2>6, CallStepIsRight
<1> QED  BY <1>6, <1>7, <1>8, <1>9, <1>10

---------------------------------------------------------------------------
\* An append up to its write: what it expects to write is what it will write.
LEMMA AppendStepsAreRight ==
  ASSUME CacheInv, PrefixInv, FreshInv, WitnessInv, NEW c \in MerkleCalls,
         AppendResolve(c) \/ AppendReread(c) \/ AppendWrite(c)
  PROVE  WitnessInv'
<1> DEFINE call == merkleCalls[c]
           p    == Pool(call)
<1>1. /\ p \in Pools /\ call.pool = {p} /\ DOMAIN call = DOMAIN IdleCall
      /\ CallOf(p, call)
      /\ \A e \in cache[p] : EntryOf(p, e)
      /\ overlaps[p] = "none" =>
            /\ \A e \in cache[p] : Sound(p, e) /\ cache[p] = {e}
            /\ AppendFits(p, leafCount[p], cache[p], call)
            /\ HeldSound(p, cache[p], call)
  BY HeldFacts DEF AppendResolve, AppendReread, AppendWrite
<1>2. leafCount[p] \in Nat  BY <1>1 DEF PrefixInv, CacheTypes
<1> HIDE DEF p
<1>3. /\ call.list \in LeafLists(p) /\ call.root \in LeafLists(p) /\ call.count \in Nat
      /\ \A e \in call.seen : EntryOf(p, e)
  BY <1>1 DEF CallOf
<1>4. UNCHANGED treeVars => TreesRight'
  <2> SUFFICES ASSUME UNCHANGED treeVars PROVE TreesRight'  OBVIOUS
  <2>1. overlaps' = overlaps
    BY DEF AppendResolve, AppendReread, AppendWrite, Goes
  <2> QED  BY <2>1, KeepRight DEF WitnessInv, treeVars
\* What is merged with what is stored is the list of the payload's root.
<1>5. ASSUME overlaps[p] = "none", call.at \in AppendStages, call.seen = cache[p],
             NEW merged \in Merged(call.seen, call.list)
      PROVE  \E k \in Nat, m \in Nat :
                /\ k <= m /\ merged = Leaves(p, m) /\ call.root = Leaves(p, m)
                /\ call.list = FetchedLeaves(p, k, m)
                /\ \A e \in cache[p] : e.list = Leaves(p, k)
  <2>1. PICK k \in 0..leafCount[p], m \in 0..leafCount[p] :
           /\ k <= m
           /\ call.list = FetchedLeaves(p, k, m) /\ call.root = Leaves(p, m)
           /\ IF cache[p] = {} THEN k = 0 ELSE \A e \in cache[p] : e.list = Leaves(p, k)
    BY <1>1, <1>5 DEF AppendFits
  <2>2. k \in Nat /\ m \in Nat  BY <1>2
  <2>3. IF call.seen = {} THEN k = 0 ELSE \A e \in call.seen : e.list = Leaves(p, k)
    BY <1>5, <2>1
  <2>4. merged \in Merged(call.seen, FetchedLeaves(p, k, m))  BY <1>5, <2>1
  <2>5. merged = Leaves(p, m)  BY <2>1, <2>2, <2>3, <2>4, MergedIsLeaves
  <2>6. \A e \in cache[p] : e.list = Leaves(p, k)  BY <2>1
  <2> QED  BY <2>1, <2>2, <2>5, <2>6
<1>6. CASE AppendResolve(c)
  <2>1. PICK merged, nodes :
           /\ merged \in Merged(call.seen, call.list)
           /\ ResolveExtendedMerkleNodes(p, call.seen, merged, call.root, nodes)
           /\ Goes(c, [call EXCEPT !.at = "extended", !.nodes = nodes])
    BY <1>6, Zenon DEF AppendResolve, p
  <2> DEFINE new == [call EXCEPT !.at = "extended", !.nodes = nodes]
  <2>2. Goes(c, new) /\ call.at = "read" /\ cache' = cache
    BY <1>6, <2>1 DEF AppendResolve, At
  <2>3. /\ new.at = "extended" /\ new.pool = {p} /\ new.list = call.list /\ new.nodes = nodes
        /\ new.root = call.root /\ new.count = call.count /\ new.seen = call.seen
    BY <1>1, FieldsOfCalls
  <2> HIDE DEF new
  <2>4. CallOf(p, new)  BY <1>3, <2>3 DEF CallOf
  <2>5. merged \in LeafLists(p)  BY <1>3, <2>1, MergedIsAList
  <2>6. ASSUME overlaps[p] = "none"
        PROVE  /\ nodes \in {{}, {merged}} /\ merged = call.root
               /\ \E m \in Nat : merged = Leaves(p, m)
    <3>1. call.seen = cache[p]  BY <1>1, <2>2, <2>6 DEF HeldSound
    <3>2. call.at \in AppendStages  BY <2>2 DEF AppendStages
    <3>3. PICK k \in Nat, m \in Nat :
             /\ k <= m /\ merged = Leaves(p, m) /\ call.root = Leaves(p, m)
             /\ \A e \in cache[p] : e.list = Leaves(p, k)
      BY <1>5, <2>1, <2>6, <3>1, <3>2
    <3>4. ASSUME NEW e \in call.seen
          PROVE  Sound(p, e) /\ call.seen = {e} /\ Len(e.list) <= m
      <4>1. Sound(p, e) /\ call.seen = {e} /\ e.list = Leaves(p, k)
        BY <1>1, <2>6, <3>1, <3>3
      <4> QED  BY <3>3, <4>1, LeavesAreASequence
    <3>5. ResolveExtendedMerkleNodes(p, call.seen, Leaves(p, m), call.root, nodes)
      BY <2>1, <3>3
    <3>6. nodes \in {{}, {Leaves(p, m)}}  BY <3>4, <3>5, ResolvedNodes
    <3> QED  BY <3>3, <3>6
  <2>7. overlaps[p] = "none" => HeldSound(p, cache'[p], new)
    BY <2>3, <2>6 DEF HeldSound
  <2>8. TreesRight'
    <3>1. TreesInv /\ TreesRight /\ overlaps' = overlaps
      BY <2>2 DEF CacheInv, WitnessInv, Goes
    <3>2. ResolveExtendedMerkleNodes(p, call.seen, merged, call.root, nodes)  BY <2>1
    <3> QED  BY <1>1, <1>3, <2>5, <2>6, <3>1, <3>2, ResolveRight
  <2> QED  BY <1>1, <2>2, <2>3, <2>4, <2>7, <2>8, CallStepIsRight
<1>7. CASE AppendReread(c)
  <2> DEFINE new == [call EXCEPT !.at = "reread", !.seen = cache[p]]
  <2>1. Goes(c, new) /\ call.at = "extended" /\ cache' = cache /\ UNCHANGED treeVars
    BY <1>7, Zenon DEF AppendReread, At, p
  <2>2. /\ new.at = "reread" /\ new.pool = {p} /\ new.list = call.list
        /\ new.nodes = call.nodes /\ new.root = call.root /\ new.count = call.count
        /\ new.seen = cache[p]
    BY <1>1, FieldsOfCalls
  <2> HIDE DEF new
  <2>3. CallOf(p, new)  BY <1>1, <1>3, <2>2 DEF CallOf
  <2>4. overlaps[p] = "none" => HeldSound(p, cache'[p], new)
    BY <1>1, <2>1, <2>2 DEF HeldSound
  <2> QED  BY <1>1, <1>4, <2>1, <2>2, <2>3, <2>4, CallStepIsRight
<1>8. CASE AppendWrite(c)
  <2> DEFINE kept  == IF call.list = <<>> THEN UNION {e.nodes : e \in call.seen} ELSE {}
             nodes == IF call.nodes = {} THEN kept ELSE call.nodes
  <2>1. PICK merged \in Merged(call.seen, call.list) :
           /\ Store(p, Entry(merged, call.root, nodes))
           /\ Goes(c, [call EXCEPT !.at = "written"])
    BY <1>8, Zenon DEF AppendWrite, p
  <2> DEFINE e   == Entry(merged, call.root, nodes)
             new == [call EXCEPT !.at = "written"]
  <2>2. Store(p, e) /\ Goes(c, new) /\ call.at = "reread" /\ UNCHANGED treeVars
    BY <1>8, <2>1 DEF AppendWrite, At
  <2>3. /\ new.at = "written" /\ new.pool = {p} /\ new.list = call.list
        /\ new.root = call.root /\ new.count = call.count /\ new.seen = call.seen
    BY <1>1, FieldsOfCalls
  <2>4. e.list = merged /\ e.root = call.root /\ e.nodes = nodes  BY DEF Entry
  <2>5. merged \in LeafLists(p)  BY <1>3, MergedIsAList
  <2> HIDE DEF new, e
  <2>6. EntryOf(p, e)  BY <1>3, <2>4, <2>5 DEF EntryOf
  <2>7. CallOf(p, new)  BY <1>3, <2>3 DEF CallOf
  <2>8. ASSUME overlaps[p] = "none"
        PROVE  Sound(p, e)
    <3>1. call.at \in AppendStages  BY <2>2 DEF AppendStages
    <3>2. call.seen = cache[p]  BY <1>1, <2>2, <2>8, <3>1 DEF AppendFits
    <3>3. PICK k \in Nat, m \in Nat :
             /\ k <= m /\ merged = Leaves(p, m) /\ call.root = Leaves(p, m)
             /\ call.list = FetchedLeaves(p, k, m)
             /\ \A x \in cache[p] : x.list = Leaves(p, k)
      BY <1>5, <2>8, <3>1, <3>2
    <3>4. call.nodes \in {{}, {call.root}}  BY <1>1, <2>2, <2>8 DEF HeldSound
    <3>5. ASSUME call.list = <<>>, NEW x \in call.seen
          PROVE  call.seen = {x} /\ x.nodes \in {{}, {merged}}
      <4>1. Len(FetchedLeaves(p, k, m)) = m - k  BY <3>3, FetchedIsASequence
      <4>2. Len(FetchedLeaves(p, k, m)) = 0  BY <3>3, <3>5
      <4>3. k = m  BY <4>1, <4>2
      <4>4. Sound(p, x) /\ call.seen = {x} /\ x.list = Leaves(p, k)
        BY <1>1, <2>8, <3>2, <3>3, <3>5
      <4> QED  BY <3>3, <4>3, <4>4 DEF Sound
    <3>6. kept \in {{}, {merged}}
      <4>1. CASE call.list # <<>> \/ call.seen = {}  BY <4>1
      <4>2. CASE call.list = <<>> /\ call.seen # {}
        <5>1. PICK x \in call.seen : call.seen = {x} /\ x.nodes \in {{}, {merged}}
          BY <3>5, <4>2
        <5>2. kept = x.nodes  BY <4>2, <5>1
        <5> QED  BY <5>1, <5>2
      <4> QED  BY <4>1, <4>2
    <3> HIDE DEF kept
    <3>7. nodes \in {{}, {merged}}  BY <3>3, <3>4, <3>6
    <3> HIDE DEF nodes
    <3>8. m <= m  BY <3>3
    <3> QED  BY <2>4, <3>3, <3>7, <3>8 DEF Sound
  <2>9. HeldSound(p, cache'[p], new)  BY <2>3 DEF HeldSound
  <2> QED  BY <1>1, <1>4, <2>2, <2>3, <2>6, <2>7, <2>8, <2>9, CallStepIsRight
<1> QED  BY <1>6, <1>7, <1>8

\* What is left reads for another purpose, binds a tree, or ends the call.
LEMMA OtherStepsAreRight ==
  ASSUME CacheInv, PrefixInv, FreshInv, WitnessInv, NEW c \in MerkleCalls,
         \/ SyncLeafMissing(c) \/ BuildWitness(c) \/ RereadForNote(c) \/ AssessIncomingNote(c)
         \/ ReadWritten(c) \/ BindWritten(c)
  PROVE  WitnessInv'
<1> DEFINE call == merkleCalls[c]
           p    == Pool(call)
<1>1. /\ p \in Pools /\ call.pool = {p} /\ DOMAIN call = DOMAIN IdleCall
      /\ CallOf(p, call)
      /\ \A e \in cache[p] : EntryOf(p, e)
      /\ overlaps[p] = "none" =>
            /\ \A e \in cache[p] : Sound(p, e) /\ cache[p] = {e}
            /\ HeldSound(p, cache[p], call)
  BY HeldFacts
  DEF SyncLeafMissing, BuildWitness, RereadForNote, AssessIncomingNote, ReadWritten, BindWritten
<1> HIDE DEF p
<1>2. /\ call.list \in LeafLists(p) /\ call.root \in LeafLists(p) /\ call.count \in Nat
      /\ \A e \in call.seen : EntryOf(p, e)
  BY <1>1 DEF CallOf
<1>3. cache' = cache /\ overlaps' = overlaps
  BY DEF SyncLeafMissing, BuildWitness, RereadForNote, AssessIncomingNote, ReadWritten,
         BindWritten, Goes
<1>4. UNCHANGED treeVars => TreesRight'  BY <1>3, KeepRight DEF WitnessInv, treeVars
<1>5. ASSUME Goes(c, IdleCall), TreesRight'
      PROVE  WitnessInv'
  <2>1. IdleCall.pool = {} /\ {} # {p}  BY DEF IdleCall
  <2> QED  BY <1>1, <1>3, <1>5, <2>1, CallStepIsRight
<1>6. ASSUME NEW at \in {"judging", "binding"},
             Goes(c, [call EXCEPT !.at = at, !.seen = cache[p]]), UNCHANGED treeVars
      PROVE  WitnessInv'
  <2> DEFINE new == [call EXCEPT !.at = at, !.seen = cache[p]]
  <2>1. /\ new.at = at /\ new.pool = {p} /\ new.list = call.list
        /\ new.root = call.root /\ new.count = call.count /\ new.seen = cache[p]
    BY <1>1, FieldsOfCalls
  <2>2. Goes(c, new)  BY <1>6
  <2> HIDE DEF new
  <2>3. CallOf(p, new)  BY <1>1, <1>2, <2>1 DEF CallOf
  <2>4. overlaps[p] = "none" => HeldSound(p, cache'[p], new)
    BY <1>1, <2>1 DEF HeldSound
  <2> QED  BY <1>1, <1>3, <1>4, <1>6, <2>1, <2>2, <2>3, <2>4, CallStepIsRight
<1>7. CASE RereadForNote(c)
  <2>1. Goes(c, [call EXCEPT !.at = "judging", !.seen = cache[p]]) /\ UNCHANGED treeVars
    BY <1>7, Zenon DEF RereadForNote, p
  <2> QED  BY <1>6, <2>1
<1>8. CASE ReadWritten(c)
  <2>1. Goes(c, [call EXCEPT !.at = "binding", !.seen = cache[p]]) /\ UNCHANGED treeVars
    BY <1>8, Zenon DEF ReadWritten, p
  <2> QED  BY <1>6, <2>1
<1>9. CASE SyncLeafMissing(c) \/ BuildWitness(c) \/ AssessIncomingNote(c)
  <2>1. Goes(c, IdleCall) /\ UNCHANGED treeVars
    BY <1>9 DEF SyncLeafMissing, BuildWitness, AssessIncomingNote
  <2> QED  BY <1>4, <1>5, <2>1
<1>10. CASE BindWritten(c)
  <2>1. PICK e \in call.seen : BindPoolMerkleTree(p, e)  BY <1>10 DEF BindWritten, p
  <2>2. Goes(c, IdleCall) /\ call.at = "binding"  BY <1>10 DEF BindWritten, At
  <2>3. EntryOf(p, e)  BY <1>2
  <2>4. overlaps[p] = "none" => Sound(p, e)  BY <1>1, <2>2 DEF HeldSound
  <2>5. TreesInv /\ TreesRight  BY DEF CacheInv, WitnessInv
  <2>6. TreesRight'  BY <1>1, <1>3, <2>1, <2>3, <2>4, <2>5, BindRight
  <2> QED  BY <1>5, <2>2, <2>6
<1> QED  BY <1>7, <1>8, <1>9, <1>10

LEMMA WitnessInvInit == CacheInit => WitnessInv
<1> SUFFICES ASSUME CacheInit PROVE WitnessInv  OBVIOUS
<1>1. /\ \A p \in Pools : cache[p] = {}
      /\ \A c \in MerkleCalls : merkleCalls[c].pool = {}
      /\ DOMAIN handleOf = {}
  BY DEF CacheInit, IdleCall
<1> QED  BY <1>1 DEF WitnessInv, OriginInv, TreesRight, SoundInv

LEMMA WitnessStepKeeps ==
  CacheInv /\ PrefixInv /\ FreshInv /\ WitnessInv /\ [CacheNext]_cacheVars => WitnessInv'
<1> SUFFICES ASSUME CacheInv, PrefixInv, FreshInv, WitnessInv, [CacheNext]_cacheVars
             PROVE  WitnessInv'
  OBVIOUS
<1>1. CASE UNCHANGED <<cache, handleOf, trees, merkleCalls, overlaps>>
  BY <1>1 DEF WitnessInv, OriginInv, TreesRight, KeyRight, SoundInv
<1>2. CASE \E p \in Pools : InsertPair(p)
  BY <1>1, <1>2 DEF InsertPair, callVars, treeVars
<1>3. CASE UNCHANGED cacheVars
  BY <1>1, <1>3 DEF cacheVars, callVars, treeVars
<1>4. CASE CacheNext
  BY <1>2, <1>4, StartsAreRight, SyncStepsAreRight, AppendStepsAreRight, OtherStepsAreRight
  DEF CacheNext
<1> QED  BY <1>3, <1>4

\* What a sync returns is witnessed from the tree of its list.
LEMMA WitnessOfSound ==
  ASSUME TreesRight, NEW p \in Pools, overlaps[p] = "none", NEW e, EntryOf(p, e), Sound(p, e)
  PROVE  WitnessTree(StateFile(e)) = e.list
<1> DEFINE file == StateFile(e)
           key  == SessionKey(file)
<1>1. PICK k \in Nat, m \in Nat : k <= m /\ e.list = Leaves(p, k) /\ e.root = Leaves(p, m)
  BY DEF Sound
<1>2. ImportedTree(file) = e.list  BY ImportedIsList DEF Sound
<1>3. file.list = e.list /\ file.root \in {{}, {e.root}}  BY FilesOf
<1>4. ASSUME file.root = {e.root}
      PROVE  k # 0
  <2> SUFFICES ASSUME k = 0 PROVE FALSE  OBVIOUS
  <2>1. e.list = <<>>  BY <1>1, NoLeaves
  <2>2. e.nodes \in {{}, {<<>>}}  BY <2>1 DEF Sound
  <2>3. file.root = {}  BY <2>2, FilesOf
  <2> QED  BY <1>4, <2>3
<1> HIDE DEF file
<1>5. /\ file.list \in Seq({p} \X Nat) /\ Len(file.list) = k
      /\ \A i \in 1..k : file.list[i] = <<p, i>>
  <2>1. file.list = Leaves(p, k)  BY <1>1, <1>3
  <2> QED  BY <2>1, LeavesAreASequence
<1>6. key \in DOMAIN handleOf => trees[handleOf[key]] = e.list
  <2>1. CASE k = 0
    <3>1. file.root = {}  BY <1>3, <1>4, <2>1
    <3>2. key = EmptyKey  BY <1>5, <2>1, <3>1, FileKeys
    <3>3. e.list = <<>>  BY <1>1, <2>1, NoLeaves
    <3> HIDE DEF key
    <3> QED  BY <3>2, <3>3 DEF TreesRight
  <2>2. CASE k # 0
    <3>1. k \in Nat \ {0} /\ m \in Nat \ {0}  BY <1>1, <2>2
    <3>2. PoolKey(p, k, key)
      <4>1. CASE file.root = {e.root}
        <5>1. key = <<k, "root", Leaves(p, m)>>  BY <1>1, <1>5, <4>1, FileKeys
        <5> QED  BY <3>1, <5>1 DEF PoolKey
      <4>2. CASE file.root = {}
        <5>1. key = <<k, "ends", <<file.list[1], file.list[k]>>>>
          BY <1>5, <2>2, <4>2, FileKeys
        <5>2. 1 \in 1..k /\ k \in 1..k  BY <3>1
        <5>3. file.list[1] = <<p, 1>> /\ file.list[k] = <<p, k>>  BY <1>5, <5>2
        <5> QED  BY <5>1, <5>3 DEF PoolKey
      <4> QED  BY <1>3, <4>1, <4>2
    <3> HIDE DEF key
    <3>3. key \in DOMAIN handleOf => KeyRight(p, key, trees[handleOf[key]])
      BY DEF TreesRight
    <3> QED  BY <1>1, <3>1, <3>2, <3>3 DEF KeyRight
  <2> QED  BY <2>1, <2>2
<1>7. WitnessTree(file) = e.list  BY <1>2, <1>6 DEF WitnessTree
<1> QED  BY <1>7 DEF file

\* The tree a witness is built from is found by a key that leaves out the pool and
\* the list (tree-session.ts); whatever the trees of all pools were imported from, and
\* whatever writes overlapped on others, it is the tree of the list that was synced.
THEOREM WitnessFollowsTheFile == CacheSpec => []WitnessOfTheFile
<1> DEFINE Inv == CacheInv /\ PrefixInv /\ FreshInv /\ WitnessInv
<1>1. CacheInit => Inv
  BY CacheInvInit, PrefixInvInit, FreshInvInit, WitnessInvInit
<1>2. Inv /\ [CacheNext]_cacheVars => Inv'
  BY CacheStepKeeps, PrefixStepKeeps, FreshStepKeeps, WitnessStepKeeps
<1>3. Inv => WitnessOfTheFile
  <2> SUFFICES ASSUME Inv, NEW c \in MerkleCalls, At(c, "returned"),
                      overlaps[Pool(merkleCalls[c])] = "none"
               PROVE  WitnessTree(ReturnedFile(merkleCalls[c])) = merkleCalls[c].list
    BY DEF WitnessOfTheFile
  <2> DEFINE call == merkleCalls[c]
             p    == Pool(call)
             e    == Entry(call.list, call.root, call.nodes)
  <2>1. p \in Pools /\ CallOf(p, call) /\ HeldSound(p, cache[p], call)  BY HeldFacts
  <2> HIDE DEF p
  <2>2. Sound(p, e)  BY <2>1 DEF HeldSound, At
  <2>3. EntryOf(p, e)  BY <2>1 DEF CallOf, EntryOf, Entry
  <2>4. e.list = call.list /\ ReturnedFile(call) = StateFile(e)  BY DEF Entry, ReturnedFile
  <2>5. TreesRight /\ overlaps[p] = "none"  BY DEF WitnessInv, p
  <2> HIDE DEF e
  <2> QED  BY <2>1, <2>2, <2>3, <2>4, <2>5, WitnessOfSound
<1> QED  BY <1>1, <1>2, <1>3, PTL DEF CacheSpec

\* The same of the whole wallet state.
THEOREM WalletWitnessFollowsTheFile == WalletStateSpec => []WitnessOfTheFile
<1>1. WalletStateInit => CacheInit  BY DEF WalletStateInit
<1>2. [WalletStateNext]_walletStateVars => [CacheNext]_cacheVars
  BY DEF WalletStateNext, walletStateVars
<1> QED  BY <1>1, <1>2, WitnessFollowsTheFile, PTL DEF WalletStateSpec, CacheSpec
=============================================================================
