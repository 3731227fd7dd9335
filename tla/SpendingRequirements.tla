------------------------- MODULE SpendingRequirements -------------------------
(***************************************************************************)
(* What is required of preparing and executing operations and of the       *)
(* private records they change.                                            *)
(***************************************************************************)
EXTENDS PrivateSpending

CallerStates == [pc   : {"idle", "list", "check", "select", "assert", "submit",
                         "await", "save", "mark_read", "mark_write", "upsert"},
                 op   : Ops,
                 todo : SUBSET Records,
                 list : SUBSET Records]

\* Every variable keeps its shape; amounts and values never become negative.
TypeOK ==
    /\ storage \subseteq Records
    /\ operations \in [Ops -> Operations]
    /\ callers \in [Callers -> CallerStates]
    /\ coordinated \in BOOLEAN
    /\ sent \subseteq Ops
    /\ landed \subseteq Ops
    /\ failed \subseteq Ops
    /\ notes \subseteq [key : Notes, value : Nat]
    /\ nullifiers \subseteq Keys
    /\ received \in 0 .. MaxReceived
    /\ reloads \in 0 .. MaxReloads

---------------------------------------------------------------------------
Executing(c) == callers[c].pc \in {"submit", "await", "save", "mark_read", "mark_write"}

\* What is spent and what is a note, for the pool or for a call whose
\* transaction failed in its ledger.
SpentOrFailed ==
    nullifiers \cup UNION {KeysOf(operations[op].consumed) : op \in failed}

NotesOrFailed ==
    notes \cup UNION {NotesOf(operations[op].outputs) : op \in failed}

\* The storage runs ahead of the pool only by what calls that failed in their
\* ledgers consumed and put out, whatever writes of the list overlap: a record
\* is marked only when the pool has its nullifier or such a call consumed it,
\* and a record with a coin stands for a note of that value in the pool or for
\* an output of such a call (commitStorageChanges runs when signAndSend has
\* answered; upserts and lost updates can only bring back older records).
AheadOnlyByFailed(recs) ==
    \A rec \in recs :
      /\ rec.consumed => rec.key \in SpentOrFailed
      /\ HasCoin(rec) => [key |-> rec.key, value |-> rec.value] \in NotesOrFailed

AheadOnlyByFailedCalls == AheadOnlyByFailed(storage)

\* A prepared operation is executed by one call, and sent only by that call
\* (executionStarted in createPreparedOperation).
ExecutedOnce ==
    \A c \in Callers : Executing(c) =>
      /\ OpOf(c).phase = "started"
      /\ \A d \in Callers : Executing(d) /\ callers[d].op = callers[c].op => c = d
      /\ At(c, "submit") => callers[c].op \notin sent \cup landed \cup failed

\* The choice of records covers the amount and the estimated fee, and refuses
\* only when no record and no pair of records would
\* (pickRecordsForSpendAmount looks at the two largest only).
SelectionCovers ==
    \A c \in Callers : At(c, "select") =>
      LET needed == SpendAmountCoveringProtocolFee(OpOf(c).amount)
          list   == callers[c].list
          picks  == Picks(list, needed)
      IN  /\ \A picked \in picks : picked \subseteq list /\ Total(picked) >= needed
          /\ picks = {} => \A a, b \in list : Total({a, b}) < needed

\* With one call at a time an operation that returned and whose transaction
\* succeeded has left its mark: its coins are stored, and none of what it
\* consumed can be selected.  An initial note is not forgotten either.  The
\* exceptions are what the pool has seen spent, and what a call consumed that
\* failed in its ledger: it is marked all the same, and pruned with the rest
\* (commitStorageChanges, pruneConsumedPrivateRecords).
CoordinatedCommit ==
    coordinated =>
      /\ \A op \in landed : operations[op].phase = "returned" =>
           /\ KeysOf({rec \in operations[op].outputs : HasCoin(rec)})
                \subseteq KeysOf(storage) \cup SpentOrFailed
           /\ KeysOf(operations[op].consumed) \cap KeysOf(Unconsumed(storage)) = {}
      /\ InitialNotes \subseteq KeysOf(storage) \cup SpentOrFailed

---------------------------------------------------------------------------
\* What the documentation says.

\* docs/concepts/operation-lifecycle.mdx: the storage is written after the
\* transaction is final and the operation a success, so that what is marked
\* is spent in the pool and what has a coin is a note of the pool.
StorageFollowsChain ==
    \A rec \in storage :
      /\ rec.consumed => rec.key \in nullifiers
      /\ HasCoin(rec) => [key |-> rec.key, value |-> rec.value] \in notes

\* docs/integration/state-integration.mdx: the outputs of an operation that
\* returned, and whose transaction succeeded, are stored until they are spent.
ReturnedOutputsStored ==
    \A op \in landed : operations[op].phase = "returned" =>
      KeysOf({rec \in operations[op].outputs : HasCoin(rec) /\ IsOwn(rec)})
        \subseteq KeysOf(storage) \cup nullifiers
=============================================================================
